--------------------------- MODULE MCEventReview ---------------------------
(* Small instances of EventReview for TLC. *)
EXTENDS EventReview, TLC

MCDeltas == {2}

(* The workers run the same program. *)
Alike == Permutations(Workers)

(* States that differ only in what no later step reads are explored once:  *)
(* the event in memory after the last flush from it, the state that Hold   *)
(* restores outside the classification, the delta to insert and the place  *)
(* to return to when they have been used.                                  *)
ReadsMem == {"matched", "unlinked", "linked", "checked", "classified", "review", "record"}

Live(t) ==
    [t EXCEPT !.mem = IF t.pc \in ReadsMem THEN @ ELSE Blank,
              !.snap = IF t.pc = "classified" THEN @ ELSE Blank.epi,
              !.want = IF t.pc \in {"claim", "reverse", "insert"} \/ t.then = "insert"
                       THEN @ ELSE 0,
              !.then = IF t.pc \in {"claim", "reverse", "credit"} THEN @ ELSE "ready"]

LiveState ==
    <<event, links, evidence, noted, queue, image, lock, [s \in Session |-> Live(tx[s])]>>
=============================================================================
