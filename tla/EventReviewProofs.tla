------------------------- MODULE EventReviewProofs -------------------------
(***************************************************************************)
(* Proofs about EventReview for any number of sessions and any deltas.     *)
(***************************************************************************)
EXTENDS EventReview, TLAPS

-----------------------------------------------------------------------------
(* Types of the helpers. *)

(* A flush merges columns of three event rows into an event row. *)
LEMMA FlushedType ==
    ASSUME NEW r \in Events, NEW old \in Events, NEW new \in Events
    PROVE  Flushed(r, old, new) \in Events
<1> DEFINE q == Flushed(r, old, new)
<1>1. DOMAIN r = {"epi", "act", "count"}
  BY DEF Events
<1>2. q = [epi |-> q.epi, act |-> q.act, count |-> q.count]
  BY <1>1 DEF Flushed
<1>3. q.epi \in Epistemic /\ q.act \in Activity /\ q.count \in Nat
  BY <1>1 DEF Flushed, Events
<1> QED
  BY <1>2, <1>3 DEF Events

(* What a session sees of the event is an event row. *)
LEMMA CurrentType ==
    ASSUME ReviewTypeOK, NEW s \in Session
    PROVE  Current(s) \in Events
BY DEF ReviewTypeOK, Current

(* A transaction begins with a well-typed memory of the event. *)
LEMMA NewTxType ==
    ASSUME ReviewTypeOK, NEW pc \in Statements
    PROVE  NewTx(pc) \in Txs
<1>1. event.epi \in Epistemic
  BY DEF ReviewTypeOK, Events
<1>2. <<>> \in Seq(Evidence)
  OBVIOUS
<1>3. "ready" \in Statements
  BY DEF Statements
<1> QED
  BY <1>1, <1>2, <1>3 DEF ReviewTypeOK, NewTx, Txs

(* What is left of a row's contribution is an integer. *)
LEMMA RemainingType ==
    ASSUME ReviewTypeOK, NEW i \in DOMAIN evidence
    PROVE  Remaining(i) \in Int
<1>1. evidence[i] \in Evidence
  BY DEF ReviewTypeOK
<1> QED
  BY <1>1 DEF Remaining, Evidence

(* The evidence a commit leaves is a sequence of evidence rows. *)
LEMMA SettledType ==
    ASSUME ReviewTypeOK, NEW s \in Session
    PROVE  Settled(s) \in Seq(Evidence)
<1> DEFINE new(i) == [evidence[i] EXCEPT !.comp = @ + tx[s].comp,
                                         !.active = @ /\ i # tx[s].dropped]
           q == [i \in DOMAIN evidence |-> IF i = tx[s].seen THEN new(i) ELSE evidence[i]]
<1>1. evidence \in Seq(Evidence) /\ tx[s] \in Txs
  BY DEF ReviewTypeOK
<1>2. ASSUME NEW i \in DOMAIN evidence PROVE new(i) \in Evidence
  <2> DEFINE c == evidence[i].comp + tx[s].comp
             a == (evidence[i].active /\ i # tx[s].dropped)
  <2>1. evidence[i] \in Evidence
    BY <1>1
  <2>2. c \in Int /\ a \in BOOLEAN
    BY <1>1, <2>1 DEF Evidence, Txs
  <2>3. new(i) = [evidence[i] EXCEPT !.comp = c, !.active = a]
    BY <2>1 DEF Evidence
  <2> HIDE DEF c, a
  <2> QED
    BY <2>1, <2>2, <2>3 DEF Evidence
<1>3. q \in Seq(Evidence)
  <2> HIDE DEF new
  <2>1. \A i \in 1..Len(evidence) : q[i] \in Evidence
    BY <1>1, <1>2
  <2>2. DOMAIN evidence = 1..Len(evidence) /\ Len(evidence) \in Nat
    BY <1>1
  <2> QED
    BY <2>1, <2>2
<1>4. tx[s].draft \in Seq(Evidence)
  BY <1>1 DEF Txs
<1>5. Settled(s) = q \o tx[s].draft
  BY DEF Settled
<1> HIDE DEF q
<1> QED
  BY <1>3, <1>4, <1>5

(* A session's lock is set, or its stronger lock kept. *)
LEMMA LockType ==
    ASSUME ReviewTypeOK, NEW s \in Session, NEW mode \in {"share", "write", "full"},
           Lock(s, mode)
    PROVE  lock' \in [Session -> {"none", "share", "write", "full"}]
BY DEF ReviewTypeOK, Lock

(* A move to another statement. *)
LEMMA GoType ==
    ASSUME ReviewTypeOK, NEW s \in Session, NEW pc \in Statements, Go(s, pc)
    PROVE  tx' \in [Session -> Txs]
<1>1. tx[s] \in Txs
  BY DEF ReviewTypeOK
<1>2. [tx[s] EXCEPT !.pc = pc] \in Txs
  BY <1>1 DEF Txs
<1> QED
  BY <1>2 DEF ReviewTypeOK, Go

-----------------------------------------------------------------------------
(* Type correctness.  The compensation of a row is an integer only if      *)
(* there is such a row: a session that works on a row has loaded it.       *)

HasLoaded(s) ==
    /\ tx[s].seen # 0 => tx[s].seen \in DOMAIN evidence
    /\ tx[s].pc \in {"claim", "reverse", "prior", "amend"} => tx[s].seen # 0
    /\ tx[s].then \notin {"claim", "reverse", "prior", "amend"}

Loaded == \A s \in Session : HasLoaded(s)

(* The initial state is well typed. *)
LEMMA ReviewTypeInit == Init => ReviewTypeOK
<1> SUFFICES ASSUME Init PROVE ReviewTypeOK
  OBVIOUS
<1>1. event \in Events
  BY DEF Init, Events, Epistemic, Activity
<1>2. Blank \in Events
  BY DEF Blank, Events, Epistemic, Activity
<1>3. ASSUME NEW d \in Deltas PROVE <<Row(d, FALSE)>> \in Seq(Evidence)
  BY <1>3, ReviewDeltas DEF Row, Evidence
<1>4. evidence \in Seq(Evidence)
  <2>1. CASE evidence = <<>>
    BY <2>1
  <2>2. CASE \E d \in Deltas : evidence = <<Row(d, FALSE)>>
    BY <1>3, <2>2
  <2> QED
    BY <2>1, <2>2 DEF Init
<1>5. NewTx("idle") \in Txs
  BY <1>1 DEF NewTx, Txs, Statements, Events, Init
<1> QED
  BY <1>1, <1>2, <1>4, <1>5 DEF Init, ReviewTypeOK, Suppressing

(* Every step keeps the types. *)
LEMMA ReviewTypeStep == ReviewTypeOK /\ Loaded /\ [Next]_vars => ReviewTypeOK'
<1> SUFFICES ASSUME ReviewTypeOK, Loaded, [Next]_vars PROVE ReviewTypeOK'
  OBVIOUS
<1> USE DEF Database
<1>1. ASSUME NEW s \in Session, Match(s) \/ Resume(s) \/ Replay(s) \/ Review(s)
      PROVE  ReviewTypeOK'
  <2>1. PICK pc \in Statements : tx' = [tx EXCEPT ![s] = NewTx(pc)]
    BY <1>1 DEF Match, Resume, Replay, Review, Statements
  <2> QED
    BY <1>1, <2>1, NewTxType DEF Match, Resume, Replay, Review, ReviewTypeOK
<1>2. ASSUME NEW s \in Session, PreCheck(s) \/ PostCheck(s) \/ GiveUp(s)
      PROVE  ReviewTypeOK'
  <2>1. PICK pc \in Statements : Go(s, pc)
    BY <1>2 DEF PreCheck, PostCheck, GiveUp, Statements
  <2> QED
    BY <1>2, <2>1, GoType DEF PreCheck, PostCheck, GiveUp, ReviewTypeOK
<1>3. ASSUME NEW s \in Session, Link(s) PROVE ReviewTypeOK'
  <2>1. PICK epi \in Derived(tx[s].mem), act \in Activity :
          LET mem == tx[s].mem
              new == [epi |-> epi, act |-> act, count |-> mem.count + 1] IN
            /\ image' = [image EXCEPT ![s] = Flushed(event, mem, new)]
            /\ tx' = [tx EXCEPT ![s].pc = "linked", ![s].mem = new, ![s].linked = 1]
    BY <1>3 DEF Link
  <2> DEFINE new == [epi |-> epi, act |-> act, count |-> tx[s].mem.count + 1]
  <2>2. tx[s] \in Txs
    BY DEF ReviewTypeOK
  <2>3. new \in Events
    BY <2>2 DEF Txs, Events, Derived, Epistemic
  <2>4. tx' = [tx EXCEPT ![s] = [tx[s] EXCEPT !.pc = "linked", !.mem = new, !.linked = 1]]
    BY <2>1, <2>2 DEF ReviewTypeOK
  <2>5. Flushed(event, tx[s].mem, new) \in Events
    BY <2>2, <2>3, FlushedType DEF ReviewTypeOK, Txs
  <2>6. image' = [image EXCEPT ![s] = Flushed(event, tx[s].mem, new)]
    BY <2>1
  <2> HIDE DEF new
  <2>7. [tx[s] EXCEPT !.pc = "linked", !.mem = new, !.linked = 1] \in Txs
    BY <2>2, <2>3 DEF Txs, Statements
  <2> QED
    BY <1>3, <2>4, <2>5, <2>6, <2>7, LockType DEF Link, ReviewTypeOK
<1>4. ASSUME NEW s \in Session, Classify(s) PROVE ReviewTypeOK'
  <2>1. PICK epi \in Derived(tx[s].mem) :
          LET mem == tx[s].mem
              new == [mem EXCEPT !.epi = epi] IN
            /\ image' = [image EXCEPT ![s] = Flushed(Current(s), mem, new)]
            /\ tx' = [tx EXCEPT ![s].pc = "classified", ![s].mem = new,
                                 ![s].snap = mem.epi]
    BY <1>4 DEF Classify
  <2> DEFINE old == tx[s].mem
             new == [old EXCEPT !.epi = epi]
             snap == old.epi
             u == [tx[s] EXCEPT !.pc = "classified", !.mem = new, !.snap = snap]
  <2>2. tx[s] \in Txs
    BY DEF ReviewTypeOK
  <2>3. new \in Events /\ old \in Events /\ snap \in Epistemic
    BY <2>2 DEF Txs, Events, Derived, Epistemic
  <2>4. tx' = [tx EXCEPT ![s] = u]
    BY <2>1, <2>2 DEF ReviewTypeOK
  <2>5. Flushed(Current(s), old, new) \in Events
    BY <2>3, FlushedType, CurrentType
  <2>6. image' = [image EXCEPT ![s] = Flushed(Current(s), old, new)]
    BY <2>1
  <2> HIDE DEF new, old, snap
  <2>7. u \in Txs
    BY <2>2, <2>3 DEF Txs, Statements
  <2> HIDE DEF u
  <2> QED
    BY <1>4, <2>4, <2>5, <2>6, <2>7, LockType DEF Classify, ReviewTypeOK
<1>5. ASSUME NEW s \in Session, Hold(s) PROVE ReviewTypeOK'
  <2> DEFINE old == tx[s].mem
             new == [old EXCEPT !.epi = tx[s].snap]
  <2>1. PICK q \in {"keep", "pending"} :
          tx' = [tx EXCEPT ![s].pc = "ready", ![s].queued = q]
    BY <1>5 DEF Hold
  <2>2. tx[s] \in Txs
    BY DEF ReviewTypeOK
  <2>3. new \in Events /\ old \in Events
    BY <2>2 DEF Txs, Events
  <2>4. Flushed(image[s], old, new) \in Events
    BY <2>3, FlushedType DEF ReviewTypeOK
  <2>5. image' = [image EXCEPT ![s] = Flushed(@, old, new)]
    BY <1>5 DEF Hold
  <2> HIDE DEF new, old
  <2>6. [tx[s] EXCEPT !.pc = "ready", !.queued = q] \in Txs
    BY <2>2 DEF Txs, Statements
  <2> QED
    BY <1>5, <2>1, <2>4, <2>5, <2>6 DEF Hold, ReviewTypeOK
<1>6. ASSUME NEW s \in Session, Keep(s) PROVE ReviewTypeOK'
  <2> DEFINE q == IF s \in Replays THEN "done" ELSE tx[s].queued
             u == [tx[s] EXCEPT !.pc = "ready", !.queued = q]
  <2>1. tx[s] \in Txs
    BY DEF ReviewTypeOK
  <2>2. q \in {"keep", "pending", "done"}
    BY <2>1 DEF Txs
  <2>3. tx' = [tx EXCEPT ![s] = u]
    BY <1>6 DEF Keep
  <2> HIDE DEF q
  <2>4. u \in Txs
    BY <2>1, <2>2 DEF Txs, Statements
  <2> QED
    BY <1>6, <2>3, <2>4 DEF Keep, ReviewTypeOK
<1>7. ASSUME NEW s \in Session, Score(s) PROVE ReviewTypeOK'
  <2> DEFINE q == IF s \in Replays THEN "done" ELSE tx[s].queued
  <2>1. tx[s] \in Txs
    BY DEF ReviewTypeOK
  <2>2. q \in {"keep", "pending", "done"}
    BY <2>1 DEF Txs
  <2>3. PICK d \in Deltas :
          tx' = [tx EXCEPT ![s] = [tx[s] EXCEPT !.pc = "insert", !.want = d, !.queued = q]]
    BY <1>7 DEF Score
  <2> HIDE DEF q
  <2>4. [tx[s] EXCEPT !.pc = "insert", !.want = d, !.queued = q] \in Txs
    BY <2>1, <2>2, ReviewDeltas DEF Txs, Statements
  <2> QED
    BY <1>7, <2>3, <2>4 DEF Score, ReviewTypeOK
<1>8. ASSUME NEW s \in Session, Supersede(s) PROVE ReviewTypeOK'
  <2> DEFINE q == IF s \in Replays THEN "done" ELSE tx[s].queued
  <2>1. tx[s] \in Txs
    BY DEF ReviewTypeOK
  <2>2. q \in {"keep", "pending", "done"}
    BY <2>1 DEF Txs
  <2>3. PICK i \in ActiveRows, d \in Deltas, then \in {"insert", "ready"} :
          tx' = [tx EXCEPT ![s].pc = "claim", ![s].seen = i, ![s].want = d,
                           ![s].then = then,
                           ![s].queued = IF s \in Replays THEN "done" ELSE @]
    BY <1>8 DEF Supersede
  <2>6. tx' = [tx EXCEPT ![s] = [tx[s] EXCEPT !.pc = "claim", !.seen = i, !.want = d,
                                              !.then = then, !.queued = q]]
    BY <2>3
  <2>4. i \in Nat
    BY DEF ReviewTypeOK, ActiveRows
  <2> HIDE DEF q
  <2>5. [tx[s] EXCEPT !.pc = "claim", !.seen = i, !.want = d, !.then = then,
                      !.queued = q] \in Txs
    BY <2>1, <2>2, <2>4, ReviewDeltas DEF Txs, Statements
  <2> QED
    BY <1>8, <2>5, <2>6 DEF Supersede, ReviewTypeOK
<1>9. ASSUME NEW s \in Session, Claim(s) PROVE ReviewTypeOK'
  <2> DEFINE u == [tx[s] EXCEPT !.pc = "reverse", !.dropped = tx[s].seen]
             v == [tx[s] EXCEPT !.pc = tx[s].then]
  <2>1. tx[s] \in Txs
    BY DEF ReviewTypeOK
  <2>2. u \in Txs /\ v \in Txs
    BY <2>1 DEF Txs, Statements
  <2>3. tx' = [tx EXCEPT ![s] = u] \/ tx' = [tx EXCEPT ![s] = v]
    BY <1>9 DEF Claim
  <2> HIDE DEF u, v
  <2> QED
    BY <1>9, <2>2, <2>3 DEF Claim, ReviewTypeOK
<1>10. ASSUME NEW s \in Session, Reverse(s) PROVE ReviewTypeOK'
  <2> DEFINE c == -Remaining(tx[s].seen)
             pc == IF c = 0 THEN tx[s].then ELSE "credit"
             u == [tx[s] EXCEPT !.pc = pc, !.comp = c]
  <2>1. tx[s] \in Txs /\ tx[s].seen \in DOMAIN evidence
    BY <1>10 DEF ReviewTypeOK, Loaded, HasLoaded, Reverse, At
  <2>2. c \in Int /\ pc \in Statements
    BY <2>1, RemainingType DEF Txs, Statements
  <2>3. tx' = [tx EXCEPT ![s] = u]
    BY <1>10 DEF Reverse
  <2> HIDE DEF c, pc
  <2>4. u \in Txs
    BY <2>1, <2>2 DEF Txs
  <2> HIDE DEF u
  <2> QED
    BY <1>10, <2>3, <2>4 DEF Reverse, ReviewTypeOK
<1>11. ASSUME NEW s \in Session, Insert(s) PROVE ReviewTypeOK'
  <2> DEFINE r == <<Row(tx[s].want, tx[s].late)>>
             u == [tx[s] EXCEPT !.pc = "ready"]
             v == [tx[s] EXCEPT !.pc = "credit", !.then = "ready", !.draft = r]
  <2>1. tx[s] \in Txs
    BY DEF ReviewTypeOK
  <2>2. Row(tx[s].want, tx[s].late) \in Evidence
    BY <2>1 DEF Txs, Row, Evidence
  <2>3. r \in Seq(Evidence)
    BY <2>2
  <2>4. tx' = [tx EXCEPT ![s] = u] \/ tx' = [tx EXCEPT ![s] = v]
    BY <1>11 DEF Insert
  <2> HIDE DEF r
  <2>5. u \in Txs
    BY <2>1 DEF Txs, Statements
  <2>6. v \in Txs
    BY <2>1, <2>3 DEF Txs, Statements
  <2> HIDE DEF u, v
  <2> QED
    BY <1>11, <2>4, <2>5, <2>6 DEF Insert, ReviewTypeOK
<1>12. ASSUME NEW s \in Session, Credit(s) PROVE ReviewTypeOK'
  <2> DEFINE u == [tx[s] EXCEPT !.pc = tx[s].then, !.trend = TRUE]
  <2>1. tx[s] \in Txs
    BY DEF ReviewTypeOK
  <2>2. tx' = [tx EXCEPT ![s] = u]
    BY <1>12 DEF Credit
  <2>3. u \in Txs
    BY <2>1 DEF Txs
  <2> HIDE DEF u
  <2> QED
    BY <1>12, <2>2, <2>3 DEF Credit, ReviewTypeOK
<1>13. ASSUME NEW s \in Session, LoadEvidence(s) PROVE ReviewTypeOK'
  <2>1. tx[s] \in Txs
    BY DEF ReviewTypeOK
  <2>2. CASE ActiveRows = {} /\ Go(s, IF s \in Restaters THEN "ready" ELSE "record")
    <3>1. PICK pc \in Statements : Go(s, pc)
      BY <2>2 DEF Statements
    <3> QED
      BY <1>13, <3>1, GoType DEF LoadEvidence, ReviewTypeOK
  <2>3. CASE \E i \in ActiveRows, c \in IF s \in Restaters THEN Deltas ELSE {0} :
               tx' = [tx EXCEPT ![s].pc = "record", ![s].seen = i, ![s].comp = c]
    <3>1. PICK i \in ActiveRows, c \in IF s \in Restaters THEN Deltas ELSE {0} :
            tx' = [tx EXCEPT ![s].pc = "record", ![s].seen = i, ![s].comp = c]
      BY <2>3
    <3>2. i \in Nat /\ c \in Int
      BY ReviewDeltas DEF ReviewTypeOK, ActiveRows
    <3>3. tx' = [tx EXCEPT ![s] = [tx[s] EXCEPT !.pc = "record", !.seen = i, !.comp = c]]
      BY <3>1
    <3>4. [tx[s] EXCEPT !.pc = "record", !.seen = i, !.comp = c] \in Txs
      BY <2>1, <3>2 DEF Txs, Statements
    <3> QED
      BY <1>13, <3>3, <3>4 DEF LoadEvidence, ReviewTypeOK
  <2> QED
    BY <1>13, <2>2, <2>3 DEF LoadEvidence
<1>14. ASSUME NEW s \in Session, Record(s) PROVE ReviewTypeOK'
  <2> DEFINE pc == Following(s)
             n == IF s \in Noisers THEN {"mark_noise"}
                  ELSE IF s \in Invalidators THEN {"invalidate"} ELSE {}
             u == [tx[s] EXCEPT !.pc = pc, !.then = "touch", !.note = n]
  <2>1. tx[s] \in Txs
    BY DEF ReviewTypeOK
  <2>2. pc \in Statements /\ n \in SUBSET Suppressing
    BY DEF Following, Statements, Suppressing
  <2>3. tx' = [tx EXCEPT ![s] = u]
    BY <1>14 DEF Record
  <2>4. Retracted(s) \in Events /\ tx[s].mem \in Events
    <3>1. tx[s].mem \in Events
      BY <2>1 DEF Txs
    <3>2. [tx[s].mem EXCEPT !.epi = "retracted", !.act = "closed"] \in Events
      BY <3>1 DEF Events, Epistemic, Activity
    <3>3. [tx[s].mem EXCEPT !.epi = "retracted"] \in Events
      BY <3>1 DEF Events, Epistemic
    <3> QED
      BY <3>1, <3>2, <3>3 DEF Retracted
  <2>5. Flushed(event, tx[s].mem, Retracted(s)) \in Events
    BY <2>4, FlushedType DEF ReviewTypeOK
  <2>9. "touch" \in Statements
    BY DEF Statements
  <2> HIDE DEF pc, n
  <2>6. u \in Txs
    BY <2>1, <2>2, <2>9 DEF Txs
  <2> HIDE DEF u
  <2>7. image' \in [Session -> Events]
    BY <1>14, <2>5 DEF Record, ReviewTypeOK
  <2>8. lock' \in [Session -> {"none", "share", "write", "full"}]
    BY <1>14, LockType DEF Record, ReviewTypeOK
  <2>10. tx' \in [Session -> Txs]
    BY <2>3, <2>6 DEF ReviewTypeOK
  <2>11. UNCHANGED <<event, links, evidence, noted, queue>>
    BY <1>14 DEF Record, Database
  <2> QED
    BY <2>7, <2>8, <2>10, <2>11 DEF ReviewTypeOK
<1>15. ASSUME NEW s \in Session, Prior(s) PROVE ReviewTypeOK'
  <2> DEFINE c == -Remaining(tx[s].seen)
             u == [tx[s] EXCEPT !.pc = "amend", !.comp = c]
  <2>1. tx[s] \in Txs /\ tx[s].seen \in DOMAIN evidence
    BY <1>15 DEF ReviewTypeOK, Loaded, HasLoaded, Prior, At
  <2>2. c \in Int
    BY <2>1, RemainingType
  <2>3. tx' = [tx EXCEPT ![s] = u]
    BY <1>15 DEF Prior
  <2> HIDE DEF c
  <2>4. u \in Txs
    BY <2>1, <2>2 DEF Txs, Statements
  <2> HIDE DEF u
  <2> QED
    BY <1>15, <2>3, <2>4 DEF Prior, ReviewTypeOK
<1>16. ASSUME NEW s \in Session, Amend(s) PROVE ReviewTypeOK'
  <2> DEFINE u == [tx[s] EXCEPT !.pc = "post", !.dropped = tx[s].seen]
  <2>1. tx[s] \in Txs
    BY DEF ReviewTypeOK
  <2>2. tx' = [tx EXCEPT ![s] = u]
    BY <1>16 DEF Amend
  <2>3. u \in Txs
    BY <2>1 DEF Txs, Statements
  <2> HIDE DEF u
  <2> QED
    BY <1>16, <2>2, <2>3 DEF Amend, ReviewTypeOK
<1>17. ASSUME NEW s \in Session, Post(s) PROVE ReviewTypeOK'
  <2>1. PICK pc \in Statements : Go(s, pc)
    BY <1>17 DEF Post, Statements
  <2> QED
    BY <1>17, <2>1, GoType, LockType DEF Post, ReviewTypeOK
<1>18. ASSUME NEW s \in Session, Touch(s) PROVE ReviewTypeOK'
  <2>1. tx' \in [Session -> Txs]
    BY <1>18, GoType DEF Touch, Statements
  <2> QED
    BY <1>18, <2>1, LockType, CurrentType DEF Touch, ReviewTypeOK
<1>19. ASSUME NEW s \in Session, Close(s)
       PROVE  /\ lock' \in [Session -> {"none", "share", "write", "full"}]
              /\ image' \in [Session -> Events]
              /\ tx' \in [Session -> Txs]
  <2> DEFINE u == [NewTx("over") EXCEPT !.mem = Blank, !.snap = Blank.epi, !.late = FALSE]
  <2>1. Blank \in Events /\ Blank.epi \in Epistemic
    BY DEF Blank, Events, Epistemic, Activity
  <2>2. NewTx("over") \in Txs
    BY NewTxType DEF Statements
  <2>3. tx' = [tx EXCEPT ![s] = u]
    BY <1>19 DEF Close
  <2>4. u \in Txs
    BY <2>1, <2>2 DEF Txs
  <2> HIDE DEF u
  <2> QED
    BY <1>19, <2>1, <2>3, <2>4 DEF Close, ReviewTypeOK
<1>20. ASSUME NEW s \in Session, Commit(s) PROVE ReviewTypeOK'
  <2>1. tx[s] \in Txs
    BY DEF ReviewTypeOK
  <2>2. links' \in Nat /\ noted' \subseteq Suppressing /\ queue' \in {"none", "pending", "done"}
    BY <1>20, <2>1 DEF Commit, Txs, ReviewTypeOK
  <2>3. event' \in Events /\ evidence' \in Seq(Evidence)
    BY <1>20, CurrentType, SettledType DEF Commit
  <2> QED
    BY <1>19, <1>20, <2>2, <2>3 DEF Commit, ReviewTypeOK
<1>21. ASSUME NEW s \in Session, Rollback(s) PROVE ReviewTypeOK'
  BY <1>19, <1>21 DEF Rollback, ReviewTypeOK
<1>22. CASE Fade
  <2>1. event' \in Events
    BY <1>22 DEF Fade, ReviewTypeOK, Events, Activity
  <2> QED
    BY <1>22, <2>1 DEF Fade, ReviewTypeOK
<1>23. CASE Done \/ UNCHANGED vars
  BY <1>23 DEF Done, vars, ReviewTypeOK
<1> QED
  BY <1>1, <1>2, <1>3, <1>4, <1>5, <1>6, <1>7, <1>8, <1>9, <1>10, <1>11, <1>12, <1>13,
     <1>14, <1>15, <1>16, <1>17, <1>18, <1>20, <1>21, <1>22, <1>23
     DEF Next, Pipeline, Feedback

(* What a commit leaves: the rows there were, its own row rewritten, and   *)
(* then the row it inserted.                                               *)
LEMMA SettledRows ==
    ASSUME ReviewTypeOK, NEW s \in Session
    PROVE  /\ DOMAIN evidence \subseteq DOMAIN Settled(s)
           /\ \A i \in DOMAIN evidence :
                Settled(s)[i] = IF i = tx[s].seen
                                THEN [evidence[i] EXCEPT !.comp = @ + tx[s].comp,
                                                         !.active = @ /\ i # tx[s].dropped]
                                ELSE evidence[i]
           /\ \A i \in DOMAIN Settled(s) \ DOMAIN evidence :
                \E k \in DOMAIN tx[s].draft : Settled(s)[i] = tx[s].draft[k]
<1> DEFINE new(i) == IF i = tx[s].seen
                     THEN [evidence[i] EXCEPT !.comp = @ + tx[s].comp,
                                              !.active = @ /\ i # tx[s].dropped]
                     ELSE evidence[i]
           q == [i \in DOMAIN evidence |-> new(i)]
           d == tx[s].draft
<1>1. evidence \in Seq(Evidence) /\ d \in Seq(Evidence)
  BY DEF ReviewTypeOK, Txs
<1>2. Settled(s) = q \o d
  BY DEF Settled
<1>3. \A i \in DOMAIN evidence : q[i] = new(i)
  OBVIOUS
<1>4. DOMAIN q = 1..Len(evidence) /\ Len(evidence) \in Nat
  BY <1>1
<1> HIDE DEF q, d, new
<1>5. q \in Seq({q[i] : i \in 1..Len(evidence)})
  <2>1. q = [i \in 1..Len(evidence) |-> q[i]]
    BY <1>1 DEF q
  <2> QED
    BY <1>4, <2>1
<1>6. Len(q) = Len(evidence)
  BY <1>4, <1>5
<1>7. /\ Len(q \o d) = Len(q) + Len(d)
      /\ \A i \in 1..Len(q) : (q \o d)[i] = q[i]
      /\ \A i \in 1..(Len(q) + Len(d)) : i > Len(q) => (q \o d)[i] = d[i - Len(q)]
      /\ DOMAIN (q \o d) = 1..(Len(q) + Len(d))
  BY <1>1, <1>5
<1>8. DOMAIN evidence = 1..Len(evidence) /\ DOMAIN d = 1..Len(d) /\ Len(d) \in Nat
  BY <1>1
<1>9. ASSUME NEW i \in DOMAIN (q \o d) \ DOMAIN evidence
      PROVE  \E k \in DOMAIN d : (q \o d)[i] = d[k]
  <2>1. i \in 1..(Len(q) + Len(d)) /\ i > Len(q)
    BY <1>4, <1>6, <1>7, <1>8, <1>9
  <2>2. i - Len(q) \in DOMAIN d /\ (q \o d)[i] = d[i - Len(q)]
    BY <1>4, <1>6, <1>7, <1>8, <2>1
  <2> QED
    BY <2>2
<1>10. DOMAIN evidence \subseteq DOMAIN (q \o d)
  BY <1>4, <1>6, <1>7, <1>8
<1>11. \A i \in DOMAIN evidence : (q \o d)[i] = new(i)
  BY <1>3, <1>4, <1>6, <1>7, <1>8
<1> QED
  BY <1>2, <1>9, <1>10, <1>11 DEF new, d

(* A step of one session leaves the transactions of the others alone. *)
LEMMA OwnTx ==
    ASSUME ReviewTypeOK, NEW s \in Session,
           Pipeline(s) \/ Feedback(s) \/ Commit(s) \/ Rollback(s)
    PROVE  \A t \in Session : t # s => tx'[t] = tx[t]
<1> SUFFICES ASSUME NEW t \in Session, t # s PROVE tx'[t] = tx[t]
  OBVIOUS
<1>1. CASE Match(s) \/ Resume(s) \/ Replay(s) \/ Review(s)
  BY <1>1 DEF Match, Resume, Replay, Review, ReviewTypeOK
<1>2. CASE PreCheck(s) \/ PostCheck(s) \/ GiveUp(s) \/ Credit(s) \/ Touch(s) \/ Post(s)
  BY <1>2 DEF PreCheck, PostCheck, GiveUp, Credit, Touch, Post, Go, ReviewTypeOK
<1>3. CASE Link(s) \/ Classify(s) \/ Hold(s)
  BY <1>3 DEF Link, Classify, Hold, ReviewTypeOK
<1>4. CASE Keep(s) \/ Score(s) \/ Supersede(s)
  BY <1>4 DEF Keep, Score, Supersede, ReviewTypeOK
<1>5. CASE Claim(s) \/ Reverse(s) \/ Insert(s)
  BY <1>5 DEF Claim, Reverse, Insert, ReviewTypeOK
<1>6. CASE LoadEvidence(s) \/ Record(s) \/ Prior(s) \/ Amend(s)
  BY <1>6 DEF LoadEvidence, Record, Prior, Amend, Go, ReviewTypeOK
<1>7. CASE Commit(s) \/ Rollback(s)
  BY <1>7 DEF Commit, Rollback, Close, ReviewTypeOK
<1> QED
  BY <1>1, <1>2, <1>3, <1>4, <1>5, <1>6, <1>7 DEF Pipeline, Feedback

(* The locks and images of the other sessions stay. *)
LEMMA OwnLock ==
    ASSUME ReviewTypeOK, NEW s \in Session, Pipeline(s) \/ Feedback(s) \/ Commit(s) \/ Rollback(s)
    PROVE  \A t \in Session : t # s => lock'[t] = lock[t] /\ image'[t] = image[t]
<1> SUFFICES ASSUME NEW t \in Session, t # s
             PROVE  lock'[t] = lock[t] /\ image'[t] = image[t]
  OBVIOUS
<1>1. CASE Link(s) \/ Classify(s)
  BY <1>1 DEF Link, Classify, Lock, ReviewTypeOK
<1>2. CASE Record(s)
  BY <1>2 DEF Record, Lock, ReviewTypeOK
<1>3. CASE Hold(s) \/ Post(s) \/ Touch(s)
  BY <1>3 DEF Hold, Post, Touch, Lock, ReviewTypeOK
<1>4. CASE Commit(s) \/ Rollback(s)
  BY <1>4 DEF Commit, Rollback, Close, ReviewTypeOK
<1>5. CASE \/ Match(s) \/ Resume(s) \/ Replay(s) \/ PreCheck(s) \/ PostCheck(s) \/ GiveUp(s)
           \/ Keep(s) \/ Score(s) \/ Supersede(s) \/ Claim(s) \/ Reverse(s) \/ Insert(s)
           \/ Credit(s) \/ Review(s) \/ LoadEvidence(s) \/ Prior(s) \/ Amend(s)
  BY <1>5 DEF Match, Resume, Replay, PreCheck, PostCheck, GiveUp, Keep, Score, Supersede,
              Claim, Reverse, Insert, Credit, Review, LoadEvidence, Prior, Amend
<1> QED
  BY <1>1, <1>2, <1>3, <1>4, <1>5 DEF Pipeline, Feedback

(* The part of a transaction that tells which evidence it works on. *)
Work(s) == <<tx[s].then, tx[s].seen, tx[s].dropped, tx[s].comp, tx[s].draft, tx[s].late>>

(* A session begins with nothing loaded or written, and late if the event  *)
(* has been suppressed by then.                                            *)
LEMMA Begins ==
    ASSUME ReviewTypeOK, NEW s \in Session, Match(s) \/ Resume(s) \/ Replay(s) \/ Review(s)
    PROVE  /\ tx'[s].pc \in {"matched", "linked", "checked", "record", "review"}
           /\ Match(s) => tx'[s].pc = "matched"
           /\ Resume(s) => tx'[s].pc = "linked"
           /\ Replay(s) => tx'[s].pc = "checked" /\ s \in Replays
           /\ Review(s) => tx'[s].pc = IF s \in Noisers THEN "record" ELSE "review"
           /\ Work(s)' = <<"ready", 0, 0, 0, <<>>, noted # {}>>
BY DEF Match, Resume, Replay, Review, NewTx, ReviewTypeOK, Work

(* Checks, stamps and updates of other rows change no part of the work on  *)
(* evidence.                                                               *)
LEMMA Moves ==
    ASSUME ReviewTypeOK, NEW s \in Session
    PROVE  /\ PreCheck(s) => /\ tx'[s].pc = IF noted = {} THEN "unlinked" ELSE "ready"
                             /\ Work(s)' = Work(s)
           /\ PostCheck(s) => /\ tx'[s].pc = IF noted = {} THEN "checked" ELSE "ready"
                              /\ Work(s)' = Work(s)
           /\ GiveUp(s) \/ Touch(s) => tx'[s].pc = "ready" /\ Work(s)' = Work(s)
           /\ Post(s) => tx'[s].pc \in {"touch", "credit"} /\ Work(s)' = Work(s)
           /\ Credit(s) => tx'[s].pc = tx[s].then /\ Work(s)' = Work(s)
<1>1. tx[s] \in Txs
  BY DEF ReviewTypeOK
<1> USE <1>1 DEF Txs, Go, Work
<1>2. PreCheck(s) => /\ tx'[s].pc = IF noted = {} THEN "unlinked" ELSE "ready"
                     /\ Work(s)' = Work(s)
  BY DEF PreCheck, ReviewTypeOK
<1>3. PostCheck(s) => /\ tx'[s].pc = IF noted = {} THEN "checked" ELSE "ready"
                      /\ Work(s)' = Work(s)
  BY DEF PostCheck, ReviewTypeOK
<1>4. GiveUp(s) \/ Touch(s) => tx'[s].pc = "ready" /\ Work(s)' = Work(s)
  BY DEF GiveUp, Touch, ReviewTypeOK
<1>5. Post(s) => tx'[s].pc \in {"touch", "credit"} /\ Work(s)' = Work(s)
  BY DEF Post, ReviewTypeOK
<1>6. Credit(s) => tx'[s].pc = tx[s].then /\ Work(s)' = Work(s)
  BY DEF Credit, ReviewTypeOK
<1> QED
  BY <1>2, <1>3, <1>4, <1>5, <1>6

(* Steps that write the event, or settle that nothing is to be reversed,   *)
(* change no part of the work on evidence either.                          *)
LEMMA Remembers ==
    ASSUME ReviewTypeOK, NEW s \in Session
    PROVE  /\ Link(s) => tx'[s].pc = "linked" /\ Work(s)' = Work(s)
           /\ Classify(s) => tx'[s].pc = "classified" /\ Work(s)' = Work(s)
           /\ Hold(s) \/ Keep(s) => tx'[s].pc = "ready" /\ Work(s)' = Work(s)
           /\ Score(s) => tx'[s].pc = "insert" /\ Work(s)' = Work(s)
<1>1. tx[s] \in Txs
  BY DEF ReviewTypeOK
<1> USE <1>1 DEF Txs, Work
<1>2. Link(s) => tx'[s].pc = "linked" /\ Work(s)' = Work(s)
  BY DEF Link, ReviewTypeOK
<1>3. Classify(s) => tx'[s].pc = "classified" /\ Work(s)' = Work(s)
  BY DEF Classify, ReviewTypeOK
<1>4. Hold(s) => tx'[s].pc = "ready" /\ Work(s)' = Work(s)
  BY DEF Hold, ReviewTypeOK
<1>5. Keep(s) => tx'[s].pc = "ready" /\ Work(s)' = Work(s)
  BY DEF Keep, ReviewTypeOK
<1>6. Score(s) => tx'[s].pc = "insert" /\ Work(s)' = Work(s)
  BY DEF Score, ReviewTypeOK
<1> QED
  BY <1>2, <1>3, <1>4, <1>5, <1>6

(* The steps of a reconciliation. *)
LEMMA Reconciles ==
    ASSUME ReviewTypeOK, NEW s \in Session
    PROVE  /\ Supersede(s) =>
                /\ tx'[s].pc = "claim"
                /\ \E i \in ActiveRows, then \in {"insert", "ready"} :
                     Work(s)' = <<then, i, tx[s].dropped, tx[s].comp, tx[s].draft, tx[s].late>>
           /\ Claim(s) =>
                \/ /\ tx'[s].pc = "reverse" /\ tx[s].seen \in ActiveRows
                   /\ Work(s)' = <<tx[s].then, tx[s].seen, tx[s].seen, tx[s].comp,
                                    tx[s].draft, tx[s].late>>
                \/ tx'[s].pc = tx[s].then /\ Work(s)' = Work(s)
           /\ Reverse(s) =>
                /\ tx'[s].pc \in {tx[s].then, "credit"}
                /\ Work(s)' = <<tx[s].then, tx[s].seen, tx[s].dropped,
                                 -Remaining(tx[s].seen), tx[s].draft, tx[s].late>>
           /\ Insert(s) =>
                \/ tx'[s].pc = "ready" /\ Work(s)' = Work(s)
                \/ /\ tx'[s].pc = "credit"
                   /\ Work(s)' = <<"ready", tx[s].seen, tx[s].dropped, tx[s].comp,
                                    <<Row(tx[s].want, tx[s].late)>>, tx[s].late>>
<1>1. tx[s] \in Txs
  BY DEF ReviewTypeOK
<1> USE <1>1 DEF Txs, Work
<1>2. ASSUME Supersede(s)
      PROVE  /\ tx'[s].pc = "claim"
             /\ \E i \in ActiveRows, then \in {"insert", "ready"} :
                  Work(s)' = <<then, i, tx[s].dropped, tx[s].comp, tx[s].draft, tx[s].late>>
  <2>1. PICK i \in ActiveRows, d \in Deltas, then \in {"insert", "ready"} :
          tx' = [tx EXCEPT ![s].pc = "claim", ![s].seen = i, ![s].want = d,
                           ![s].then = then,
                           ![s].queued = IF s \in Replays THEN "done" ELSE @]
    BY <1>2 DEF Supersede
  <2> QED
    BY <2>1 DEF ReviewTypeOK
<1>3. Claim(s) =>
        \/ /\ tx'[s].pc = "reverse" /\ tx[s].seen \in ActiveRows
           /\ Work(s)' = <<tx[s].then, tx[s].seen, tx[s].seen, tx[s].comp,
                            tx[s].draft, tx[s].late>>
        \/ tx'[s].pc = tx[s].then /\ Work(s)' = Work(s)
  BY DEF Claim, ReviewTypeOK
<1>4. Reverse(s) =>
        /\ tx'[s].pc \in {tx[s].then, "credit"}
        /\ Work(s)' = <<tx[s].then, tx[s].seen, tx[s].dropped,
                         -Remaining(tx[s].seen), tx[s].draft, tx[s].late>>
  BY DEF Reverse, ReviewTypeOK
<1>5. Insert(s) =>
        \/ tx'[s].pc = "ready" /\ Work(s)' = Work(s)
        \/ /\ tx'[s].pc = "credit"
           /\ Work(s)' = <<"ready", tx[s].seen, tx[s].dropped, tx[s].comp,
                            <<Row(tx[s].want, tx[s].late)>>, tx[s].late>>
  BY DEF Insert, ReviewTypeOK
<1> QED
  BY <1>2, <1>3, <1>4, <1>5

(* The steps of an operator's feedback. *)
LEMMA Feeds ==
    ASSUME ReviewTypeOK, NEW s \in Session
    PROVE  /\ LoadEvidence(s) =>
                /\ tx'[s].pc \in IF s \in Restaters THEN {"ready", "record"} ELSE {"record"}
                /\ \/ Work(s)' = Work(s)
                   \/ \E i \in ActiveRows, c \in IF s \in Restaters THEN Deltas ELSE {0} :
                        Work(s)' = <<tx[s].then, i, tx[s].dropped, c, tx[s].draft, tx[s].late>>
           /\ Record(s) =>
                /\ tx'[s].pc = Following(s)
                /\ Work(s)' = <<"touch", tx[s].seen, tx[s].dropped, tx[s].comp,
                                 tx[s].draft, tx[s].late>>
           /\ Prior(s) =>
                /\ tx'[s].pc = "amend"
                /\ Work(s)' = <<tx[s].then, tx[s].seen, tx[s].dropped,
                                 -Remaining(tx[s].seen), tx[s].draft, tx[s].late>>
           /\ Amend(s) =>
                /\ tx'[s].pc = "post"
                /\ Work(s)' = <<tx[s].then, tx[s].seen, tx[s].seen, tx[s].comp,
                                 tx[s].draft, tx[s].late>>
<1>1. tx[s] \in Txs
  BY DEF ReviewTypeOK
<1> USE <1>1 DEF Txs, Work
<1>2. ASSUME LoadEvidence(s)
      PROVE  /\ tx'[s].pc \in IF s \in Restaters THEN {"ready", "record"} ELSE {"record"}
             /\ \/ Work(s)' = Work(s)
                \/ \E i \in ActiveRows, c \in IF s \in Restaters THEN Deltas ELSE {0} :
                     Work(s)' = <<tx[s].then, i, tx[s].dropped, c, tx[s].draft, tx[s].late>>
  <2>1. CASE Go(s, IF s \in Restaters THEN "ready" ELSE "record")
    BY <2>1 DEF Go, ReviewTypeOK
  <2>2. CASE \E i \in ActiveRows, c \in IF s \in Restaters THEN Deltas ELSE {0} :
               tx' = [tx EXCEPT ![s].pc = "record", ![s].seen = i, ![s].comp = c]
    <3>1. PICK i \in ActiveRows, c \in IF s \in Restaters THEN Deltas ELSE {0} :
            tx' = [tx EXCEPT ![s].pc = "record", ![s].seen = i, ![s].comp = c]
      BY <2>2
    <3> QED
      BY <3>1 DEF ReviewTypeOK
  <2> QED
    BY <1>2, <2>1, <2>2 DEF LoadEvidence
<1>3. Record(s) =>
        /\ tx'[s].pc = Following(s)
        /\ Work(s)' = <<"touch", tx[s].seen, tx[s].dropped, tx[s].comp,
                         tx[s].draft, tx[s].late>>
  BY DEF Record, ReviewTypeOK
<1>4. Prior(s) =>
        /\ tx'[s].pc = "amend"
        /\ Work(s)' = <<tx[s].then, tx[s].seen, tx[s].dropped,
                         -Remaining(tx[s].seen), tx[s].draft, tx[s].late>>
  BY DEF Prior, ReviewTypeOK
<1>5. Amend(s) =>
        /\ tx'[s].pc = "post"
        /\ Work(s)' = <<tx[s].then, tx[s].seen, tx[s].seen, tx[s].comp,
                         tx[s].draft, tx[s].late>>
  BY DEF Amend, ReviewTypeOK
<1> QED
  BY <1>2, <1>3, <1>4, <1>5

(* A transaction that has ended works on no evidence. *)
LEMMA Ends ==
    ASSUME ReviewTypeOK, NEW s \in Session, Commit(s) \/ Rollback(s)
    PROVE  tx'[s].pc = "over" /\ Work(s)' = <<"ready", 0, 0, 0, <<>>, FALSE>>
<1>1. NewTx("over") = [NewTx("over") EXCEPT !.pc = "over"]
  BY DEF NewTx
<1>2. tx' = [tx EXCEPT ![s] = [NewTx("over") EXCEPT !.mem = Blank, !.snap = Blank.epi,
                                                   !.late = FALSE]]
  BY DEF Commit, Rollback, Close
<1>3. tx'[s] = [NewTx("over") EXCEPT !.mem = Blank, !.snap = Blank.epi, !.late = FALSE]
  BY <1>2 DEF ReviewTypeOK
<1>4. /\ tx'[s].pc = "over" /\ tx'[s].then = "ready" /\ tx'[s].seen = 0
      /\ tx'[s].dropped = 0 /\ tx'[s].comp = 0 /\ tx'[s].draft = <<>>
      /\ tx'[s].late = FALSE
  BY <1>3 DEF NewTx
<1> QED
  BY <1>4 DEF Work

(* Only a commit writes the evidence, and it takes no row away. *)
LEMMA EvidenceGrows ==
    ASSUME ReviewTypeOK, NEW s \in Session,
           Pipeline(s) \/ Feedback(s) \/ Commit(s) \/ Rollback(s)
    PROVE  /\ Commit(s) \/ (evidence' = evidence /\ noted' = noted)
           /\ DOMAIN evidence \subseteq DOMAIN evidence'
<1>1. Commit(s) \/ (evidence' = evidence /\ noted' = noted)
  BY DEF Pipeline, Feedback, Database, Match, Resume, Replay, PreCheck, Link, PostCheck,
         GiveUp, Classify, Hold, Keep, Score, Supersede, Claim, Reverse, Insert, Credit,
         Review, LoadEvidence, Record, Prior, Amend, Post, Touch, Rollback
<1>2. Commit(s) => DOMAIN evidence \subseteq DOMAIN evidence'
  BY SettledRows DEF Commit
<1> QED
  BY <1>1, <1>2

(* The row a session has loaded stays: rows are added and rewritten, never *)
(* taken away.                                                             *)
LEMMA LoadedStep == ReviewTypeOK /\ Loaded /\ [Next]_vars => Loaded'
<1> SUFFICES ASSUME ReviewTypeOK, Loaded, [Next]_vars
             PROVE  Loaded'
  OBVIOUS
<1>1. ASSUME NEW s \in Session, Pipeline(s) \/ Feedback(s) \/ Commit(s) \/ Rollback(s)
      PROVE  Loaded'
  <2>1. HasLoaded(s) /\ tx[s] \in Txs
    BY DEF Loaded, ReviewTypeOK
  <2> SUFFICES HasLoaded(s)'
    <3>1. ASSUME NEW t \in Session, t # s PROVE HasLoaded(t)'
      BY <1>1, <3>1, OwnTx, EvidenceGrows DEF Loaded, HasLoaded
    <3> QED
      BY <3>1 DEF Loaded
  <2> USE DEF HasLoaded, Work
  <2>2. DOMAIN evidence \subseteq DOMAIN evidence'
    BY <1>1, EvidenceGrows
  <2>3. CASE Match(s) \/ Resume(s) \/ Replay(s) \/ Review(s)
    BY <2>3, Begins
  <2>4. CASE PreCheck(s) \/ PostCheck(s) \/ GiveUp(s) \/ Touch(s) \/ Post(s) \/ Credit(s)
    BY <2>1, <2>2, <2>4, Moves
  <2>5. CASE Link(s) \/ Classify(s) \/ Hold(s) \/ Keep(s) \/ Score(s)
    BY <2>1, <2>2, <2>5, Remembers
  <2>6. CASE Supersede(s) \/ Claim(s) \/ Reverse(s) \/ Insert(s)
    <3>1. ActiveRows \subseteq DOMAIN evidence /\ 0 \notin DOMAIN evidence
      BY DEF ActiveRows, ReviewTypeOK
    <3>2. CASE Supersede(s)
      BY <2>1, <2>2, <3>1, <3>2, Reconciles
    <3>3. CASE Claim(s) \/ Reverse(s)
      BY <2>1, <2>2, <3>1, <3>3, Reconciles
    <3>4. CASE Insert(s)
      BY <2>1, <2>2, <3>4, Reconciles
    <3> QED
      BY <2>6, <3>2, <3>3, <3>4
  <2>7. CASE LoadEvidence(s) \/ Record(s) \/ Prior(s) \/ Amend(s)
    BY <2>1, <2>2, <2>7, Feeds DEF ActiveRows, Following, Prior, Amend, At, ReviewTypeOK
  <2>8. CASE Commit(s) \/ Rollback(s)
    BY <2>8, Ends
  <2> QED
    BY <1>1, <2>3, <2>4, <2>5, <2>6, <2>7, <2>8 DEF Pipeline, Feedback
<1>2. CASE Fade \/ Done \/ UNCHANGED vars
  BY <1>2 DEF Fade, Done, vars, Loaded, HasLoaded
<1> QED
  BY <1>1, <1>2 DEF Next

(* Every variable keeps its type, whatever sessions do in whatever order:  *)
(* in particular each compensation of a row is computed from a row there   *)
(* is.                                                                     *)
THEOREM ReviewTypeCorrect == Spec => []ReviewTypeOK
<1>1. Init => ReviewTypeOK /\ Loaded
  <2> SUFFICES ASSUME Init, NEW s \in Session PROVE HasLoaded(s)
    BY ReviewTypeInit DEF Loaded
  <2>1. tx[s] = NewTx("idle")
    BY DEF Init
  <2> QED
    BY <2>1 DEF NewTx, HasLoaded
<1>2. ReviewTypeOK /\ Loaded /\ [Next]_vars => (ReviewTypeOK /\ Loaded)'
  BY ReviewTypeStep, LoadedStep
<1> QED
  BY <1>1, <1>2, PTL DEF Spec

-----------------------------------------------------------------------------
(* Suppression.  A session that begins after a suppressing feedback stops  *)
(* at one of the two checks before it may insert evidence: whoever is past *)
(* both began before the feedback was committed.                           *)

Unsuppressed == {"unlinked", "checked", "classified", "claim", "reverse", "insert"}

Halted(s) ==
    /\ tx[s].then \in {"ready", "touch", "insert"}
    /\ tx[s].late => /\ noted # {}
                     /\ tx[s].pc \notin Unsuppressed
                     /\ tx[s].then # "insert"
    /\ \A k \in DOMAIN tx[s].draft : ~tx[s].draft[k].late

LateInv == NoLateEvidence /\ \A s \in Session : Halted(s)

(* Every step keeps late sessions from inserting evidence. *)
LEMMA LateStep ==
    ASSUME Replays = {}
    PROVE  ReviewTypeOK /\ LateInv /\ [Next]_vars => LateInv'
<1> SUFFICES ASSUME ReviewTypeOK, LateInv, [Next]_vars PROVE LateInv'
  OBVIOUS
<1>1. ASSUME NEW s \in Session, Pipeline(s) \/ Feedback(s) \/ Commit(s) \/ Rollback(s)
      PROVE  LateInv'
  <2>1. Halted(s) /\ NoLateEvidence
    BY DEF LateInv
  <2>2. Commit(s) \/ (evidence' = evidence /\ noted' = noted)
    BY <1>1, EvidenceGrows
  <2>3. noted \subseteq noted'
    BY <2>2 DEF Commit
  <2>4. ASSUME NEW t \in Session, t # s PROVE Halted(t)'
    BY <1>1, <2>3, <2>4, OwnTx DEF LateInv, Halted
  <2>5. NoLateEvidence'
    <3>1. CASE evidence' = evidence
      BY <2>1, <3>1 DEF NoLateEvidence
    <3>2. CASE Commit(s)
      <4>1. evidence' = Settled(s) /\ evidence \in Seq(Evidence)
        BY <3>2 DEF Commit, ReviewTypeOK
      <4>2. ASSUME NEW i \in DOMAIN evidence PROVE ~Settled(s)[i].late
        <5>1. evidence[i] \in Evidence /\ ~evidence[i].late
          BY <2>1, <4>1 DEF NoLateEvidence
        <5>2. [evidence[i] EXCEPT !.comp = @ + tx[s].comp,
                                  !.active = @ /\ i # tx[s].dropped].late = evidence[i].late
          BY <5>1 DEF Evidence
        <5>3. \/ Settled(s)[i] = evidence[i]
              \/ Settled(s)[i] = [evidence[i] EXCEPT !.comp = @ + tx[s].comp,
                                       !.active = @ /\ i # tx[s].dropped]
          BY SettledRows
        <5> QED
          BY <5>1, <5>2, <5>3
      <4>3. ASSUME NEW i \in DOMAIN Settled(s) \ DOMAIN evidence PROVE ~Settled(s)[i].late
        <5>1. \A k \in DOMAIN tx[s].draft : ~tx[s].draft[k].late
          BY <2>1 DEF Halted
        <5> QED
          BY <4>3, <5>1, SettledRows
      <4> QED
        BY <4>1, <4>2, <4>3 DEF NoLateEvidence
    <3> QED
      BY <2>2, <3>1, <3>2
  <2>6. Halted(s)'
    <3> USE DEF Halted, Work, Unsuppressed
    <3>1. CASE Match(s) \/ Resume(s) \/ Replay(s) \/ Review(s)
      <4>1. /\ tx'[s].draft = <<>> /\ tx'[s].late = (noted # {}) /\ tx'[s].then = "ready"
            /\ tx'[s].pc \in {"matched", "linked", "record", "review"}
        BY <3>1, Begins
      <4>2. DOMAIN tx'[s].draft = {}
        BY <4>1
      <4> QED
        BY <2>3, <4>1, <4>2
    <3>2. CASE PreCheck(s) \/ PostCheck(s) \/ GiveUp(s) \/ Touch(s) \/ Post(s) \/ Credit(s)
      BY <2>1, <2>3, <3>2, Moves
    <3>3. CASE Link(s) \/ Classify(s) \/ Hold(s) \/ Keep(s) \/ Score(s)
      BY <2>1, <2>3, <3>3, Remembers
         DEF Link, Classify, Hold, Keep, Score, At
    <3>4. CASE Supersede(s) \/ Claim(s) \/ Reverse(s)
      BY <2>1, <2>3, <3>4, Reconciles DEF Supersede, Claim, Reverse, At
    <3>5. CASE Insert(s)
      <4>1. ~tx[s].late
        BY <2>1, <3>5 DEF Insert, At
      <4>2. CASE tx'[s].draft = tx[s].draft
        BY <2>1, <2>3, <3>5, <4>1, <4>2, Reconciles
      <4>3. CASE tx'[s].draft = <<Row(tx[s].want, tx[s].late)>>
        <5>1. DOMAIN tx'[s].draft = {1} /\ ~tx'[s].draft[1].late
          BY <4>1, <4>3 DEF Row
        <5> QED
          BY <2>1, <2>3, <3>5, <4>1, <5>1, Reconciles
      <4> QED
        BY <3>5, <4>2, <4>3, Reconciles
    <3>6. CASE LoadEvidence(s) \/ Record(s) \/ Prior(s) \/ Amend(s)
      BY <2>1, <2>3, <3>6, Feeds DEF Following
    <3>7. CASE Commit(s) \/ Rollback(s)
      <4>1. tx'[s].draft = <<>> /\ ~tx'[s].late /\ tx'[s].then = "ready"
        BY <3>7, Ends
      <4>2. DOMAIN tx'[s].draft = {}
        BY <4>1
      <4> QED
        BY <4>1, <4>2
    <3> QED
      BY <1>1, <3>1, <3>2, <3>3, <3>4, <3>5, <3>6, <3>7 DEF Pipeline, Feedback
  <2> QED
    BY <2>4, <2>5, <2>6 DEF LateInv
<1>2. CASE Fade \/ Done \/ UNCHANGED vars
  BY <1>2 DEF Fade, Done, vars, LateInv, Halted, NoLateEvidence
<1> QED
  BY <1>1, <1>2 DEF Next

(* As long as no held event is replayed, a session that begins after an    *)
(* operator suppressed the event never adds evidence to it, whatever the   *)
(* number of workers and operators: each unlocked look-up of the feedback  *)
(* in cluster_item and in the Tier-2 candidate processor is enough.        *)
THEOREM Suppression == Replays = {} => (Spec => []NoLateEvidence)
<1> SUFFICES ASSUME Replays = {} PROVE Spec => []NoLateEvidence
  OBVIOUS
<1>1. Init => LateInv
  <2> SUFFICES ASSUME Init PROVE LateInv
    OBVIOUS
  <2>1. ASSUME NEW s \in Session PROVE Halted(s)
    <3>1. tx[s] = NewTx("idle") /\ noted = {}
      BY DEF Init
    <3>2. tx[s].draft = <<>> /\ tx[s].late = (noted # {}) /\ tx[s].then = "ready"
      BY <3>1 DEF NewTx
    <3>3. DOMAIN tx[s].draft = {}
      BY <3>2
    <3>4. ~tx[s].late
      BY <3>1, <3>2
    <3> QED
      BY <3>2, <3>3, <3>4 DEF Halted
  <2>2. NoLateEvidence
    BY DEF Init, NoLateEvidence, Row
  <2> QED
    BY <2>1, <2>2 DEF LateInv
<1>2. LateInv => NoLateEvidence
  BY DEF LateInv
<1> QED
  BY <1>1, <1>2, LateStep, ReviewTypeCorrect, PTL DEF Spec

-----------------------------------------------------------------------------
(* Counting.  What a session remembers or has written of source_count is   *)
(* at most the items linked by then and its own: only Link adds to the     *)
(* count, once in a transaction, and adds a link with it.                  *)

Counted(s) ==
    /\ tx[s].then \in {"ready", "touch", "insert"}
    /\ tx[s].pc \in {"idle", "matched", "unlinked"} => tx[s].linked = 0
    /\ tx[s].mem.count <= links + tx[s].linked
    /\ Writing(s) => image[s].count <= links + tx[s].linked

CountInv == CountsLinked /\ \A s \in Session : Counted(s)

(* A flush that leaves the count in memory alone leaves that of the row    *)
(* alone; otherwise the row takes the one in memory.                       *)
LEMMA FlushedCount ==
    ASSUME NEW r \in Events, NEW old, NEW new
    PROVE  Flushed(r, old, new).count = IF new.count = old.count THEN r.count ELSE new.count
BY DEF Flushed, Events

(* Counts and links are numbers. *)
LEMMA CountTypes ==
    ASSUME ReviewTypeOK, NEW s \in Session
    PROVE  /\ links \in Nat /\ event.count \in Nat /\ image[s].count \in Nat
           /\ tx[s].mem.count \in Nat /\ tx[s].linked \in {0, 1}
BY DEF ReviewTypeOK, Events, Txs

(* What a session sees of the event is counted. *)
LEMMA CurrentCount ==
    ASSUME ReviewTypeOK, CountInv, NEW s \in Session
    PROVE  Current(s).count <= links + tx[s].linked
BY CountTypes DEF CountInv, CountsLinked, Counted, Current

(* Most statements leave count, link and image alone. *)
LEMMA Countless ==
    ASSUME ReviewTypeOK, NEW s \in Session,
           \/ PreCheck(s) \/ PostCheck(s) \/ GiveUp(s) \/ Keep(s) \/ Score(s) \/ Supersede(s)
           \/ Claim(s) \/ Reverse(s) \/ Insert(s) \/ Credit(s) \/ LoadEvidence(s)
           \/ Prior(s) \/ Amend(s) \/ Post(s)
    PROVE  /\ tx'[s].mem = tx[s].mem /\ tx'[s].linked = tx[s].linked
           /\ image'[s] = image[s] /\ Writing(s)' = Writing(s)
<1>1. tx[s] \in Txs
  BY DEF ReviewTypeOK
<1> USE <1>1 DEF Txs, ReviewTypeOK
<1>2. CASE PreCheck(s) \/ PostCheck(s) \/ GiveUp(s)
  BY <1>2 DEF PreCheck, PostCheck, GiveUp, Go, Writing
<1>3. CASE Keep(s)
  BY <1>3 DEF Keep, Writing
<1>4. CASE Score(s)
  <2>1. PICK d \in Deltas :
          tx' = [tx EXCEPT ![s].pc = "insert", ![s].want = d,
                           ![s].queued = IF s \in Replays THEN "done" ELSE @]
    BY <1>4 DEF Score
  <2> QED
    BY <1>4, <2>1 DEF Score, Writing
<1>5. CASE Supersede(s)
  <2>1. PICK i \in ActiveRows, d \in Deltas, then \in {"insert", "ready"} :
          tx' = [tx EXCEPT ![s].pc = "claim", ![s].seen = i, ![s].want = d,
                           ![s].then = then,
                           ![s].queued = IF s \in Replays THEN "done" ELSE @]
    BY <1>5 DEF Supersede
  <2> QED
    BY <1>5, <2>1 DEF Supersede, Writing
<1>6. CASE Claim(s)
  BY <1>6 DEF Claim, Writing
<1>7. CASE Reverse(s)
  BY <1>7 DEF Reverse, Writing
<1>8. CASE Insert(s)
  BY <1>8 DEF Insert, Writing
<1>9. CASE Credit(s)
  BY <1>9 DEF Credit, Writing
<1>10. CASE LoadEvidence(s)
  <2>1. tx'[s].mem = tx[s].mem /\ tx'[s].linked = tx[s].linked
    <3>1. CASE Go(s, IF s \in Restaters THEN "ready" ELSE "record")
      BY <3>1 DEF Go
    <3>2. CASE \E i \in ActiveRows, c \in IF s \in Restaters THEN Deltas ELSE {0} :
                 tx' = [tx EXCEPT ![s].pc = "record", ![s].seen = i, ![s].comp = c]
      BY <3>2
    <3> QED
      BY <1>10, <3>1, <3>2 DEF LoadEvidence
  <2> QED
    BY <1>10, <2>1 DEF LoadEvidence, Writing
<1>11. CASE Prior(s) \/ Amend(s)
  BY <1>11 DEF Prior, Amend, Writing
<1>12. CASE Post(s)
  BY <1>12 DEF Post, Go, Lock, Writing
<1> QED
  BY <1>2, <1>3, <1>4, <1>5, <1>6, <1>7, <1>8, <1>9, <1>10, <1>11, <1>12

(* A step of a session keeps its own count. *)
LEMMA CountedStep ==
    ASSUME ReviewTypeOK, CountInv, NEW s \in Session,
           Pipeline(s) \/ Feedback(s) \/ Rollback(s)
    PROVE  Counted(s)'
<1>1. Counted(s) /\ CountsLinked /\ tx[s] \in Txs /\ tx \in [Session -> Txs]
  BY DEF CountInv, ReviewTypeOK
<1>2. image \in [Session -> Events] /\ event \in Events
  BY DEF ReviewTypeOK
<1>3. links' = links
  BY DEF Pipeline, Feedback, Database, Match, Resume, Replay, PreCheck, Link, PostCheck,
         GiveUp, Classify, Hold, Keep, Score, Supersede, Claim, Reverse, Insert, Credit,
         Review, LoadEvidence, Record, Prior, Amend, Post, Touch, Rollback
<1>4. /\ links \in Nat /\ event.count \in Nat /\ image[s].count \in Nat
      /\ tx[s].mem.count \in Nat /\ tx[s].linked \in {0, 1}
  BY CountTypes
<1> USE DEF Counted, Work
<1>5. CASE Match(s) \/ Resume(s) \/ Replay(s) \/ Review(s)
  <2>1. tx[s].pc = "idle" /\ image' = image /\ lock' = lock
    BY <1>5 DEF Match, Resume, Replay, Review, At
  <2>2. /\ tx'[s].linked = 0 /\ tx'[s].mem = event /\ tx'[s].then = "ready"
    BY <1>1, <1>5 DEF Match, Resume, Replay, Review, NewTx
  <2>3. Writing(s)' => image'[s].count <= links + tx'[s].linked
    BY <1>1, <2>1, <2>2 DEF Writing
  <2> QED
    BY <1>1, <1>3, <1>4, <2>2, <2>3 DEF CountsLinked
<1>6. CASE PreCheck(s) \/ PostCheck(s) \/ GiveUp(s) \/ Credit(s) \/ Post(s)
  BY <1>1, <1>3, <1>6, Moves, Countless DEF PreCheck, PostCheck, At
<1>7. CASE Keep(s) \/ Score(s)
  BY <1>1, <1>3, <1>7, Remembers, Countless
<1>8. CASE Supersede(s) \/ Claim(s) \/ Reverse(s) \/ Insert(s)
  BY <1>1, <1>3, <1>8, Reconciles, Countless
<1>9. CASE LoadEvidence(s) \/ Prior(s) \/ Amend(s)
  BY <1>1, <1>3, <1>9, Feeds, Countless
<1>10. CASE Link(s)
  <2>1. PICK new \in [epi : Derived(tx[s].mem), act : Activity, count : {tx[s].mem.count + 1}] :
          /\ image' = [image EXCEPT ![s] = Flushed(event, tx[s].mem, new)]
          /\ tx' = [tx EXCEPT ![s].pc = "linked", ![s].mem = new, ![s].linked = 1]
    BY <1>10 DEF Link
  <2>2. /\ tx'[s].pc = "linked" /\ tx'[s].then = tx[s].then
        /\ tx'[s].linked = 1 /\ tx'[s].mem = new
    BY <1>1, <2>1 DEF Txs
  <2>3. new.count = tx[s].mem.count + 1
    OBVIOUS
  <2>4. image'[s].count = new.count
    BY <1>2, <1>4, <2>1, <2>3, FlushedCount
  <2>5. tx[s].linked = 0
    BY <1>1, <1>10 DEF Link, At
  <2> QED
    BY <1>1, <1>3, <1>4, <2>2, <2>3, <2>4, <2>5
<1>11. CASE Classify(s)
  <2>1. PICK epi \in Derived(tx[s].mem) :
          LET new == [tx[s].mem EXCEPT !.epi = epi] IN
            /\ image' = [image EXCEPT ![s] = Flushed(Current(s), tx[s].mem, new)]
            /\ tx' = [tx EXCEPT ![s].pc = "classified", ![s].mem = new,
                                 ![s].snap = tx[s].mem.epi]
    BY <1>11 DEF Classify
  <2> DEFINE new == [tx[s].mem EXCEPT !.epi = epi]
  <2>2. /\ tx'[s].pc = "classified" /\ tx'[s].then = tx[s].then
        /\ tx'[s].linked = tx[s].linked /\ tx'[s].mem = new
    BY <1>1, <2>1 DEF Txs
  <2>3. new.count = tx[s].mem.count
    BY <1>1 DEF Txs, Events
  <2>5. image'[s] = Flushed(Current(s), tx[s].mem, new)
    BY <1>2, <2>1
  <2> HIDE DEF new
  <2>4. image'[s].count = Current(s).count
    BY <2>3, <2>5, FlushedCount, CurrentType
  <2> QED
    BY <1>1, <1>3, <2>2, <2>3, <2>4, CurrentCount
<1>12. CASE Hold(s)
  <2> DEFINE new == [tx[s].mem EXCEPT !.epi = tx[s].snap]
  <2>1. /\ tx'[s].pc = "ready" /\ tx'[s].then = tx[s].then
        /\ tx'[s].linked = tx[s].linked /\ tx'[s].mem = tx[s].mem
    BY <1>1, <1>12 DEF Hold, Txs
  <2>2. image'[s] = Flushed(image[s], tx[s].mem, new) /\ lock' = lock
    BY <1>2, <1>12 DEF Hold
  <2>3. new.count = tx[s].mem.count
    BY <1>1 DEF Txs, Events
  <2> HIDE DEF new
  <2>4. image'[s].count = image[s].count
    BY <1>2, <2>2, <2>3, FlushedCount
  <2> QED
    BY <1>1, <1>3, <2>1, <2>2, <2>4 DEF Writing
<1>13. CASE Record(s)
  <2>1. /\ tx'[s].pc = Following(s) /\ tx'[s].then = "touch"
        /\ tx'[s].linked = tx[s].linked /\ tx'[s].mem = tx[s].mem
    BY <1>1, <1>13 DEF Record, Txs
  <2>2. CASE Retracts(s)
    <3>1. image'[s] = Flushed(event, tx[s].mem, Retracted(s))
      BY <1>2, <1>13, <2>2 DEF Record
    <3>2. Retracted(s).count = tx[s].mem.count
      BY <1>1 DEF Retracted, Txs, Events
    <3>3. image'[s].count = event.count
      BY <1>2, <3>1, <3>2, FlushedCount
    <3> QED
      BY <1>1, <1>3, <1>4, <2>1, <3>3 DEF Following, CountsLinked
  <2>3. CASE ~Retracts(s)
    <3>1. image' = image /\ lock' = lock
      BY <1>13, <2>3 DEF Record
    <3> QED
      BY <1>1, <1>3, <2>1, <3>1 DEF Following, Writing
  <2> QED
    BY <2>2, <2>3
<1>14. CASE Touch(s)
  <2>1. /\ tx'[s].pc = "ready" /\ tx'[s].then = tx[s].then
        /\ tx'[s].linked = tx[s].linked /\ tx'[s].mem = tx[s].mem
    BY <1>1, <1>14 DEF Touch, Go, Txs
  <2>2. image'[s] = Current(s)
    BY <1>2, <1>14 DEF Touch
  <2> QED
    BY <1>1, <1>3, <2>1, <2>2, CurrentCount
<1>15. CASE Rollback(s)
  <2>1. Close(s)
    BY <1>15 DEF Rollback
  <2> QED
    BY <1>1, <1>3, <1>4, <2>1 DEF Close, NewTx, Blank, Writing, ReviewTypeOK
<1> QED
  BY <1>5, <1>6, <1>7, <1>8, <1>9, <1>10, <1>11, <1>12, <1>13, <1>14, <1>15
     DEF Pipeline, Feedback

(* Every step keeps the counts. *)
LEMMA CountStep == ReviewTypeOK /\ CountInv /\ [Next]_vars => CountInv'
<1> SUFFICES ASSUME ReviewTypeOK, CountInv, [Next]_vars PROVE CountInv'
  OBVIOUS
<1>1. ASSUME NEW s \in Session, Pipeline(s) \/ Feedback(s) \/ Rollback(s) PROVE CountInv'
  <2>1. links' = links /\ event' = event
    BY <1>1 DEF Pipeline, Feedback, Database, Match, Resume, Replay, PreCheck, Link, PostCheck,
         GiveUp, Classify, Hold, Keep, Score, Supersede, Claim, Reverse, Insert, Credit,
         Review, LoadEvidence, Record, Prior, Amend, Post, Touch, Rollback
  <2>2. ASSUME NEW t \in Session, t # s PROVE Counted(t)'
    BY <1>1, <2>1, <2>2, OwnTx, OwnLock DEF CountInv, Counted, Writing
  <2>3. Counted(s)'
    BY <1>1, CountedStep
  <2> QED
    BY <2>1, <2>2, <2>3 DEF CountInv, CountsLinked
<1>2. ASSUME NEW s \in Session, Commit(s) PROVE CountInv'
  <2>1. event' = Current(s) /\ links' = links + tx[s].linked /\ Close(s)
    BY <1>2 DEF Commit
  <2>2. links \in Nat /\ tx[s].linked \in {0, 1}
    BY CountTypes
  <2>3. CountsLinked'
    BY <2>1, CurrentCount DEF CountsLinked
  <2>4. ASSUME NEW t \in Session, t # s PROVE Counted(t)'
    <3>1. tx'[t] = tx[t] /\ lock'[t] = lock[t] /\ image'[t] = image[t]
      BY <1>2, <2>4, OwnTx, OwnLock
    <3>2. /\ image[t].count \in Nat /\ tx[t].mem.count \in Nat /\ tx[t].linked \in {0, 1}
      BY CountTypes
    <3>3. Counted(t)
      BY DEF CountInv
    <3> QED
      BY <2>1, <2>2, <3>1, <3>2, <3>3 DEF Counted, Writing
  <2>5. /\ tx'[s].pc = "over" /\ tx'[s].then = "ready" /\ tx'[s].linked = 0
        /\ tx'[s].mem.count = 0 /\ lock'[s] = "none"
    BY <2>1 DEF Close, NewTx, Blank, ReviewTypeOK
  <2>6. Counted(s)'
    BY <2>1, <2>2, <2>5 DEF Counted, Writing
  <2> QED
    BY <2>3, <2>4, <2>6 DEF CountInv
<1>3. CASE Fade
  BY <1>3 DEF Fade, CountInv, CountsLinked, Counted, Writing
<1>4. CASE Done \/ UNCHANGED vars
  BY <1>4 DEF Done, vars, CountInv, CountsLinked, Counted, Writing
<1> QED
  BY <1>1, <1>2, <1>3, <1>4 DEF Next

(* source_count never exceeds the number of linked items, for any number   *)
(* of workers, replays and operators: merge_item_into_event counts an item *)
(* only when it links it, in the same transaction.                         *)
THEOREM CountsBacked == Spec => []CountsLinked
<1>1. Init => CountInv
  <2> SUFFICES ASSUME Init PROVE CountInv
    OBVIOUS
  <2>1. event.count = 1 /\ links = 1
    BY DEF Init
  <2>2. ASSUME NEW s \in Session PROVE Counted(s)
    <3>1. tx[s] = NewTx("idle") /\ lock[s] = "none"
      BY DEF Init
    <3>2. tx[s].then = "ready" /\ tx[s].linked = 0 /\ tx[s].mem = event
      BY <3>1 DEF NewTx
    <3> QED
      BY <2>1, <3>1, <3>2 DEF Counted, Writing
  <2> QED
    BY <2>1, <2>2 DEF CountInv, CountsLinked
<1>2. CountInv => CountsLinked
  BY DEF CountInv
<1> QED
  BY <1>1, <1>2, CountStep, ReviewTypeCorrect, PTL DEF Spec

-----------------------------------------------------------------------------
(* Reversal and waiting.  Whoever holds a lock that another waits for has  *)
(* written the event's row, which has one writer at a time; so what such a *)
(* session has read of an evidence row is still true when it commits.      *)
(*                                                                         *)
(* An invalidation takes the event's row before it reads the evidence row, *)
(* because it retracts the event: it finds it unretracted when no other    *)
(* operator's feedback is under way.  Any number of workers, of replays    *)
(* and, without it, of mark_noise may run.                                 *)

Alone == Restaters = {} /\ \A o \in Invalidators : Reviewers = {o}

(* Nobody else retracts the event before the invalidation is committed. *)
Fresh ==
    \A o \in Invalidators : tx[o].pc # "over" =>
        /\ event.epi # "retracted"
        /\ \A s \in Session : tx[s].mem.epi # "retracted" /\ tx[s].snap # "retracted"
        /\ \A s \in Others(o) : image[s].epi # "retracted"

Early ==
    {"idle", "matched", "unlinked", "linked", "checked", "classified",
     "review", "record", "over"}

(* What a session knows of the row it has loaded, or invalidated. *)
Books(s) ==
    /\ tx[s].then \in {"ready", "touch", "insert"}
    /\ tx[s].pc \in {"review", "prior", "amend", "post"} => s \in Invalidators
    /\ tx[s].pc \in Early => tx[s].dropped = 0
    /\ tx[s].pc \in Early /\ tx[s].seen # 0 => tx[s].pc = "record" /\ s \in Invalidators
    /\ tx[s].pc \in {"claim", "prior", "amend"} => tx[s].dropped = 0
    /\ tx[s].dropped = 0 => tx[s].pc \notin {"reverse", "post"}
    /\ tx[s].dropped = 0 /\ tx[s].pc # "amend" => tx[s].comp = 0
    /\ tx[s].pc = "amend" \/ (tx[s].dropped # 0 /\ tx[s].pc # "reverse") =>
         tx[s].comp = -Remaining(tx[s].seen)
    /\ tx[s].dropped # 0 => tx[s].dropped = tx[s].seen
    /\ \A k \in DOMAIN tx[s].draft : tx[s].draft[k].active

(* No two sessions have invalidated the same row. *)
OneClaim ==
    \A s, t \in Session : s # t /\ tx[s].dropped # 0 => tx[s].dropped # tx[t].dropped

NetInv == NetZero /\ OneClaim /\ \A s \in Session : Books(s)

(* The statements that come after the session has written the event. *)
Behind == {"classified", "claim", "reverse", "insert", "credit", "prior", "amend", "post"}

Writes(s) ==
    /\ lock[s] # "share"
    /\ tx[s].pc \in Behind => Writing(s)
    /\ tx[s].dropped # 0 \/ tx[s].draft # <<>> \/ tx[s].trend => Writing(s)

OneWriter == \A s, t \in Session : s # t => ~(Writing(s) /\ Writing(t))

WaitInv == OneWriter /\ \A s \in Session : Writes(s)

(* A flush takes a column from the row or from memory. *)
LEMMA FlushedEpi ==
    ASSUME NEW r \in Events, NEW old, NEW new
    PROVE  Flushed(r, old, new).epi \in {r.epi, new.epi}
BY DEF Flushed, Events

(* What a session sees of the event before an invalidation is committed. *)
LEMMA CurrentFresh ==
    ASSUME ReviewTypeOK, Fresh, NEW o \in Invalidators, tx[o].pc # "over",
           NEW s \in Session, s # o
    PROVE  Current(s).epi # "retracted"
BY DEF Fresh, Current, Others

(* Statements that do not classify leave the remembered state alone. *)
LEMMA Snapless ==
    ASSUME ReviewTypeOK, NEW s \in Session,
           \/ PreCheck(s) \/ PostCheck(s) \/ GiveUp(s) \/ Keep(s) \/ Score(s) \/ Supersede(s)
           \/ Claim(s) \/ Reverse(s) \/ Insert(s) \/ Credit(s) \/ LoadEvidence(s)
           \/ Prior(s) \/ Amend(s) \/ Post(s)
    PROVE  tx'[s].snap = tx[s].snap
<1>1. tx \in [Session -> Txs] /\ tx[s] \in Txs
  BY DEF ReviewTypeOK
<1> USE <1>1 DEF Txs
<1>2. CASE PreCheck(s) \/ PostCheck(s) \/ GiveUp(s) \/ Post(s)
  BY <1>2 DEF PreCheck, PostCheck, GiveUp, Post, Go
<1>3. CASE Keep(s) \/ Score(s)
  <2>1. CASE Keep(s)
    BY <2>1 DEF Keep
  <2>2. CASE Score(s)
    <3>1. PICK d \in Deltas :
            tx' = [tx EXCEPT ![s].pc = "insert", ![s].want = d,
                             ![s].queued = IF s \in Replays THEN "done" ELSE @]
      BY <2>2 DEF Score
    <3> QED
      BY <3>1
  <2> QED
    BY <1>3, <2>1, <2>2
<1>4. CASE Supersede(s)
  <2>1. PICK i \in ActiveRows, d \in Deltas, then \in {"insert", "ready"} :
          tx' = [tx EXCEPT ![s].pc = "claim", ![s].seen = i, ![s].want = d,
                           ![s].then = then,
                           ![s].queued = IF s \in Replays THEN "done" ELSE @]
    BY <1>4 DEF Supersede
  <2> QED
    BY <2>1
<1>5. CASE Claim(s) \/ Reverse(s) \/ Insert(s) \/ Credit(s)
  BY <1>5 DEF Claim, Reverse, Insert, Credit
<1>6. CASE LoadEvidence(s)
  <2>1. CASE Go(s, IF s \in Restaters THEN "ready" ELSE "record")
    BY <2>1 DEF Go
  <2>2. CASE \E i \in ActiveRows, c \in IF s \in Restaters THEN Deltas ELSE {0} :
               tx' = [tx EXCEPT ![s].pc = "record", ![s].seen = i, ![s].comp = c]
    BY <2>2
  <2> QED
    BY <1>6, <2>1, <2>2 DEF LoadEvidence
<1>7. CASE Prior(s) \/ Amend(s)
  BY <1>7 DEF Prior, Amend
<1> QED
  BY <1>2, <1>3, <1>4, <1>5, <1>6, <1>7

(* A step of a session retracts the event in nobody's memory, nor in the   *)
(* row of another session than the invalidation.                           *)
LEMMA FreshOwn ==
    ASSUME Alone, ReviewTypeOK, Fresh, NEW o \in Invalidators, tx[o].pc # "over",
           NEW s \in Session, Pipeline(s) \/ Feedback(s) \/ Commit(s) \/ Rollback(s)
    PROVE  /\ tx'[s].mem.epi # "retracted" /\ tx'[s].snap # "retracted"
           /\ s # o => image'[s].epi # "retracted"
<1>1. /\ tx[s].mem.epi # "retracted" /\ tx[s].snap # "retracted"
      /\ s # o => image[s].epi # "retracted"
      /\ event.epi # "retracted"
  BY DEF Fresh, Others
<1>2. /\ tx \in [Session -> Txs] /\ tx[s] \in Txs /\ tx[s].mem \in Events
      /\ image \in [Session -> Events] /\ image[s] \in Events /\ event \in Events
  BY DEF ReviewTypeOK, Txs
<1>3. CASE Match(s) \/ Resume(s) \/ Replay(s) \/ Review(s)
  <2>1. tx'[s].mem = event /\ tx'[s].snap = event.epi /\ image' = image
    BY <1>2, <1>3 DEF Match, Resume, Replay, Review, NewTx
  <2> QED
    BY <1>1, <2>1
<1>4. CASE PreCheck(s) \/ PostCheck(s) \/ GiveUp(s) \/ Keep(s) \/ Score(s) \/ Supersede(s)
           \/ Claim(s) \/ Reverse(s) \/ Insert(s) \/ Credit(s) \/ LoadEvidence(s)
           \/ Prior(s) \/ Amend(s) \/ Post(s)
  <2>1. tx'[s].snap = tx[s].snap
    BY <1>2, <1>4, Snapless
  <2> QED
    BY <1>1, <1>4, <2>1, Countless
<1>5. CASE Link(s)
  <2>1. PICK new \in [epi : Derived(tx[s].mem), act : Activity, count : {tx[s].mem.count + 1}] :
          /\ image' = [image EXCEPT ![s] = Flushed(event, tx[s].mem, new)]
          /\ tx' = [tx EXCEPT ![s].pc = "linked", ![s].mem = new, ![s].linked = 1]
    BY <1>5 DEF Link
  <2>2. new.epi # "retracted"
    BY <1>1 DEF Derived
  <2>3. tx'[s].mem = new /\ tx'[s].snap = tx[s].snap
    BY <1>2, <2>1 DEF Txs
  <2>4. image'[s] = Flushed(event, tx[s].mem, new)
    BY <1>2, <2>1
  <2> QED
    BY <1>1, <1>2, <2>2, <2>3, <2>4, FlushedEpi
<1>6. CASE Classify(s)
  <2>1. PICK epi \in Derived(tx[s].mem) :
          LET new == [tx[s].mem EXCEPT !.epi = epi] IN
            /\ image' = [image EXCEPT ![s] = Flushed(Current(s), tx[s].mem, new)]
            /\ tx' = [tx EXCEPT ![s].pc = "classified", ![s].mem = new,
                                 ![s].snap = tx[s].mem.epi]
    BY <1>6 DEF Classify
  <2> DEFINE new == [tx[s].mem EXCEPT !.epi = epi]
  <2>2. new.epi # "retracted"
    BY <1>1, <1>2 DEF Derived, Events
  <2>3. tx'[s].mem = new /\ tx'[s].snap = tx[s].mem.epi
    BY <1>2, <2>1 DEF Txs
  <2>4. image'[s] = Flushed(Current(s), tx[s].mem, new)
    BY <1>2, <2>1
  <2> HIDE DEF new
  <2>5. s # o => image'[s].epi # "retracted"
    BY <2>2, <2>4, FlushedEpi, CurrentFresh, CurrentType
  <2> QED
    BY <1>1, <2>2, <2>3, <2>5
<1>7. CASE Hold(s)
  <2> DEFINE new == [tx[s].mem EXCEPT !.epi = tx[s].snap]
  <2>1. tx'[s].mem = tx[s].mem /\ tx'[s].snap = tx[s].snap
    BY <1>2, <1>7 DEF Hold, Txs
  <2>2. image'[s] = Flushed(image[s], tx[s].mem, new)
    BY <1>2, <1>7 DEF Hold
  <2>3. new.epi = tx[s].snap
    BY <1>2 DEF Events
  <2> HIDE DEF new
  <2> QED
    BY <1>1, <1>2, <2>1, <2>2, <2>3, FlushedEpi
<1>8. CASE Record(s)
  <2>1. tx'[s].mem = tx[s].mem /\ tx'[s].snap = tx[s].snap
    BY <1>2, <1>8 DEF Record, Txs
  <2>2. s # o => ~Retracts(s)
    BY DEF Alone, Reviewers, Retracts
  <2>3. s # o => image' = image
    BY <1>8, <2>2 DEF Record
  <2> QED
    BY <1>1, <2>1, <2>3
<1>9. CASE Touch(s)
  <2>1. tx'[s].mem = tx[s].mem /\ tx'[s].snap = tx[s].snap
    BY <1>2, <1>9 DEF Touch, Go, Txs
  <2>2. image'[s] = Current(s)
    BY <1>2, <1>9 DEF Touch
  <2> QED
    BY <1>1, <2>1, <2>2, CurrentFresh
<1>10. CASE Commit(s) \/ Rollback(s)
  <2>1. Close(s)
    BY <1>10 DEF Commit, Rollback
  <2>2. image'[s] = Blank
    BY <1>2, <2>1 DEF Close
  <2>3. tx'[s] = [NewTx("over") EXCEPT !.mem = Blank, !.snap = Blank.epi, !.late = FALSE]
    BY <1>2, <2>1 DEF Close
  <2>4. tx'[s].mem = Blank /\ tx'[s].snap = "emerging"
    BY <2>3 DEF NewTx, Blank
  <2> QED
    BY <2>2, <2>4 DEF Blank
<1> QED
  BY <1>3, <1>4, <1>5, <1>6, <1>7, <1>8, <1>9, <1>10 DEF Pipeline, Feedback

(* Every step keeps the event unretracted for the invalidation. *)
LEMMA FreshStep ==
    ASSUME Alone
    PROVE  ReviewTypeOK /\ Fresh /\ [Next]_vars => Fresh'
<1> SUFFICES ASSUME ReviewTypeOK, Fresh, [Next]_vars,
                    NEW o \in Invalidators, tx'[o].pc # "over"
             PROVE  /\ event'.epi # "retracted"
                    /\ \A s \in Session : tx'[s].mem.epi # "retracted"
                                          /\ tx'[s].snap # "retracted"
                    /\ \A s \in Others(o) : image'[s].epi # "retracted"
  BY DEF Fresh, Others
<1>1. o \in Session
  BY DEF Session, Reviewers
<1>2. ASSUME NEW s \in Session, Pipeline(s) \/ Feedback(s) \/ Commit(s) \/ Rollback(s)
      PROVE  /\ event'.epi # "retracted"
             /\ \A t \in Session : tx'[t].mem.epi # "retracted"
                                   /\ tx'[t].snap # "retracted"
             /\ \A t \in Others(o) : image'[t].epi # "retracted"
  <2>1. s = o => ~Commit(s) /\ ~Rollback(s)
    BY Ends
  <2>2. tx[o].pc # "over"
    <3>1. CASE s # o
      BY <1>1, <1>2, <3>1, OwnTx
    <3>2. CASE s = o
      BY <1>2, <2>1, <3>2
         DEF Pipeline, Feedback, At, Match, Resume, Replay, PreCheck, Link, PostCheck, GiveUp,
             Classify, Hold, Keep, Score, Supersede, Claim, Reverse, Insert, Credit, Review,
             LoadEvidence, Record, Prior, Amend, Post, Touch
    <3> QED
      BY <3>1, <3>2
  <2>3. event'.epi # "retracted"
    <3>1. CASE Commit(s)
      BY <2>1, <2>2, <3>1, CurrentFresh DEF Commit
    <3>2. CASE event' = event
      BY <2>2, <3>2 DEF Fresh
    <3> QED
      BY <1>2, <3>1, <3>2
         DEF Pipeline, Feedback, Database, Match, Resume, Replay, PreCheck, Link, PostCheck,
             GiveUp, Classify, Hold, Keep, Score, Supersede, Claim, Reverse, Insert, Credit,
             Review, LoadEvidence, Record, Prior, Amend, Post, Touch, Rollback
  <2>4. /\ tx'[s].mem.epi # "retracted" /\ tx'[s].snap # "retracted"
        /\ s # o => image'[s].epi # "retracted"
    BY <1>2, <2>2, FreshOwn
  <2>5. \A t \in Session : t # s => tx'[t] = tx[t] /\ image'[t] = image[t]
    BY <1>2, OwnTx, OwnLock
  <2> QED
    BY <2>2, <2>3, <2>4, <2>5 DEF Fresh, Others
<1>3. CASE Fade
  <2>1. event'.epi = event.epi /\ tx' = tx /\ image' = image
    BY <1>3 DEF Fade
  <2> QED
    BY <2>1 DEF Fresh
<1>4. CASE Done \/ UNCHANGED vars
  BY <1>4 DEF Done, vars, Fresh
<1> QED
  BY <1>2, <1>3, <1>4 DEF Next

(* A claim, and the invalidation by an operator, wait for the other         *)
(* session that has claimed the row.                                       *)
LEMMA OneClaimStep ==
    ASSUME ReviewTypeOK, NetInv, NEW s \in Session,
           Pipeline(s) \/ Feedback(s) \/ Commit(s) \/ Rollback(s)
    PROVE  OneClaim'
<1>1. \A t \in Session : t # s => tx'[t].dropped = tx[t].dropped
  BY OwnTx
<1> SUFFICES \A t \in Session : t # s /\ tx'[s].dropped # 0 => tx'[s].dropped # tx[t].dropped
  BY <1>1 DEF OneClaim, NetInv
<1>2. \A t \in Session : t # s /\ tx[s].dropped # 0 => tx[s].dropped # tx[t].dropped
  BY DEF OneClaim, NetInv
<1> USE DEF Work
<1>4. CASE Match(s) \/ Resume(s) \/ Replay(s) \/ Review(s)
  BY <1>4, Begins
<1>5. CASE PreCheck(s) \/ PostCheck(s) \/ GiveUp(s) \/ Touch(s) \/ Post(s) \/ Credit(s)
  BY <1>2, <1>5, Moves
<1>6. CASE Link(s) \/ Classify(s) \/ Hold(s) \/ Keep(s) \/ Score(s)
  BY <1>2, <1>6, Remembers
<1>7. CASE Supersede(s) \/ Reverse(s) \/ Insert(s)
  BY <1>2, <1>7, Reconciles
<1>8. CASE Claim(s)
  <2>1. \A t \in Session : t # s => tx[t].dropped # tx[s].seen
    BY <1>8 DEF Claim, Free, Blockers, Others, At
  <2> QED
    BY <1>2, <1>8, <2>1, Reconciles
<1>9. CASE LoadEvidence(s) \/ Record(s) \/ Prior(s)
  BY <1>2, <1>9, Feeds
<1>10. CASE Amend(s)
  <2>1. \A t \in Session : t # s => tx[t].dropped # tx[s].seen
    BY <1>10 DEF Amend, Free, Blockers, Others, At
  <2> QED
    BY <1>2, <1>10, <2>1, Feeds
<1>11. CASE Commit(s) \/ Rollback(s)
  BY <1>11, Ends
<1> QED
  BY <1>4, <1>5, <1>6, <1>7, <1>8, <1>9, <1>10, <1>11 DEF Pipeline, Feedback

(* What a commit makes of each row there was. *)
LEMMA CommittedRow ==
    ASSUME ReviewTypeOK, NetInv, NEW s \in Session, Commit(s), NEW i \in DOMAIN evidence
    PROVE  /\ i # tx[s].dropped =>
                /\ evidence'[i].active = evidence[i].active
                /\ Remaining(i)' = Remaining(i)
           /\ i = tx[s].dropped => Remaining(i)' = 0
<1>1. evidence[i] \in Evidence /\ tx[s] \in Txs
  BY DEF ReviewTypeOK
<1>2. tx[s].pc = "ready" /\ evidence' = Settled(s)
  BY DEF Commit, At
<1>3. Books(s)
  BY DEF NetInv
<1>4. CASE i # tx[s].seen
  <2>1. evidence'[i] = evidence[i]
    BY <1>2, <1>4, SettledRows
  <2>2. i # tx[s].dropped
    BY <1>3, <1>4 DEF Books, ReviewTypeOK
  <2> QED
    BY <2>1, <2>2 DEF Remaining
<1>5. CASE i = tx[s].seen
  <2> DEFINE c == evidence[i].comp + tx[s].comp
             a == (evidence[i].active /\ i # tx[s].dropped)
  <2>1. evidence'[i] = [evidence[i] EXCEPT !.comp = c, !.active = a]
    BY <1>1, <1>2, <1>5, SettledRows DEF Evidence
  <2>2. /\ evidence'[i].delta = evidence[i].delta
        /\ evidence'[i].comp = c
        /\ evidence'[i].active = a
    <3> HIDE DEF c, a
    <3> QED
      BY <1>1, <2>1 DEF Evidence
  <2>3. CASE i = tx[s].dropped
    <3>1. tx[s].comp = -Remaining(i) /\ tx[s].comp \in Int
      BY <1>1, <1>2, <1>3, <1>5, <2>3 DEF Books, ReviewTypeOK, Txs
    <3> QED
      BY <1>1, <2>2, <2>3, <3>1 DEF Remaining, Evidence
  <2>4. CASE i # tx[s].dropped
    <3>1. tx[s].dropped = 0
      BY <1>3, <1>5, <2>4 DEF Books
    <3>2. tx[s].comp = 0
      BY <1>2, <1>3, <3>1 DEF Books
    <3>3. a = evidence[i].active /\ c = evidence[i].comp
      BY <1>1, <2>4, <3>2 DEF Evidence
    <3> QED
      BY <2>2, <2>4, <3>3 DEF Remaining
  <2> QED
    BY <2>3, <2>4
<1> QED
  BY <1>4, <1>5

(* What a session knows of its row stays true while the others commit: it  *)
(* has written the event's row, and they have not.                         *)
LEMMA BooksOfOthers ==
    ASSUME ReviewTypeOK, Loaded, NetInv, WaitInv, NEW s \in Session, NEW t \in Session, t # s,
           Pipeline(s) \/ Feedback(s) \/ Commit(s) \/ Rollback(s)
    PROVE  Books(t)'
<1>1. Books(t) /\ HasLoaded(t) /\ tx'[t] = tx[t]
  BY OwnTx DEF NetInv, Loaded
<1> DEFINE Knows == tx[t].pc = "amend" \/ tx[t].dropped # 0
<1>2. CASE ~Knows
  BY <1>1, <1>2 DEF Books
<1>3. CASE Knows
  <2>1. tx[t].seen \in DOMAIN evidence
    BY <1>1, <1>3 DEF Books, HasLoaded
  <2>2. Remaining(tx[t].seen)' = Remaining(tx[t].seen)
    <3>1. CASE evidence' = evidence
      BY <1>1, <3>1 DEF Remaining
    <3>2. CASE Commit(s)
      <4>1. Writing(t) /\ ~Writing(s)
        BY <1>3 DEF WaitInv, Writes, OneWriter, Behind
      <4>2. tx[s].dropped = 0
        BY <4>1 DEF WaitInv, Writes
      <4>3. tx[t].seen # tx[s].dropped
        BY <2>1, <4>2 DEF ReviewTypeOK
      <4> QED
        BY <1>1, <2>1, <3>2, <4>3, CommittedRow DEF Remaining
    <3> QED
      BY <3>1, <3>2, EvidenceGrows
  <2> QED
    BY <1>1, <2>2 DEF Books
<1> QED
  BY <1>2, <1>3

(* A step of the session itself keeps its books. *)
LEMMA BooksStep ==
    ASSUME Alone, ReviewTypeOK, Loaded, NetInv,
           NEW s \in Session,
           Pipeline(s) \/ Feedback(s) \/ Commit(s) \/ Rollback(s)
    PROVE  Books(s)'
<1>1. Books(s) /\ HasLoaded(s) /\ tx[s].seen \in Nat
  BY DEF NetInv, Loaded, ReviewTypeOK, Txs
<1> USE DEF Books, Work, Early, At
<1>2. CASE Match(s) \/ Resume(s) \/ Replay(s) \/ Review(s)
  <2>1. /\ tx'[s].draft = <<>> /\ tx'[s].seen = 0 /\ tx'[s].dropped = 0
        /\ tx'[s].comp = 0 /\ tx'[s].then = "ready"
        /\ tx'[s].pc \in {"matched", "linked", "checked", "record", "review"}
        /\ tx'[s].pc = "review" => s \in Invalidators
    BY <1>2, Begins DEF Review, Reviewers, Alone
  <2>2. DOMAIN tx'[s].draft = {}
    BY <2>1
  <2> QED
    BY <2>1, <2>2
<1>3. CASE Commit(s) \/ Rollback(s)
  <2>1. /\ tx'[s].draft = <<>> /\ tx'[s].seen = 0 /\ tx'[s].dropped = 0
        /\ tx'[s].comp = 0 /\ tx'[s].then = "ready" /\ tx'[s].pc = "over"
    BY <1>3, Ends
  <2>2. DOMAIN tx'[s].draft = {}
    BY <2>1
  <2> QED
    BY <2>1, <2>2
<1>4. CASE evidence' = evidence
  <2>1. \A i \in Nat : Remaining(i)' = Remaining(i)
    BY <1>4 DEF Remaining
  <2>2. CASE PreCheck(s) \/ PostCheck(s) \/ GiveUp(s) \/ Touch(s)
    BY <1>1, <2>1, <2>2, Moves DEF PreCheck, PostCheck, GiveUp, Touch
  <2>3. CASE Credit(s)
    <3>1. /\ tx[s].pc = "credit" /\ tx'[s].pc = tx[s].then /\ tx'[s].then = tx[s].then
          /\ tx'[s].seen = tx[s].seen /\ tx'[s].dropped = tx[s].dropped
          /\ tx'[s].comp = tx[s].comp /\ tx'[s].draft = tx[s].draft
      BY <2>3, Moves DEF Credit
    <3>2. tx'[s].pc \in {"ready", "touch", "insert"}
      BY <1>1, <3>1
    <3> QED
      BY <1>1, <2>1, <3>1, <3>2
  <2>4. CASE Link(s) \/ Classify(s) \/ Hold(s) \/ Keep(s) \/ Score(s)
    BY <1>1, <2>1, <2>4, Remembers DEF Link, Classify, Hold, Keep, Score
  <2>5. CASE Supersede(s)
    <3>1. PICK i \in ActiveRows, then \in {"insert", "ready"} :
            Work(s)' = <<then, i, tx[s].dropped, tx[s].comp, tx[s].draft, tx[s].late>>
      BY <2>5, Reconciles
    <3>2. tx'[s].pc = "claim" /\ tx[s].pc = "classified"
      BY <2>5, Reconciles DEF Supersede
    <3>3. tx[s].dropped = 0 /\ tx[s].comp = 0
      BY <1>1, <3>2
    <3> QED
      BY <1>1, <3>1, <3>2, <3>3
  <2>6. CASE Claim(s)
    <3>1. tx[s].pc = "claim" /\ tx[s].dropped = 0 /\ tx[s].comp = 0 /\ tx[s].seen # 0
      BY <1>1, <2>6 DEF Claim, HasLoaded
    <3>2. CASE /\ tx'[s].pc = "reverse" /\ tx[s].seen \in ActiveRows
               /\ Work(s)' = <<tx[s].then, tx[s].seen, tx[s].seen, tx[s].comp,
                                tx[s].draft, tx[s].late>>
      BY <1>1, <2>1, <3>1, <3>2
    <3>3. CASE tx'[s].pc = tx[s].then /\ Work(s)' = Work(s)
      <4>1. /\ tx'[s].pc \in {"ready", "touch", "insert"} /\ tx'[s].then = tx[s].then
            /\ tx'[s].dropped = 0 /\ tx'[s].comp = 0 /\ tx'[s].draft = tx[s].draft
        BY <1>1, <3>1, <3>3
      <4> QED
        BY <1>1, <4>1
    <3> QED
      BY <2>6, <3>2, <3>3, Reconciles
  <2>7. CASE Reverse(s)
    <3>1. /\ tx[s].pc = "reverse" /\ tx'[s].pc \in {tx[s].then, "credit"}
          /\ tx'[s].then = tx[s].then /\ tx'[s].seen = tx[s].seen
          /\ tx'[s].dropped = tx[s].dropped /\ tx'[s].comp = -Remaining(tx[s].seen)
          /\ tx'[s].draft = tx[s].draft
      BY <2>7, Reconciles DEF Reverse
    <3>2. tx'[s].pc \in {"ready", "touch", "insert", "credit"} /\ tx[s].dropped # 0
      BY <1>1, <3>1
    <3>3. tx'[s].comp = -(Remaining(tx[s].seen)')
      BY <1>1, <2>1, <3>1, <3>2
    <3> QED
      BY <1>1, <2>1, <3>1, <3>2, <3>3
  <2>8. CASE Insert(s)
    <3>3. /\ tx[s].pc = "insert" /\ tx'[s].pc \in {"ready", "credit"}
          /\ tx'[s].then \in {tx[s].then, "ready"} /\ tx'[s].seen = tx[s].seen
          /\ tx'[s].dropped = tx[s].dropped /\ tx'[s].comp = tx[s].comp
      BY <2>8, Reconciles DEF Insert
    <3>1. CASE tx'[s].draft = tx[s].draft
      BY <1>1, <2>1, <3>1, <3>3
    <3>2. CASE tx'[s].draft = <<Row(tx[s].want, tx[s].late)>>
      <4>1. DOMAIN tx'[s].draft = {1} /\ tx'[s].draft[1].active
        BY <3>2 DEF Row
      <4> QED
        BY <1>1, <2>1, <3>3, <4>1
    <3> QED
      BY <2>8, <3>1, <3>2, Reconciles
  <2>9. CASE LoadEvidence(s)
    <3>1. s \notin Restaters
      BY DEF Alone
    <3>2. tx[s].pc = "review" /\ tx'[s].pc = "record"
      BY <2>9, <3>1, Feeds DEF LoadEvidence
    <3>3. /\ tx'[s].then = tx[s].then /\ tx'[s].dropped = tx[s].dropped
          /\ tx'[s].draft = tx[s].draft /\ tx'[s].comp \in {0, tx[s].comp}
      BY <2>9, <3>1, Feeds
    <3>4. tx[s].dropped = 0 /\ tx[s].comp = 0 /\ s \in Invalidators
      BY <1>1, <3>2
    <3> QED
      BY <1>1, <3>2, <3>3, <3>4
  <2>10. CASE Record(s)
    <3>1. tx[s].pc = "record" /\ tx'[s].pc = Following(s)
      BY <2>10, Feeds DEF Record
    <3>2. /\ tx'[s].then = "touch" /\ tx'[s].seen = tx[s].seen
          /\ tx'[s].dropped = tx[s].dropped /\ tx'[s].comp = tx[s].comp
          /\ tx'[s].draft = tx[s].draft
      BY <2>10, Feeds
    <3>3. tx[s].dropped = 0 /\ tx[s].comp = 0
      BY <1>1, <3>1
    <3>4. tx'[s].pc = "touch" \/ (tx'[s].pc = "prior" /\ s \in Invalidators)
      BY <1>1, <3>1 DEF Following, Alone
    <3> QED
      BY <1>1, <3>2, <3>3, <3>4
  <2>11. CASE Prior(s)
    <3>1. /\ tx[s].pc = "prior" /\ tx'[s].pc = "amend"
          /\ tx'[s].then = tx[s].then /\ tx'[s].seen = tx[s].seen
          /\ tx'[s].dropped = tx[s].dropped /\ tx'[s].comp = -Remaining(tx[s].seen)
          /\ tx'[s].draft = tx[s].draft
      BY <2>11, Feeds DEF Prior
    <3>2. tx'[s].comp = -(Remaining(tx[s].seen)')
      BY <1>4, <3>1 DEF Remaining
    <3> QED
      BY <1>1, <3>1, <3>2
  <2>12. CASE Amend(s)
    <3>1. /\ tx[s].pc = "amend" /\ tx'[s].pc = "post"
          /\ tx'[s].then = tx[s].then /\ tx'[s].seen = tx[s].seen
          /\ tx'[s].dropped = tx[s].seen /\ tx'[s].comp = tx[s].comp
          /\ tx'[s].draft = tx[s].draft
      BY <2>12, Feeds DEF Amend
    <3>2. tx[s].seen # 0
      BY <1>1, <3>1 DEF HasLoaded
    <3>3. tx'[s].comp = -(Remaining(tx[s].seen)')
      BY <1>1, <1>4, <3>1 DEF Remaining
    <3> QED
      BY <1>1, <3>1, <3>2, <3>3
  <2>13. CASE Post(s)
    <3>1. /\ tx[s].pc = "post" /\ tx'[s].pc \in {"touch", "credit"}
          /\ tx'[s].then = tx[s].then /\ tx'[s].seen = tx[s].seen
          /\ tx'[s].dropped = tx[s].dropped /\ tx'[s].comp = tx[s].comp
          /\ tx'[s].draft = tx[s].draft
      BY <2>13, Moves DEF Post
    <3>2. tx[s].dropped # 0
      BY <1>1, <3>1
    <3> QED
      BY <1>1, <2>1, <3>1, <3>2
  <2> QED
    BY <1>2, <1>3, <2>2, <2>3, <2>4, <2>5, <2>6, <2>7, <2>8, <2>9, <2>10, <2>11, <2>12,
       <2>13 DEF Pipeline, Feedback
<1> QED
  BY <1>3, <1>4, EvidenceGrows

(* Every step keeps the net of the evidence. *)
LEMMA NetStep ==
    ASSUME Alone
    PROVE  ReviewTypeOK /\ Loaded /\ NetInv /\ WaitInv /\ [Next]_vars => NetInv'
<1> SUFFICES ASSUME ReviewTypeOK, Loaded, NetInv, WaitInv, [Next]_vars PROVE NetInv'
  OBVIOUS
<1>1. ASSUME NEW s \in Session, Pipeline(s) \/ Feedback(s) \/ Commit(s) \/ Rollback(s)
      PROVE  NetInv'
  <2>1. \A t \in Session : Books(t)'
    BY <1>1, BooksStep, BooksOfOthers
  <2>2. NetZero'
    <3>1. CASE evidence' = evidence
      BY <3>1 DEF NetInv, NetZero, Remaining
    <3>2. CASE Commit(s)
      <4>1. ASSUME NEW i \in DOMAIN evidence, ~evidence'[i].active
            PROVE  Remaining(i)' = 0
        <5>1. CASE i = tx[s].dropped
          BY <3>2, <5>1, CommittedRow
        <5>2. CASE i # tx[s].dropped
          <6>1. ~evidence[i].active /\ Remaining(i)' = Remaining(i)
            BY <3>2, <4>1, <5>2, CommittedRow
          <6> QED
            BY <6>1 DEF NetInv, NetZero
        <5> QED
          BY <5>1, <5>2
      <4>2. ASSUME NEW i \in DOMAIN Settled(s) \ DOMAIN evidence
            PROVE  Settled(s)[i].active
        <5>1. \A k \in DOMAIN tx[s].draft : tx[s].draft[k].active
          BY DEF NetInv, Books
        <5> QED
          BY <4>2, <5>1, SettledRows
      <4>3. evidence' = Settled(s)
        BY <3>2 DEF Commit
      <4> QED
        BY <4>1, <4>2, <4>3 DEF NetZero
    <3> QED
      BY <1>1, <3>1, <3>2, EvidenceGrows
  <2> QED
    BY <1>1, <2>1, <2>2, OneClaimStep DEF NetInv
<1>2. CASE Fade \/ Done \/ UNCHANGED vars
  BY <1>2 DEF Fade, Done, vars, NetInv, NetZero, OneClaim, Books, Remaining
<1> QED
  BY <1>1, <1>2 DEF Next

(* A session that is not the writer becomes it when nobody else is. *)
LEMMA BecomesWriter ==
    ASSUME ReviewTypeOK, NetInv, WaitInv,
           NEW s \in Session, Pipeline(s) \/ Feedback(s) \/ Commit(s) \/ Rollback(s),
           ~Writing(s), Writing(s)', NEW t \in Session, t # s
    PROVE  ~Writing(t)
<1>1. lock \in [Session -> {"none", "share", "write", "full"}]
  BY DEF ReviewTypeOK
<1>2. Books(s) /\ Writes(s)
  BY DEF NetInv, WaitInv
<1> USE DEF Free, Blockers, Others
<1>3. CASE Link(s)
  BY <1>3 DEF Link, Writing
<1>4. CASE Classify(s) \/ Touch(s)
  BY <1>4 DEF Classify, Touch, Writing
<1>5. CASE Record(s)
  BY <1>5 DEF Record, Writing
<1>6. CASE Post(s)
  BY <1>2, <1>6 DEF Post, Books, Writes, At
<1>7. CASE Commit(s) \/ Rollback(s)
  BY <1>1, <1>7 DEF Commit, Rollback, Close, Writing
<1>8. CASE lock' = lock
  BY <1>8 DEF Writing
<1> QED
  BY <1>3, <1>4, <1>5, <1>6, <1>7, <1>8
     DEF Pipeline, Feedback, Match, Resume, Replay, PreCheck, PostCheck, GiveUp, Hold, Keep,
         Score, Supersede, Claim, Reverse, Insert, Credit, Review, LoadEvidence, Prior, Amend

(* A step of a session leaves it the writer if it works behind the lock.   *)
LEMMA WritesStep ==
    ASSUME Alone, ReviewTypeOK, Fresh, NetInv, NetInv', WaitInv,
           NEW s \in Session, Pipeline(s) \/ Feedback(s) \/ Commit(s) \/ Rollback(s)
    PROVE  Writes(s)'
<1>1. /\ lock \in [Session -> {"none", "share", "write", "full"}]
      /\ tx[s] \in Txs /\ tx \in [Session -> Txs]
  BY DEF ReviewTypeOK
<1>2. Writes(s) /\ Books(s) /\ Books(s)'
  BY DEF WaitInv, NetInv
<1> USE DEF Writes, Behind, Work
<1>3. CASE Match(s) \/ Resume(s) \/ Replay(s) \/ Review(s)
  <2>1. tx'[s].trend = FALSE
    BY <1>1, <1>3 DEF Match, Resume, Replay, Review, NewTx
  <2>2. lock' = lock
    BY <1>3 DEF Match, Resume, Replay, Review
  <2> QED
    BY <1>2, <1>3, <2>1, <2>2, Begins
<1>4. CASE PreCheck(s) \/ PostCheck(s) \/ GiveUp(s)
  <2>1. lock' = lock /\ tx'[s].trend = tx[s].trend
    BY <1>1, <1>4 DEF PreCheck, PostCheck, GiveUp, Go, Txs
  <2> QED
    BY <1>2, <1>4, <2>1, Moves DEF Writing
<1>5. CASE Link(s) \/ Classify(s) \/ Touch(s)
  <2>1. lock'[s] \in {"write", "full"}
    BY <1>1, <1>5 DEF Link, Classify, Touch, Lock
  <2> QED
    BY <2>1 DEF Writing
<1>6. CASE Record(s)
  <2>1. /\ tx'[s].trend = tx[s].trend /\ tx'[s].pc = Following(s)
        /\ tx'[s].dropped = 0 /\ tx'[s].draft = tx[s].draft /\ tx[s].pc = "record"
    BY <1>1, <1>2, <1>6, Feeds DEF Record, Txs, Books, Early, At
  <2>2. lock'[s] = lock[s] \/ lock'[s] \in {"write", "full"}
    BY <1>1, <1>6 DEF Record, Lock
  <2>3. CASE tx[s].seen = 0
    <3>1. tx'[s].pc = "touch"
      BY <2>1, <2>3 DEF Following
    <3> QED
      BY <1>2, <2>1, <2>2, <3>1 DEF Writing
  <2>4. CASE tx[s].seen # 0
    <3>1. s \in Invalidators
      BY <1>2, <2>1, <2>4 DEF Books, Early
    <3>2. Retracts(s)
      BY <2>1, <3>1 DEF Retracts, Fresh
    <3>3. lock'[s] \in {"write", "full"}
      BY <1>1, <1>2, <1>6, <3>2 DEF Record, Lock
    <3> QED
      BY <3>3 DEF Writing
  <2> QED
    BY <2>3, <2>4
<1>7. CASE \/ Hold(s) \/ Keep(s) \/ Score(s) \/ Supersede(s)
           \/ Claim(s) \/ Reverse(s) \/ Insert(s) \/ Credit(s)
  <2>1. lock' = lock /\ tx[s].pc \in Behind
    BY <1>7 DEF Hold, Keep, Score, Supersede, Claim, Reverse, Insert, Credit, At
  <2> QED
    BY <1>2, <2>1 DEF Writing
<1>8. CASE LoadEvidence(s)
  <2>1. lock' = lock /\ tx'[s].trend = tx[s].trend
    <3>1. lock' = lock
      BY <1>8 DEF LoadEvidence
    <3>2. CASE Go(s, IF s \in Restaters THEN "ready" ELSE "record")
      BY <1>1, <3>1, <3>2 DEF Go, Txs
    <3>3. CASE \E i \in ActiveRows, c \in IF s \in Restaters THEN Deltas ELSE {0} :
                 tx' = [tx EXCEPT ![s].pc = "record", ![s].seen = i, ![s].comp = c]
      BY <1>1, <3>1, <3>3 DEF Txs
    <3> QED
      BY <1>8, <3>1, <3>2, <3>3 DEF LoadEvidence
  <2>2. /\ tx'[s].pc \in {"ready", "record"}
        /\ tx'[s].dropped = tx[s].dropped /\ tx'[s].draft = tx[s].draft
    BY <1>8, Feeds
  <2> QED
    BY <1>2, <2>1, <2>2 DEF Writing
<1>9. CASE Prior(s) \/ Amend(s)
  <2>1. lock' = lock /\ tx[s].pc \in Behind
    BY <1>9 DEF Prior, Amend, At
  <2> QED
    BY <1>2, <2>1 DEF Writing
<1>10. CASE Post(s)
  <2>1. lock[s] \in {"write", "full"}
    BY <1>2, <1>10 DEF Post, At, Writing
  <2>2. lock'[s] = lock[s]
    BY <1>1, <1>10, <2>1 DEF Post, Lock
  <2> QED
    BY <2>1, <2>2 DEF Writing
<1>11. CASE Commit(s) \/ Rollback(s)
  <2>1. Close(s)
    BY <1>11 DEF Commit, Rollback
  <2>2. lock'[s] = "none"
    BY <1>1, <2>1 DEF Close
  <2>3. tx'[s] = [NewTx("over") EXCEPT !.mem = Blank, !.snap = Blank.epi, !.late = FALSE]
    BY <1>1, <2>1 DEF Close
  <2>4. tx'[s].trend = FALSE
    BY <2>3 DEF NewTx
  <2> QED
    BY <1>11, <2>2, <2>4, Ends
<1> QED
  BY <1>3, <1>4, <1>5, <1>6, <1>7, <1>8, <1>9, <1>10, <1>11 DEF Pipeline, Feedback

(* Every step keeps the event's row to one writer. *)
LEMMA WaitStep ==
    ASSUME Alone
    PROVE  ReviewTypeOK /\ Fresh /\ NetInv /\ NetInv' /\ WaitInv /\ [Next]_vars => WaitInv'
<1> SUFFICES ASSUME ReviewTypeOK, Fresh, NetInv, NetInv', WaitInv, [Next]_vars PROVE WaitInv'
  OBVIOUS
<1>1. ASSUME NEW s \in Session, Pipeline(s) \/ Feedback(s) \/ Commit(s) \/ Rollback(s)
      PROVE  WaitInv'
  <2>1. \A t \in Session : t # s => tx'[t] = tx[t] /\ lock'[t] = lock[t]
    BY <1>1, OwnTx, OwnLock
  <2>2. \A t \in Session : t # s => Writes(t)'
    BY <2>1 DEF WaitInv, Writes, Writing
  <2>3. Writes(s)'
    BY <1>1, WritesStep
  <2>4. \A t \in Session : t # s => ~(Writing(s)' /\ Writing(t)')
    <3>1. \A t \in Session : t # s => Writing(t)' = Writing(t)
      BY <2>1 DEF Writing
    <3>2. Writing(s) => \A t \in Session : t # s => ~Writing(t)
      BY DEF WaitInv, OneWriter
    <3>3. ~Writing(s) /\ Writing(s)' => \A t \in Session : t # s => ~Writing(t)
      BY <1>1, BecomesWriter
    <3> QED
      BY <3>1, <3>2, <3>3
  <2>5. OneWriter'
    BY <2>1, <2>4 DEF WaitInv, OneWriter, Writing
  <2> QED
    BY <2>2, <2>3, <2>5 DEF WaitInv
<1>2. CASE Fade \/ Done \/ UNCHANGED vars
  BY <1>2 DEF Fade, Done, vars, WaitInv, OneWriter, Writes, Writing
<1> QED
  BY <1>1, <1>2 DEF Next

(* The inductive invariant of both theorems. *)
HeldInv == Loaded /\ Fresh /\ NetInv /\ WaitInv

(* Nothing is invalidated, claimed or locked in the beginning. *)
LEMMA HeldInit == Init => HeldInv
<1> SUFFICES ASSUME Init PROVE HeldInv
  OBVIOUS
<1>1. ASSUME NEW s \in Session
      PROVE  /\ HasLoaded(s) /\ Books(s) /\ tx[s].dropped = 0
             /\ Writes(s) /\ ~Writing(s)
             /\ tx[s].mem.epi = "emerging" /\ tx[s].snap = "emerging"
             /\ image[s].epi = "emerging"
  <2>1. tx[s] = NewTx("idle") /\ lock[s] = "none" /\ image[s] = Blank
    BY DEF Init
  <2>2. /\ tx[s].draft = <<>> /\ tx[s].seen = 0 /\ tx[s].dropped = 0
        /\ tx[s].comp = 0 /\ tx[s].then = "ready" /\ tx[s].pc = "idle"
        /\ tx[s].trend = FALSE /\ tx[s].mem = event /\ tx[s].snap = event.epi
    BY <2>1 DEF NewTx
  <2>3. DOMAIN tx[s].draft = {}
    BY <2>2
  <2>4. HasLoaded(s) /\ Books(s)
    BY <2>2, <2>3 DEF HasLoaded, Books
  <2>5. Writes(s) /\ ~Writing(s)
    BY <2>1, <2>2 DEF Writes, Writing, Behind
  <2>6. event.epi = "emerging" /\ Blank.epi = "emerging"
    BY DEF Init, Blank
  <2> QED
    BY <2>1, <2>2, <2>4, <2>5, <2>6
<1>2. NetZero
  BY DEF Init, NetZero, Row
<1>3. Fresh
  <2>1. event.epi = "emerging"
    BY DEF Init
  <2> QED
    BY <1>1, <2>1 DEF Fresh, Others
<1> QED
  BY <1>1, <1>2, <1>3 DEF HeldInv, Loaded, NetInv, OneClaim, WaitInv, OneWriter

(* Every step keeps it. *)
LEMMA HeldStep ==
    ASSUME Alone
    PROVE  ReviewTypeOK /\ HeldInv /\ [Next]_vars => HeldInv'
BY LoadedStep, FreshStep, NetStep, WaitStep DEF HeldInv

(* Evidence that has been invalidated contributes nothing, for any number  *)
(* of workers and replays, with any number of mark_noise or with one       *)
(* invalidation: the claim of reconcile_event_trend_impacts, or the lock   *)
(* on the event the invalidation has retracted, lets one session reverse a *)
(* row, and no compensation of it can be committed in between.             *)
THEOREM ReversedOnce == Alone => (Spec => []NetZero)
<1> SUFFICES ASSUME Alone PROVE Spec => []NetZero
  OBVIOUS
<1>1. HeldInv => NetZero
  BY DEF HeldInv, NetInv
<1> QED
  BY <1>1, HeldInit, HeldStep, ReviewTypeCorrect, PTL DEF Spec

(* Workers, replays and mark_noise, however many, or workers, replays and  *)
(* one invalidation never wait for each other in a circle: what they wait  *)
(* for is held by the one that has written the event's row                 *)
(* (merge_item_into_event, classify_event, or the retraction).             *)
THEOREM OneWaitsForWriter == Alone => (Spec => []NoLockCycle)
<1> SUFFICES ASSUME Alone PROVE Spec => []NoLockCycle
  OBVIOUS
<1>1. ReviewTypeOK /\ HeldInv => NoLockCycle
  <2> SUFFICES ASSUME ReviewTypeOK, HeldInv,
                      NEW waiting \in (SUBSET Session) \ {{}},
                      \A s \in waiting : Blockers(s) \cap waiting # {}
               PROVE  FALSE
    BY DEF NoLockCycle
  <2>1. ASSUME NEW s \in waiting, NEW t \in Blockers(s)
        PROVE  t # s /\ t \in Session /\ Writing(t)
    <3>1. t \in Session /\ t # s
      BY DEF Blockers, Others
    <3>2. Writes(t) /\ HasLoaded(s) /\ lock[t] \in {"none", "share", "write", "full"}
      BY <3>1 DEF HeldInv, WaitInv, Loaded, ReviewTypeOK
    <3>3. tx[s].pc \in {"claim", "amend"} => tx[s].seen # 0
      BY <3>2 DEF HasLoaded
    <3>4. \/ lock[t] # "none" \/ Writing(t) \/ tx[t].draft # <<>> \/ tx[t].trend
          \/ tx[s].pc \in {"claim", "amend"} /\ tx[t].dropped = tx[s].seen
      BY DEF Blockers, At
    <3> QED
      BY <3>1, <3>2, <3>3, <3>4 DEF Writes, Writing
  <2>2. \A s \in waiting : \E t \in waiting : t # s /\ Writing(t)
    BY <2>1
  <2>3. \A s, t \in waiting : Writing(s) /\ Writing(t) => s = t
    BY DEF HeldInv, WaitInv, OneWriter
  <2> QED
    BY <2>2, <2>3
<1> QED
  BY <1>1, HeldInit, HeldStep, ReviewTypeCorrect, PTL DEF Spec
=============================================================================
