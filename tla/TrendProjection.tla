-------------------------- MODULE TrendProjection --------------------------
(***************************************************************************)
(* The audit of the live value: build_trend_projection_check recomputes a  *)
(* trend from the ledger alone, and the caller compares it with the stored *)
(* current_log_odds.                                                       *)
(***************************************************************************)
EXTENDS TrendWrites, SequencesExt

(* The ledger rows that name a state version, recorded up to an instant,   *)
(* in chronological order.                                                 *)
Chronicle(line, upto) ==
    SortSeq(SelectSeq(ledger, LAMBDA e : e.line = line /\ e.at <= upto),
            LAMBDA e, f : e.at < f.at)

(* One entry of the recomputation: decay up to the entry, add its delta. *)
Advance(point, entry) ==
    [lo |-> Decayed(point.lo, point.at, entry.at) + entry.delta, at |-> entry.at]

(* The value of the active version recomputed from its starting value, as  *)
(* of the row's updated_at.                                                *)
Projected ==
    LET v == row.line
        last == FoldLeft(Advance, [lo |-> row.start[v], at |-> row.born[v]],
                         Chronicle(v, row.upd)) IN
    Decayed(last.lo, last.at, row.upd)

(* The deltas applied under the name of a version, added up. *)
Applied(entries, line) ==
    SumFunction([i \in DOMAIN entries |->
        IF entries[i].line = line /\ entries[i].effect = "applied"
        THEN entries[i].delta ELSE 0])

PostedTo(line) == Applied(ledger, line)

(* Projection contract (DATA_MODEL): the ledger alone rebuilds the stored  *)
(* current_log_odds of the trend.                                          *)
ProjectionMatches == Projected = row.lo

(* A state version's stored value is its starting value plus the deltas of *)
(* the evidence and restatement rows applied under its name, whatever      *)
(* activations and other writers ran meanwhile: a session that still works *)
(* on a retired version keeps that version's row and ledger in step, and a *)
(* later restatement leaves a version frozen that its session knows to be  *)
(* retired.  (While the clock stands still, so that nothing decays.)       *)
LineBooked ==
    \A v \in 1..allocated : row.mirror[v] = row.start[v] + PostedTo(v)
=============================================================================
