---------------------------- MODULE SerialTrend ----------------------------
(***************************************************************************)
(* What the trend engine promises about one row of table "trends": its     *)
(* live log-odds value behaves as if the database transactions that write  *)
(* it ran one after the other.  A transaction drafts a new content of the  *)
(* row, one operation at a time and never while another draft is open;     *)
(* every operation is a function of the content it finds; the draft is     *)
(* then published as a whole or thrown away.                               *)
(***************************************************************************)
EXTENDS TrendDecay

CONSTANTS
    Session,        \* the transactions' identities
    Deltas,         \* the log-odds deltas evidence may carry
    Start           \* the initial content of the row

VARIABLES
    value,          \* [lo, upd]: the published content of the row
    drafting,       \* the set of sessions with an open draft
    draft           \* draft[s]: the content session s has drafted

svars == <<value, drafting, draft>>

Content == [lo : Int, upd : Times]

(* One piece of evidence: add its delta, stamp the row. *)
AddTo(c, delta, at) == [lo |-> c.lo + delta, upd |-> at]

(* One decay pass: bring the row forward to the instant at. *)
Age(c, at) ==
    IF at <= c.upd THEN c ELSE [lo |-> Decayed(c.lo, c.upd, at), upd |-> at]

(* One restatement: age the value, then add the compensation. *)
Restate(c, delta, at) ==
    [lo |-> Decayed(c.lo, c.upd, at) + delta, upd |-> at]

Legal(c) ==
    {AddTo(c, delta, at) : delta \in Deltas, at \in Times}
        \cup {Restate(c, delta, at) : delta \in Deltas, at \in Times}
        \cup {Age(c, at) : at \in Times}

SInit ==
    /\ value = Start
    /\ drafting = {}
    /\ draft = [s \in Session |-> Start]

Found(s) == IF s \in drafting THEN draft[s] ELSE value

Work(s) ==
    /\ drafting \subseteq {s}
    /\ draft' \in {[draft EXCEPT ![s] = c] : c \in Legal(Found(s))}
    /\ drafting' = {s}
    /\ UNCHANGED value

Publish(s) ==
    /\ s \in drafting
    /\ value' = draft[s]
    /\ drafting' = drafting \ {s}
    /\ draft' = [draft EXCEPT ![s] = Start]

Discard(s) ==
    /\ s \in drafting
    /\ drafting' = drafting \ {s}
    /\ draft' = [draft EXCEPT ![s] = Start]
    /\ UNCHANGED value

SNext == \E s \in Session : Work(s) \/ Publish(s) \/ Discard(s)

SSpec == SInit /\ [][SNext]_svars
=============================================================================
