------------------------- MODULE MCTrendProjection -------------------------
(* Small instances of TrendProjection for TLC. *)
EXTENDS TrendProjection

(* A half-life of one time unit; the deltas below stay whole when halved.  *)
MCLeft == [n \in 0..MaxTime |-> Scale \div 2^n]
MCDeltas == {-16, 32}

(* Transactions that take no time: the clock moves between them only.      *)
Prompt == now' # now => \A s \in Session : tx[s].pc = "idle"
=============================================================================
