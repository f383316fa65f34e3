--------------------------- MODULE MCTrendWrites ---------------------------
(* Small instances of TrendWrites for TLC. *)
EXTENDS TrendWrites

(* A half-life of one time unit; the deltas below stay whole when halved.  *)
MCLeft == [n \in 0..MaxTime |-> Scale \div 2^n]
MCDeltas == {-16, 32}
=============================================================================
