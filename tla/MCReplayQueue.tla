---------------------------- MODULE MCReplayQueue ----------------------------
(* Small instances of ReplayQueue for TLC.                                 *)
EXTENDS ReplayQueue, TLC

CONSTANTS e1, e2, w1, w2

Alike == Permutations({w1, w2}) \cup Permutations({e1, e2})
=============================================================================
