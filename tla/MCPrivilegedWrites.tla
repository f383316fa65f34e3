------------------------- MODULE MCPrivilegedWrites -------------------------
(* Small instances of PrivilegedWrites for TLC.                            *)
EXTENDS PrivilegedWrites, TLC

CONSTANTS a, b, c   \* a and b share a key: b is the client's retry of a

MCKey == (a :> 1) @@ (b :> 1) @@ (c :> 2)
=============================================================================
