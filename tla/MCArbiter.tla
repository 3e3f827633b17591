----------------------------- MODULE MCArbiter -----------------------------
(* Small instances of the arbiter for TLC.                                 *)
EXTENDS Arbiter

CONSTANTS x1, k1, t1, t2
=============================================================================
