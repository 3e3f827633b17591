--------------------------- MODULE MCJobRegistry ---------------------------
(* Small instances of the job registry for TLC.                            *)
EXTENDS JobRegistry

CONSTANTS j1, j2, p1, p2
=============================================================================
