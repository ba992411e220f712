--------------------------- MODULE MCSystemStatus ---------------------------
(* Small instances of SystemStatus.                                          *)
EXTENDS SystemStatus, TLC

CONSTANTS r1, r2, r3

Symmetric == Permutations(Runs)
=============================================================================
