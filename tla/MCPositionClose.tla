--------------------------- MODULE MCPositionClose ---------------------------
(* Small instances of PositionClose.                                          *)
EXTENDS PositionClose, TLC

CONSTANTS p1, p2, m1, m2, r1, r2

Symmetric == Permutations(Positions) \cup Permutations(Monitors)
                \cup Permutations(Requests)
=============================================================================
