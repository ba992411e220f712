--------------------------- MODULE MCApprovalFlow ---------------------------
(* Small instances of ApprovalFlow.  Amounts are scaled so that one tick of  *)
(* slippage makes the second order of a batch too dear for the balance.      *)
EXTENDS ApprovalFlow

CONSTANTS a1, a2, r1

OneOrder == {1}
TwoOrders == {1, 2}
=============================================================================
