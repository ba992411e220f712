--------------------------- MODULE MCOrderDelivery ---------------------------
(* Values for TLC: an order is filled in part, or expires with or without    *)
(* having bought something.                                                  *)
EXTENDS OrderDelivery, TLC

MCExecutions ==
    { [status |-> "PARTIALLY_FILLED", quantity |-> 1],
      [status |-> "EXPIRED", quantity |-> 0], [status |-> "EXPIRED", quantity |-> 1] }

Symmetric == Permutations(Orders)
==============================================================================
