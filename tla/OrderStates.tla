---------------------------- MODULE OrderStates ----------------------------
(***************************************************************************)
(* The state machines of domain/state_machine.py, over the status strings  *)
(* that the orders and positions tables store.                             *)
(***************************************************************************)

OrderStatuses ==
    {"PENDING", "VALIDATED", "SIZED", "PENDING_APPROVAL", "SUBMITTED",
     "SUBMITTING", "PARTIALLY_FILLED", "FILLED", "CANCELLED", "REJECTED",
     "EXPIRED"}

OrderTransitions(status) ==
    CASE status = "PENDING"          -> {"VALIDATED", "REJECTED"}
      [] status = "VALIDATED"        -> {"SIZED", "REJECTED"}
      [] status = "SIZED"            -> {"PENDING_APPROVAL", "SUBMITTED",
                                         "REJECTED", "CANCELLED"}
      [] status = "PENDING_APPROVAL" -> {"SUBMITTED", "REJECTED", "EXPIRED"}
      [] status = "SUBMITTED"        -> {"SUBMITTING", "PARTIALLY_FILLED",
                                         "FILLED", "CANCELLED", "EXPIRED"}
      [] status = "SUBMITTING"       -> {"FILLED", "PARTIALLY_FILLED",
                                         "REJECTED", "CANCELLED"}
      [] status = "PARTIALLY_FILLED" -> {"FILLED", "CANCELLED"}
      [] OTHER                       -> {}

PositionStatuses == {"OPEN", "PARTIALLY_CLOSED", "CLOSED", "STOPPED_OUT"}

PositionTransitions(status) ==
    CASE status = "OPEN"             -> {"PARTIALLY_CLOSED", "CLOSED",
                                         "STOPPED_OUT"}
      [] status = "PARTIALLY_CLOSED" -> {"CLOSED", "STOPPED_OUT"}
      [] OTHER                       -> {}
=============================================================================
