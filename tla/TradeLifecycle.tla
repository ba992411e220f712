--------------------------- MODULE TradeLifecycle ---------------------------
(***************************************************************************)
(* What the execution of a trade intent promises, whatever crashes and     *)
(* whoever finishes the job: an order is durable before it can execute, is *)
(* executed at most once, and ends either recorded, if it was executed, or *)
(* void, if it never was and never will be.  Only an order that expired    *)
(* after a part of it had been bought may end either way.                  *)
(***************************************************************************)
CONSTANT Orders

VARIABLE stage

Stages == {"none", "intended", "executed", "expired", "recorded", "void"}

Init == stage = [o \in Orders |-> "none"]

\* A durable row is written.
Intend(o) == stage[o] = "none" /\ stage' = [stage EXCEPT ![o] = "intended"]

\* The exchange executes the order, or a part of it before it expires.
Execute(o) ==
    /\ stage[o] = "intended"
    /\ \E how \in {"executed", "expired"} : stage' = [stage EXCEPT ![o] = how]

\* How an order may end.
Ends(o) ==
    CASE stage[o] = "intended" -> {"void"}
      [] stage[o] = "executed" -> {"recorded"}
      [] stage[o] = "expired"  -> {"recorded", "void"}
      [] OTHER                 -> {}

\* Executions reach the database, and orders that will not execute are given
\* up: one transaction may settle several orders.
Settle(S) ==
    /\ S # {}
    /\ \E end \in [S -> {"recorded", "void"}] :
        /\ \A o \in S : end[o] \in Ends(o)
        /\ stage' = [o \in Orders |-> IF o \in S THEN end[o] ELSE stage[o]]

Next ==
    \/ \E o \in Orders : Intend(o) \/ Execute(o)
    \/ \E S \in SUBSET Orders : Settle(S)

Spec == Init /\ [][Next]_stage

\* Every intention is settled: what is executed is recorded in the end.
Settles ==
    \A o \in Orders :
        stage[o] \in {"intended", "executed", "expired"} ~> stage[o] \in {"recorded", "void"}
=============================================================================
