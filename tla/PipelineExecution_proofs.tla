---------------------- MODULE PipelineExecution_proofs ----------------------
(***************************************************************************)
(* Proofs about PipelineExecution for every set of orders, every balance,  *)
(* every price, and, unless a theorem says otherwise, whatever fails.      *)
(***************************************************************************)
EXTENDS PipelineExecution, PortfolioLedger_proofs

-----------------------------------------------------------------------------
(* What the rows and the fills are made of.                                *)

Row == [status : {"ABSENT"} \cup OrderStatuses, requested : Nat, filled : Nat]
Fill == [price : Nat, qty : Nat]

\* An execution is positive and not larger than the request.
LEMMA FillsType ==
  ASSUME NEW quantity \in Nat, NEW fill \in Fills(quantity)
  PROVE  fill \in Fill /\ fill.qty > 0 /\ fill.qty <= quantity
  <1>1. fill.price \in FillPrices /\ fill.qty \in 1 .. quantity
    BY DEF Fills
  <1>2. fill = [price |-> fill.price, qty |-> fill.qty]
    BY DEF Fills
  <1>3. fill.price \in Nat /\ fill.qty \in Nat /\ 0 < fill.qty
    <2>1. FillPrices \subseteq Nat
      BY PricesPositive
    <2>2. fill.price \in Nat
      BY <1>1, <2>1
    <2>3. fill.qty \in Nat /\ 0 < fill.qty
      BY <1>1
    <2> QED BY <2>2, <2>3
  <1>4. fill \in Fill
    BY <1>2, <1>3 DEF Fill
  <1> QED BY <1>1, <1>3, <1>4

\* The value of a fill is an amount.
LEMMA ValueType ==
  ASSUME NEW x, x.price \in Nat, x.qty \in Nat
  PROVE  Value(x) \in Int
  BY DEF Value

\* The rows the pipeline and the reconcilers write.
LEMMA FilledRowType ==
  ASSUME NEW o \in Orders, orders[o] \in Row,
         NEW fill, fill.qty \in Nat
  PROVE  /\ FilledRow(o, fill) \in Row
         /\ FilledRow(o, fill).status \in {"FILLED", "PARTIALLY_FILLED"}
         /\ FilledRow(o, fill).filled = fill.qty
  <1>1. FillStatus(o, fill) \in {"FILLED", "PARTIALLY_FILLED"}
    BY DEF FillStatus
  <1> HIDE DEF FillStatus
  <1> QED BY <1>1 DEF FilledRow, Row, OrderStatuses

LEMMA ReconciledType ==
  ASSUME NEW o \in Orders, orders[o] \in Row, exchange[o] \in Fill,
         NEW answer
  PROVE  /\ Reconciled(o, answer) \in Row
         /\ answer = "fill" => /\ Reconciled(o, answer).status = "FILLED"
                               /\ Reconciled(o, answer).filled = exchange[o].qty
         /\ answer = "cancel" =>
                /\ Reconciled(o, answer).status = "CANCELLED"
                /\ Reconciled(o, answer).filled = orders[o].filled
         /\ answer \notin {"fill", "cancel"} =>
                Reconciled(o, answer) = orders[o]
  <1>1. CASE answer = "fill"
    BY <1>1 DEF Reconciled, Row, Fill, OrderStatuses
  <1>2. CASE answer = "cancel"
    BY <1>2 DEF Reconciled, Row, OrderStatuses
  <1>3. CASE answer \notin {"fill", "cancel"}
    BY <1>3 DEF Reconciled
  <1> QED BY <1>1, <1>2, <1>3

-----------------------------------------------------------------------------
(* Type correctness.                                                       *)

\* Every reachable state is well typed: the type invariant is inductive.
THEOREM TypeCorrect == Spec => []TypeOK
  <1>1. Init => TypeOK
    <2> SUFFICES ASSUME Init PROVE TypeOK
      OBVIOUS
    <2>1. portfolio \in Portfolios
      BY BalanceNat, NewPortfolioSound DEF Init
    <2> QED
      BY <2>1, BoundsNat
      DEF Init, TypeOK, NoOrder, NoFill, NoPosition, OrderStatuses
  <1>2. TypeOK /\ [Next]_vars => TypeOK'
    <2> SUFFICES ASSUME TypeOK, [Next]_vars PROVE TypeOK'
      OBVIOUS
    <2>t. /\ orders \in [Orders -> Row]
          /\ positions \in [Orders -> [price : Nat, qty : Nat, oco : BOOLEAN]]
          /\ portfolio \in Portfolios
          /\ exchange \in [Orders -> Fill]
          /\ expired \subseteq Orders
          /\ sent \in [Orders -> BOOLEAN]
          /\ oco \in [Orders -> Nat]
          /\ status \in {"RUNNING", "HALTED"}
          /\ pc \in [Orders -> {"idle", "admitting", "submitting", "filled",
                                "protected", "unprotected", "done"}]
          /\ seen \in [Orders -> Int]
          /\ verdict \in [Orders -> {"none", "pending", "fill", "cancel",
                                     "error"}]
          /\ phase \in {"idle", "querying", "committing"}
          /\ connected \in BOOLEAN
          /\ up \in BOOLEAN
          /\ restarts \in 0 .. MaxRestarts
      BY DEF TypeOK, Row, Fill
    <2> USE <2>t DEF database, remote, run, recon, host
    <2>1. ASSUME NEW o \in Orders, CheckStatus(o) PROVE TypeOK'
      BY <2>1 DEF CheckStatus, Goto, TypeOK
    <2>2. ASSUME NEW o \in Orders, RejectIntent(o) PROVE TypeOK'
      BY <2>2 DEF RejectIntent, Goto, TypeOK
    <2>3. ASSUME NEW o \in Orders, AcceptIntent(o) PROVE TypeOK'
      <3>1. PICK quantity \in Sizes :
                orders' = [orders EXCEPT ![o] = SubmittingRow(quantity)]
        BY <2>3 DEF AcceptIntent
      <3>2. SubmittingRow(quantity) \in Row
        BY SizesPositive DEF SubmittingRow, Row, OrderStatuses
      <3>3. orders' \in [Orders -> Row]
        BY <3>1, <3>2
      <3>4. portfolio.available \in Int
        BY DEF Portfolios
      <3> QED BY <2>3, <3>3, <3>4 DEF AcceptIntent, Goto, TypeOK, Row
    <2>4. ASSUME NEW o \in Orders, SubmitReturns(o) PROVE TypeOK'
      BY <2>4 DEF SubmitReturns, Goto, TypeOK
    <2>5. ASSUME NEW o \in Orders, SubmitFails(o) PROVE TypeOK'
      BY <2>5 DEF SubmitFails, Goto, TypeOK
    <2>6. ASSUME NEW o \in Orders, PositionRowRefused(o) PROVE TypeOK'
      BY <2>6 DEF PositionRowRefused, Goto, TypeOK
    <2>7. ASSUME NEW o \in Orders, PlaceOco(o) PROVE TypeOK'
      <3>1. exchange[o].qty \in Nat
        BY DEF Fill
      <3>2. PICK quantity \in Nat : oco' = [oco EXCEPT ![o] = quantity]
        BY <2>7, <3>1 DEF PlaceOco, ProtectedQty
      <3>3. oco' \in [Orders -> Nat]
        BY <3>2
      <3> QED BY <2>7, <3>3 DEF PlaceOco, Goto, TypeOK
    <2>8. ASSUME NEW o \in Orders, CommitFill(o)
          PROVE  /\ orders' \in [Orders -> Row]
                 /\ positions' \in [Orders -> [price : Nat, qty : Nat,
                                               oco : BOOLEAN]]
      <3>1. FilledRow(o, exchange[o]) \in Row
        BY FilledRowType DEF Fill
      <3>2. PositionRow(exchange[o], pc[o] = "protected")
                \in [price : Nat, qty : Nat, oco : BOOLEAN]
        BY DEF PositionRow, Fill
      <3> QED BY <2>8, <3>1, <3>2 DEF CommitFill
    <2>9. ASSUME NEW o \in Orders, Book(o) PROVE TypeOK'
      <3>1. Value(exchange[o]) \in Int
        BY ValueType DEF Fill
      <3>2. portfolio' \in Portfolios
        BY <2>9, <3>1, RecordFillSound DEF Book, Debited
      <3> QED BY <2>8, <2>9, <3>2 DEF Book, Finish, Goto, TypeOK, Row
    <2>10. ASSUME NEW o \in Orders, RecordFillRefused(o) PROVE TypeOK'
      BY <2>8, <2>10 DEF RecordFillRefused, Finish, Goto, TypeOK, Row
    <2>11. ASSUME NEW o \in Orders, PortfolioRowRefused(o) PROVE TypeOK'
      BY <2>11 DEF PortfolioRowRefused, Finish, Goto, TypeOK
    <2>12. ASSUME NEW o \in Orders, ExchangeFills(o) PROVE TypeOK'
      <3>1. orders[o].requested \in Nat
        BY DEF Row
      <3>2. PICK fill \in Fills(orders[o].requested) :
                exchange' = [exchange EXCEPT ![o] = fill]
        BY <2>12 DEF ExchangeFills
      <3>3. exchange' \in [Orders -> Fill]
        BY <3>1, <3>2, FillsType
      <3> QED BY <2>12, <3>3 DEF ExchangeFills, TypeOK, Fill
    <2>13. ASSUME NEW o \in Orders, RequestExpires(o) PROVE TypeOK'
      BY <2>13 DEF RequestExpires, TypeOK
    <2>14. CASE ReconSelect
      BY <2>14 DEF ReconSelect, TypeOK
    <2>15. ASSUME NEW o \in Orders, ReconQuery(o) PROVE TypeOK'
      BY <2>15 DEF ReconQuery, Answers, TypeOK
    <2>16. CASE ReconFlush
      BY <2>16 DEF ReconFlush, TypeOK
    <2>17. CASE ReconCommit
      <3>1. orders' \in [Orders -> Row]
        BY <2>17, ReconciledType DEF ReconCommit
      <3> QED BY <2>17, <3>1 DEF ReconCommit, TypeOK, Row
    <2>18. CASE OperatorHalt
      BY <2>18 DEF OperatorHalt, TypeOK
    <2>19. CASE OperatorResume
      BY <2>19 DEF OperatorResume, TypeOK
    <2>20. CASE Crash
      <3>1. restarts' \in 0 .. MaxRestarts
        BY <2>20, BoundsNat DEF Crash
      <3>2. pc' \in [Orders -> {"idle", "admitting", "submitting", "filled",
                                "protected", "unprotected", "done"}]
        BY <2>20 DEF Crash
      <3>3. verdict' \in [Orders -> {"none", "pending", "fill", "cancel",
                                     "error"}]
        BY <2>20 DEF Crash
      <3> QED BY <2>20, <3>1, <3>2, <3>3 DEF Crash, TypeOK
    <2>21. CASE Restart
      <3>1. orders' \in [Orders -> Row]
        BY <2>21, ReconciledType DEF Restart
      <3>2. connected' \in BOOLEAN
        BY <2>21, ModesBoolean DEF Restart
      <3> QED BY <2>21, <3>1, <3>2 DEF Restart, TypeOK, Row
    <2>22. CASE UNCHANGED vars
      BY <2>22 DEF vars, TypeOK
    <2> QED
      BY <2>1, <2>2, <2>3, <2>4, <2>5, <2>6, <2>7, <2>9, <2>10, <2>11, <2>12,
         <2>13, <2>14, <2>15, <2>16, <2>17, <2>18, <2>19, <2>20, <2>21, <2>22
      DEF Next, PipelineStep, ExchangeStep, ReconcilerStep, HostStep
  <1> QED BY <1>1, <1>2, PTL DEF Spec
-----------------------------------------------------------------------------
(* The life of one order.                                                  *)

\* The three safety properties about an order are not inductive.  What makes
\* them so is where the run stands: a run that has not accepted its intent has
\* no row, one that is with its fill has been executed, a position ends the
\* run, a request in flight has not been executed, what expired after a part
\* of it has, a run that knows its OCO has one, and the reconciler only holds
\* verdicts about rows, a "fill" only of what was executed.
OrderInv(o) ==
    /\ orders[o].status = "ABSENT" =>
            ~sent[o] /\ exchange[o].qty = 0 /\ oco[o] = 0
    /\ o \in expired => exchange[o].qty > 0
    /\ pc[o] = "protected" => oco[o] > 0
    /\ pc[o] \in {"idle", "admitting"} => orders[o].status = "ABSENT"
    /\ pc[o] \in {"submitting", "filled", "protected", "unprotected"} =>
            orders[o].status # "ABSENT"
    /\ pc[o] \in {"filled", "protected", "unprotected"} => exchange[o].qty > 0
    /\ positions[o].qty > 0 => pc[o] = "done"
    /\ sent[o] => exchange[o].qty = 0
    /\ verdict[o] # "none" => orders[o].status # "ABSENT"
    /\ verdict[o] = "fill" => exchange[o].qty > 0
    /\ orders[o].status \in {"FILLED", "PARTIALLY_FILLED"} =>
            exchange[o].qty > 0
    /\ orders[o].filled \in {0, exchange[o].qty}
    /\ positions[o].qty > 0 => /\ positions[o].price = exchange[o].price
                               /\ positions[o].qty = exchange[o].qty
                               /\ positions[o].oco => oco[o] > 0
    /\ oco[o] <= exchange[o].qty

OrdersInv == \A o \in Orders : OrderInv(o)

LEMMA OrdersInvInit == Init => OrdersInv
  BY DEF Init, OrdersInv, OrderInv, NoOrder, NoFill, NoPosition

LEMMA OrdersInvStep == TypeOK /\ OrdersInv /\ [Next]_vars => OrdersInv'
  <1> SUFFICES ASSUME TypeOK, OrdersInv, [Next]_vars,
                      NEW q \in Orders
               PROVE  OrderInv(q)'
    BY DEF OrdersInv
  <1>t. /\ orders \in [Orders -> Row]
        /\ positions \in [Orders -> [price : Nat, qty : Nat, oco : BOOLEAN]]
        /\ exchange \in [Orders -> Fill]
        /\ expired \subseteq Orders
        /\ sent \in [Orders -> BOOLEAN]
        /\ oco \in [Orders -> Nat]
        /\ pc \in [Orders -> {"idle", "admitting", "submitting", "filled",
                              "protected", "unprotected", "done"}]
        /\ verdict \in [Orders -> {"none", "pending", "fill", "cancel",
                                   "error"}]
    BY DEF TypeOK, Row, Fill
  <1>i. OrderInv(q)
    BY DEF OrdersInv
  <1> USE DEF database, remote, run, recon, host, Executed, Opened
  <1>1. ASSUME NEW o \in Orders, CheckStatus(o) PROVE OrderInv(q)'
    BY <1>t, <1>i, <1>1 DEF CheckStatus, Goto, OrderInv
  <1>2. ASSUME NEW o \in Orders, RejectIntent(o) PROVE OrderInv(q)'
    BY <1>t, <1>i, <1>2 DEF RejectIntent, Goto, OrderInv
  <1>3. ASSUME NEW o \in Orders, AcceptIntent(o) PROVE OrderInv(q)'
    <2>1. PICK quantity \in Sizes :
              orders' = [orders EXCEPT ![o] = SubmittingRow(quantity)]
      BY <1>3 DEF AcceptIntent
    <2>2. /\ SubmittingRow(quantity).status = "SUBMITTING"
          /\ SubmittingRow(quantity).filled = 0
      BY DEF SubmittingRow
    <2>3. q # o => orders'[q] = orders[q]
      BY <1>t, <2>1
    <2>4. q = o => orders'[q] = SubmittingRow(quantity)
      BY <1>t, <2>1
    <2> HIDE DEF SubmittingRow
    <2>5. CASE q = o
      BY <1>t, <1>i, <1>3, <2>2, <2>4, <2>5 DEF AcceptIntent, Goto, OrderInv
    <2>6. CASE q # o
      BY <1>t, <1>i, <1>3, <2>3, <2>6 DEF AcceptIntent, Goto, OrderInv
    <2> QED BY <2>5, <2>6
  <1>4. ASSUME NEW o \in Orders, SubmitReturns(o) PROVE OrderInv(q)'
    BY <1>t, <1>i, <1>4 DEF SubmitReturns, Goto, OrderInv
  <1>5. ASSUME NEW o \in Orders, SubmitFails(o) PROVE OrderInv(q)'
    BY <1>t, <1>i, <1>5 DEF SubmitFails, Goto, OrderInv
  <1>6. ASSUME NEW o \in Orders, PositionRowRefused(o) PROVE OrderInv(q)'
    BY <1>t, <1>i, <1>6 DEF PositionRowRefused, Goto, OrderInv
  <1>7. ASSUME NEW o \in Orders, PlaceOco(o) PROVE OrderInv(q)'
    <2>1. exchange[o].qty \in Nat
      BY <1>t DEF Fill
    <2> QED BY <1>t, <1>i, <1>7, <2>1
            DEF PlaceOco, ProtectedQty, Goto, OrderInv
  <1>8. ASSUME NEW o \in Orders, Book(o) PROVE OrderInv(q)'
    <2>1. CASE q = o
      <3>1. /\ orders'[q] = FilledRow(o, exchange[o])
            /\ positions'[q] = PositionRow(exchange[o], pc[o] = "protected")
        BY <1>t, <1>8, <2>1 DEF Book, CommitFill
      <3>2. /\ orders'[q].status \in {"FILLED", "PARTIALLY_FILLED"}
            /\ orders'[q].filled = exchange[q].qty
        BY <1>t, <2>1, <3>1, FilledRowType DEF Fill
      <3>3. oco' = oco
        BY <1>8 DEF Book
      <3>4. /\ positions'[q].price = exchange[q].price
            /\ positions'[q].qty = exchange[q].qty
            /\ positions'[q].oco => oco[q] > 0
        <4>1. positions'[q].oco = (pc[q] = "protected")
          BY <2>1, <3>1 DEF PositionRow
        <4>2. pc[q] = "protected" => oco'[q] > 0
          BY <1>i, <3>3 DEF OrderInv
        <4>3. /\ positions'[q].price = exchange[q].price
              /\ positions'[q].qty = exchange[q].qty
          BY <2>1, <3>1 DEF PositionRow
        <4> QED BY <3>3, <4>1, <4>2, <4>3
      <3> QED BY <1>t, <1>i, <1>8, <2>1, <3>2, <3>4
              DEF Book, Finish, Flushed, Goto, OrderInv
    <2>2. CASE q # o
      BY <1>t, <1>i, <1>8, <2>2 DEF Book, CommitFill, Finish, Flushed, Goto, OrderInv
    <2> QED BY <2>1, <2>2
  <1>9. ASSUME NEW o \in Orders, RecordFillRefused(o) PROVE OrderInv(q)'
    <2>1. CASE q = o
      <3>1. /\ orders'[q] = FilledRow(o, exchange[o])
            /\ positions'[q] = PositionRow(exchange[o], pc[o] = "protected")
        BY <1>t, <1>9, <2>1 DEF RecordFillRefused, CommitFill
      <3>2. /\ orders'[q].status \in {"FILLED", "PARTIALLY_FILLED"}
            /\ orders'[q].filled = exchange[q].qty
        BY <1>t, <2>1, <3>1, FilledRowType DEF Fill
      <3>3. oco' = oco
        BY <1>9 DEF RecordFillRefused
      <3>4. /\ positions'[q].price = exchange[q].price
            /\ positions'[q].qty = exchange[q].qty
            /\ positions'[q].oco => oco[q] > 0
        <4>1. positions'[q].oco = (pc[q] = "protected")
          BY <2>1, <3>1 DEF PositionRow
        <4>2. pc[q] = "protected" => oco'[q] > 0
          BY <1>i, <3>3 DEF OrderInv
        <4>3. /\ positions'[q].price = exchange[q].price
              /\ positions'[q].qty = exchange[q].qty
          BY <2>1, <3>1 DEF PositionRow
        <4> QED BY <3>3, <4>1, <4>2, <4>3
      <3> QED BY <1>t, <1>i, <1>9, <2>1, <3>2, <3>4
              DEF RecordFillRefused, Finish, Flushed, Goto, OrderInv
    <2>2. CASE q # o
      BY <1>t, <1>i, <1>9, <2>2 DEF RecordFillRefused, CommitFill, Finish, Flushed, Goto, OrderInv
    <2> QED BY <2>1, <2>2
  <1>10. ASSUME NEW o \in Orders, PortfolioRowRefused(o) PROVE OrderInv(q)'
    BY <1>t, <1>i, <1>10 DEF PortfolioRowRefused, Finish, Flushed, Goto, OrderInv
  <1>11. ASSUME NEW o \in Orders, ExchangeFills(o) PROVE OrderInv(q)'
    <2>1. PICK fill \in Fills(orders[o].requested) :
              exchange' = [exchange EXCEPT ![o] = fill]
      BY <1>11 DEF ExchangeFills
    <2>2. fill \in Fill /\ fill.qty > 0
      BY <1>t, <2>1, FillsType DEF Row
    <2>3. CASE q = o
      <3>1. exchange'[q] = fill /\ fill.qty \in Nat
        BY <1>t, <2>1, <2>2, <2>3 DEF Fill
      <3>2. orders[q].status # "ABSENT" /\ exchange[q].qty = 0
        BY <1>i, <1>11, <2>3 DEF ExchangeFills, OrderInv
      <3>3. orders[q].filled = 0 /\ oco[q] = 0 /\ ~(positions[q].qty > 0)
        BY <1>t, <1>i, <3>2 DEF OrderInv, Row, Fill
      <3> QED BY <1>t, <1>i, <1>11, <2>2, <2>3, <3>1, <3>2, <3>3
              DEF ExchangeFills, OrderInv
    <2>4. CASE q # o
      BY <1>t, <1>i, <1>11, <2>1, <2>4 DEF ExchangeFills, OrderInv
    <2> QED BY <2>3, <2>4
  <1>12. ASSUME NEW o \in Orders, RequestExpires(o) PROVE OrderInv(q)'
    BY <1>t, <1>i, <1>12 DEF RequestExpires, OrderInv
  <1>13. CASE ReconSelect
    BY <1>t, <1>i, <1>13 DEF ReconSelect, Stuck, OrderInv
  <1>14. ASSUME NEW o \in Orders, ReconQuery(o) PROVE OrderInv(q)'
    BY <1>t, <1>i, <1>14 DEF ReconQuery, Answers, Reported, OrderInv
  <1>15. CASE ReconFlush
    BY <1>t, <1>i, <1>15 DEF ReconFlush, OrderInv
  <1>16. CASE ReconCommit
    <2>1. /\ orders'[q] = Reconciled(q, verdict[q])
          /\ verdict'[q] = "none"
      BY <1>t, <1>16 DEF ReconCommit
    <2>2. /\ verdict[q] = "fill" => /\ orders'[q].status = "FILLED"
                                    /\ orders'[q].filled = exchange[q].qty
          /\ verdict[q] = "cancel" => /\ orders'[q].status = "CANCELLED"
                                      /\ orders'[q].filled = orders[q].filled
          /\ verdict[q] \notin {"fill", "cancel"} => orders'[q] = orders[q]
      BY <1>t, <2>1, ReconciledType
    <2> QED BY <1>t, <1>i, <1>16, <2>1, <2>2 DEF ReconCommit, OrderInv
  <1>17. CASE OperatorHalt
    BY <1>t, <1>i, <1>17 DEF OperatorHalt, OrderInv
  <1>18. CASE OperatorResume
    BY <1>t, <1>i, <1>18 DEF OperatorResume, OrderInv
  <1>19. CASE Crash
    BY <1>t, <1>i, <1>19 DEF Crash, OrderInv
  <1>20. CASE Restart
    <2>0. PICK old \in SUBSET {o \in Orders : Orphaned(o)} :
            \E answer \in [old -> {"fill", "cancel"}] :
              /\ \A o \in old : /\ answer[o] \in Answers(o)
                                /\ connected' \/ answer[o] = "cancel"
              /\ orders' = [o \in Orders |-> IF o \in old
                                             THEN Reconciled(o, answer[o])
                                             ELSE orders[o]]
      BY <1>20 DEF Restart
    <2>1. PICK answer \in [old -> {"fill", "cancel"}] :
            /\ \A o \in old : /\ answer[o] \in Answers(o)
                              /\ connected' \/ answer[o] = "cancel"
            /\ orders' = [o \in Orders |-> IF o \in old
                                           THEN Reconciled(o, answer[o])
                                           ELSE orders[o]]
      BY <2>0
    <2>2. UNCHANGED <<positions, exchange, expired, sent, oco, pc, verdict>>
      BY <1>20 DEF Restart
    <2>3. CASE q \in old
      <3>1. orders[q].status = "SUBMITTING"
        BY <2>3 DEF Orphaned
      <3>2. orders'[q] = Reconciled(q, answer[q])
        BY <2>1, <2>3
      <3>3. CASE answer[q] = "fill"
        <4>1. orders'[q].status = "FILLED"
              /\ orders'[q].filled = exchange[q].qty
          BY <1>t, <3>2, <3>3, ReconciledType
        <4>2. exchange[q].qty > 0
          BY <2>1, <2>3, <3>3 DEF Answers, Reported
        <4> QED BY <1>i, <2>2, <3>1, <4>1, <4>2 DEF OrderInv
      <3>4. CASE answer[q] = "cancel"
        <4>1. orders'[q].status = "CANCELLED"
              /\ orders'[q].filled = orders[q].filled
          BY <1>t, <3>2, <3>4, ReconciledType
        <4> QED BY <1>i, <2>2, <3>1, <4>1 DEF OrderInv
      <3> QED BY <2>1, <2>3, <3>3, <3>4
    <2>4. CASE q \notin old
      BY <1>i, <2>1, <2>2, <2>4 DEF OrderInv
    <2> QED BY <2>3, <2>4
  <1>21. CASE UNCHANGED vars
    BY <1>t, <1>i, <1>21 DEF vars, OrderInv
  <1> QED
    BY <1>1, <1>2, <1>3, <1>4, <1>5, <1>6, <1>7, <1>8, <1>9, <1>10,
       <1>11, <1>12, <1>13, <1>14, <1>15, <1>16, <1>17, <1>18, <1>19,
       <1>20, <1>21
    DEF Next, PipelineStep, ExchangeStep, ReconcilerStep, HostStep

THEOREM OrdersInvariant == Spec => []OrdersInv
  BY TypeCorrect, OrdersInvInit, OrdersInvStep, PTL DEF Spec

\* Nothing reaches the exchange for an order that has no committed row.
THEOREM WriteAheadHolds == Spec => []WriteAhead
  <1>1. TypeOK /\ OrdersInv => WriteAhead
    BY DEF TypeOK, OrdersInv, OrderInv, WriteAhead, Executed
  <1> QED BY <1>1, TypeCorrect, OrdersInvariant, PTL

\* Filled rows and positions repeat the exchange's execution, whatever failed
\* and whoever wrote last.
THEOREM RecordsTruthfulHolds == Spec => []RecordsTruthful
  <1>1. OrdersInv => RecordsTruthful
    BY DEF OrdersInv, OrderInv, RecordsTruthful, Executed, Opened
  <1> QED BY <1>1, OrdersInvariant, PTL

\* No protective order sells more than its order bought.
THEOREM OcoBackedHolds == Spec => []OcoBacked
  <1>1. OrdersInv => OcoBacked
    BY DEF OrdersInv, OrderInv, OcoBacked
  <1> QED BY <1>1, OrdersInvariant, PTL
-----------------------------------------------------------------------------
(* The money.                                                              *)

\* Only Book writes the portfolio.
LEMMA OnlyBookWritesPortfolio ==
  ASSUME [Next]_vars, portfolio' # portfolio
  PROVE  \E o \in Orders : Book(o)
  BY DEF Next, PipelineStep, ExchangeStep, ReconcilerStep, HostStep, vars,
         database, remote, run, recon, host, CheckStatus, RejectIntent,
         AcceptIntent, SubmitReturns, SubmitFails, PositionRowRefused,
         PlaceOco, RecordFillRefused, PortfolioRowRefused, ExchangeFills,
         RequestExpires, ReconSelect, ReconQuery, ReconFlush, ReconCommit,
         OperatorHalt, OperatorResume, Crash, Restart

\* The balance is never created, lost or overdrawn, although a run checks it
\* on a row that others may have changed since: the UPDATE works on the
\* current row, and the database refuses a row that breaks a CHECK.
THEOREM LedgerSoundHolds == Spec => []LedgerSound
  <1>1. Init => LedgerSound
    BY BalanceNat, NewPortfolioSound DEF Init, LedgerSound
  <1>2. TypeOK /\ LedgerSound /\ [Next]_vars => LedgerSound'
    <2> SUFFICES ASSUME TypeOK, LedgerSound, [Next]_vars PROVE LedgerSound'
      OBVIOUS
    <2>1. CASE portfolio' = portfolio
      BY <2>1 DEF LedgerSound
    <2>2. CASE portfolio' # portfolio
      <3>1. PICK o \in Orders : Book(o)
        BY <2>2, OnlyBookWritesPortfolio
      <3>2. portfolio' = RecordFill(portfolio, Value(exchange[o]))
            /\ SatisfiesChecks(portfolio')
        BY <3>1 DEF Book, Debited
      <3>3. portfolio \in Portfolios /\ Value(exchange[o]) \in Int
        BY ValueType DEF TypeOK
      <3>4. /\ portfolio'.total = portfolio.total
            /\ Balanced(portfolio) => Balanced(portfolio')
        BY <3>2, <3>3, RecordFillSound
      <3> QED BY <3>2, <3>4 DEF LedgerSound
    <2> QED BY <2>1, <2>2
  <1> QED BY <1>1, <1>2, TypeCorrect, PTL DEF Spec

Position == [price : Nat, qty : Nat, oco : BOOLEAN]

\* Every position cost an amount, and together they cost one.
LEMMA CostsType ==
  ASSUME NEW rows \in [Orders -> Position]
  PROVE  LET costs == [o \in Orders |-> Value(rows[o])]
         IN  /\ \A o \in Orders : costs[o] \in Nat
             /\ Total(costs, Orders) \in Nat
  <1> DEFINE costs == [o \in Orders |-> Value(rows[o])]
  <1>1. ASSUME NEW o \in Orders PROVE Value(rows[o]) \in Nat
    <2>1. rows[o].price \in Nat /\ rows[o].qty \in Nat
      BY DEF Position
    <2> QED BY <2>1 DEF Value
  <1>2. \A o \in Orders : costs[o] \in Nat
    BY <1>1
  <1> HIDE DEF costs
  <1>3. Total(costs, Orders) \in Nat
    BY <1>2, OrdersFinite, SumNonnegative
  <1> QED BY <1>2, <1>3 DEF costs

LEMMA CostsTyped ==
  ASSUME TypeOK
  PROVE  (\A o \in Orders : Costs[o] \in Nat) /\ Total(Costs, Orders) \in Nat
  BY CostsType DEF TypeOK, Costs, Position

LEMMA CostsTypedNext ==
  ASSUME TypeOK'
  PROVE  (\A o \in Orders : Costs'[o] \in Nat) /\ Total(Costs, Orders)' \in Nat
  BY CostsType DEF TypeOK, Costs, Position

\* A commit with a fill adds the execution's value to the total cost: the order
\* had no position before.
LEMMA CommitAddsCost ==
  ASSUME TypeOK, TypeOK', OrdersInv, NEW o \in Orders, CommitFill(o),
         pc[o] \in Flushed
  PROVE  /\ Value(exchange[o]) \in Nat
         /\ Total(Costs, Orders)' = Total(Costs, Orders) + Value(exchange[o])
  <1>1. /\ positions \in [Orders -> [price : Nat, qty : Nat, oco : BOOLEAN]]
        /\ exchange[o].price \in Nat /\ exchange[o].qty \in Nat
    BY DEF TypeOK
  <1>2. positions[o].qty = 0 /\ positions[o].price \in Nat
    <2>1. OrderInv(o)
      BY DEF OrdersInv
    <2> QED BY <1>1, <2>1 DEF OrderInv, Flushed
  <1>3. Costs[o] = 0
    BY <1>2 DEF Costs, Value
  <1>4. Costs'[o] = Value(exchange[o])
    <2>1. positions'[o] = PositionRow(exchange[o], pc[o] = "protected")
      BY <1>1 DEF CommitFill
    <2> QED BY <2>1 DEF Costs, Value, PositionRow
  <1>5. \A q \in Orders : q # o => Costs'[q] = Costs[q]
    BY <1>1 DEF CommitFill, Costs
  <1>6. \A q \in Orders : Costs[q] \in Int /\ Costs'[q] \in Int
    BY CostsTyped, CostsTypedNext
  <1>7. Total(Costs, Orders)' = Total(Costs, Orders) - Costs[o] + Costs'[o]
    <2>1. IsFiniteSet(Orders)
      BY OrdersFinite
    <2>2. Total(Costs', Orders) = Total(Costs, Orders) - Costs[o] + Costs'[o]
      BY <1>5, <1>6, <2>1, SumChange
    <2> QED BY <2>2
  <1>8. Value(exchange[o]) \in Nat
    BY <1>1 DEF Value
  <1> QED BY <1>3, <1>4, <1>7, <1>8, CostsTyped

\* Positions are committed by Book and RecordFillRefused only.
LEMMA OnlyCommitsWritePositions ==
  ASSUME [Next]_vars, positions' # positions
  PROVE  \E o \in Orders : Book(o) \/ RecordFillRefused(o)
  BY DEF Next, PipelineStep, ExchangeStep, ReconcilerStep, HostStep, vars,
         database, remote, run, recon, host, CheckStatus, RejectIntent,
         AcceptIntent, SubmitReturns, SubmitFails, PositionRowRefused,
         PlaceOco, PortfolioRowRefused, ExchangeFills,
         RequestExpires, ReconSelect, ReconQuery, ReconFlush, ReconCommit,
         OperatorHalt, OperatorResume, Crash, Restart

\* What Book allocates is what the position it commits cost.
LEMMA BookAllocatesCost ==
  ASSUME TypeOK, TypeOK', OrdersInv, NEW o \in Orders, Book(o)
  PROVE  /\ portfolio'.allocated = portfolio.allocated + Value(exchange[o])
         /\ Total(Costs, Orders)' = Total(Costs, Orders) + Value(exchange[o])
         /\ Value(exchange[o]) \in Nat
  <1>1. portfolio' = RecordFill(portfolio, Value(exchange[o]))
    BY DEF Book, Debited
  <1>2. portfolio'.allocated = portfolio.allocated + Value(exchange[o])
    BY <1>1 DEF RecordFill, TypeOK, Portfolios
  <1>3. CommitFill(o) /\ pc[o] \in Flushed
    BY DEF Book, Finish
  <1> QED BY <1>2, <1>3, CommitAddsCost

\* Whatever fails and whoever wrote last, nothing is allocated that no open
\* position holds.
THEOREM AllocationBackedHolds == Spec => []AllocationBacked
  <1>1. Init => AllocationBacked
    <2> SUFFICES ASSUME Init PROVE AllocationBacked
      OBVIOUS
    <2>1. \A o \in Orders : Costs[o] \in Nat
      BY DEF Init, NoPosition, Costs, Value
    <2>2. portfolio.allocated = 0
      BY DEF Init, NewPortfolio
    <2>3. Total(Costs, Orders) \in Nat
      BY <2>1, OrdersFinite, SumNonnegative
    <2> QED BY <2>2, <2>3 DEF AllocationBacked
  <1>2. TypeOK /\ TypeOK' /\ OrdersInv /\ AllocationBacked /\ [Next]_vars
            => AllocationBacked'
    <2> SUFFICES ASSUME TypeOK, TypeOK', OrdersInv, AllocationBacked, [Next]_vars
                 PROVE  AllocationBacked'
      OBVIOUS
    <2>0. portfolio.allocated \in Int /\ Total(Costs, Orders) \in Int
      BY CostsTyped DEF TypeOK, Portfolios
    <2>1. ASSUME NEW o \in Orders, Book(o) PROVE AllocationBacked'
      BY <2>0, <2>1, BookAllocatesCost DEF AllocationBacked
    <2>2. ASSUME NEW o \in Orders, RecordFillRefused(o) PROVE AllocationBacked'
      <3>1. CommitFill(o) /\ pc[o] \in Flushed /\ portfolio' = portfolio
        BY <2>2 DEF RecordFillRefused, Finish
      <3> QED BY <2>0, <3>1, CommitAddsCost DEF AllocationBacked
    <2>3. CASE positions' = positions /\ portfolio' = portfolio
      BY <2>3 DEF AllocationBacked, Costs
    <2> QED BY <2>1, <2>2, <2>3, OnlyCommitsWritePositions, OnlyBookWritesPortfolio
  <1> QED BY <1>1, <1>2, TypeCorrect, OrdersInvariant, PTL DEF Spec

\* A factor more, or a larger one, makes no smaller product.
LEMMA ProductAtMost ==
  ASSUME NEW a \in Nat, NEW b \in Nat, NEW c \in Nat, NEW d \in Nat,
         a <= c, b <= d
  PROVE  a * b <= c * d
  <1>1. a * b <= c * b
    <2>1. c * b = a * b + (c - a) * b /\ c - a \in Nat
      OBVIOUS
    <2>2. (c - a) * b \in Nat /\ a * b \in Nat
      BY <2>1
    <2> QED BY <2>1, <2>2
  <1>2. c * b <= c * d
    <2>1. c * d = c * b + c * (d - b) /\ d - b \in Nat
      OBVIOUS
    <2>2. c * (d - b) \in Nat /\ c * b \in Nat
      BY <2>1
    <2> QED BY <2>1, <2>2
  <1>3. a * b \in Nat /\ c * b \in Nat /\ c * d \in Nat
    OBVIOUS
  <1> QED BY <1>1, <1>2, <1>3

\* The exchange executes at no price that a position row accepts and that is
\* worse than the intent's: a market order may, so this is an assumption.
NoSlippage ==
    \A price \in FillPrices :
        StopLoss < price /\ price < TakeProfit => price <= EntryPrice

\* Then record_fill's check of the balance read under the lock cannot fail:
\* that balance covered the whole request at the intent's price, the request
\* is never changed, and the execution is a part of it at no worse a price.
FundedInv(o) ==
    /\ exchange[o].qty <= orders[o].requested
    /\ exchange[o].qty > 0 => exchange[o].price \in FillPrices
    /\ pc[o] \in {"submitting", "filled", "protected", "unprotected"} =>
            orders[o].requested * EntryPrice <= seen[o]
    /\ pc[o] \in Flushed => PositionRowOk(exchange[o])

OrdersFunded == \A o \in Orders : FundedInv(o)

LEMMA OrdersFundedInit == Init => OrdersFunded
  BY DEF Init, OrdersFunded, FundedInv, NoOrder, NoFill, Flushed

\* The rows that the pipeline and the reconcilers write keep the request.
LEMMA RequestKept ==
  ASSUME NEW o \in Orders, orders[o] \in Row, NEW fill, NEW answer
  PROVE  /\ FilledRow(o, fill).requested = orders[o].requested
         /\ Reconciled(o, answer).requested = orders[o].requested
  BY DEF FilledRow, Reconciled, Row

LEMMA OrdersFundedStep ==
  TypeOK /\ OrdersInv /\ OrdersFunded /\ [Next]_vars => OrdersFunded'
  <1> SUFFICES ASSUME TypeOK, OrdersInv, OrdersFunded, [Next]_vars,
                      NEW q \in Orders
               PROVE  FundedInv(q)'
    BY DEF OrdersFunded
  <1>t. /\ orders \in [Orders -> Row]
        /\ exchange \in [Orders -> Fill]
        /\ pc \in [Orders -> {"idle", "admitting", "submitting", "filled",
                              "protected", "unprotected", "done"}]
        /\ seen \in [Orders -> Int]
    BY DEF TypeOK, Row, Fill
  <1>i. FundedInv(q) /\ OrderInv(q)
    BY DEF OrdersFunded, OrdersInv
  <1> USE DEF database, remote, run, recon, host
  \* What every step but three does: it keeps the request, the execution and
  \* what the run read, and no run comes to be under way.
  <1>k. ASSUME orders'[q].requested = orders[q].requested, exchange' = exchange,
               seen' = seen,
               pc'[q] \in {"submitting", "filled", "protected", "unprotected"} =>
                    pc[q] \in {"submitting", "filled", "protected", "unprotected"},
               pc'[q] \in Flushed => PositionRowOk(exchange[q])
        PROVE  FundedInv(q)'
    BY <1>i, <1>k DEF FundedInv, PositionRowOk
  <1>p. pc[q] \in Flushed => PositionRowOk(exchange[q])
    BY <1>i DEF FundedInv
  <1>1. ASSUME NEW o \in Orders,
               \/ CheckStatus(o) \/ RejectIntent(o) \/ SubmitReturns(o)
               \/ SubmitFails(o) \/ PositionRowRefused(o) \/ PlaceOco(o)
               \/ PortfolioRowRefused(o)
        PROVE  FundedInv(q)'
    BY <1>t, <1>k, <1>p, <1>1
    DEF CheckStatus, RejectIntent, SubmitReturns, SubmitFails,
        PositionRowRefused, PlaceOco, PortfolioRowRefused, Finish, Flushed, Goto
  <1>2. ASSUME NEW o \in Orders, Book(o) \/ RecordFillRefused(o)
        PROVE  FundedInv(q)'
    <2>1. CommitFill(o) /\ Goto(o, pc[o], "done")
          /\ UNCHANGED <<exchange, seen>>
      BY <1>2 DEF Book, RecordFillRefused, Finish
    <2>2. orders'[q].requested = orders[q].requested
      <3>1. CASE q = o
        <4>1. orders'[q] = FilledRow(o, exchange[o])
          BY <1>t, <2>1, <3>1 DEF CommitFill
        <4> QED BY <1>t, <3>1, <4>1, RequestKept
      <3>2. CASE q # o
        BY <1>t, <2>1, <3>2 DEF CommitFill
      <3> QED BY <3>1, <3>2
    <2>3. pc'[q] = pc[q] \/ pc'[q] = "done"
      BY <1>t, <2>1 DEF Goto
    <2> QED BY <1>k, <1>p, <2>1, <2>2, <2>3 DEF Flushed
  <1>3. ASSUME NEW o \in Orders, AcceptIntent(o) PROVE FundedInv(q)'
    <2>1. PICK quantity \in Sizes :
              /\ WithinLimits(quantity)
              /\ orders' = [orders EXCEPT ![o] = SubmittingRow(quantity)]
      BY <1>3 DEF AcceptIntent
    <2>2. /\ pc' = [pc EXCEPT ![o] = "submitting"] /\ pc[o] = "admitting"
          /\ seen' = [seen EXCEPT ![o] = portfolio.available]
          /\ exchange' = exchange
      BY <1>3 DEF AcceptIntent, Goto
    <2>3. CASE q = o
      <3>1. orders'[q].requested = quantity /\ seen'[q] = portfolio.available
            /\ pc'[q] = "submitting"
        BY <1>t, <2>1, <2>2, <2>3 DEF SubmittingRow
      <3>2. exchange[q].qty = 0
        BY <1>i, <2>2, <2>3 DEF OrderInv
      <3>3. quantity * EntryPrice <= portfolio.available
        BY <2>1 DEF WithinLimits, BalanceCovers
      <3>4. 0 <= quantity
        BY <2>1, SizesPositive
      <3> QED BY <2>2, <3>1, <3>2, <3>3, <3>4 DEF FundedInv, Flushed
    <2>4. CASE q # o
      <3>1. orders'[q] = orders[q] /\ pc'[q] = pc[q] /\ seen'[q] = seen[q]
            /\ exchange'[q] = exchange[q]
        BY <1>t, <2>1, <2>2, <2>4
      <3> QED BY <1>i, <3>1 DEF FundedInv, PositionRowOk
    <2> QED BY <2>3, <2>4
  <1>4. ASSUME NEW o \in Orders, ExchangeFills(o) PROVE FundedInv(q)'
    <2>1. PICK fill \in Fills(orders[o].requested) :
              exchange' = [exchange EXCEPT ![o] = fill]
      BY <1>4 DEF ExchangeFills
    <2>2. fill.price \in FillPrices /\ fill.qty > 0
          /\ fill.qty <= orders[o].requested
      <3>1. orders[o].requested \in Nat
        BY <1>t DEF Row
      <3>2. fill.qty > 0 /\ fill.qty <= orders[o].requested
        BY <2>1, <3>1, FillsType
      <3> QED BY <3>2 DEF Fills
    <2>3. UNCHANGED <<orders, seen, pc>>
      BY <1>4 DEF ExchangeFills
    <2>4. CASE q = o
      <3>1. pc[q] \notin Flushed
        <4>1. sent[q] /\ exchange[q].qty = 0
          BY <1>4, <1>i, <2>4 DEF ExchangeFills, OrderInv
        <4> QED BY <1>i, <4>1 DEF OrderInv, Flushed
      <3>2. exchange'[q] = fill
        BY <1>t, <2>1, <2>4
      <3> QED BY <1>i, <2>2, <2>3, <2>4, <3>1, <3>2 DEF FundedInv
    <2>5. CASE q # o
      <3>1. exchange'[q] = exchange[q]
        BY <1>t, <2>1, <2>5
      <3> QED BY <1>i, <2>3, <3>1 DEF FundedInv, PositionRowOk
    <2> QED BY <2>4, <2>5
  <1>5. ASSUME NEW o \in Orders, RequestExpires(o) \/ ReconQuery(o)
        PROVE  FundedInv(q)'
    BY <1>k, <1>p, <1>5 DEF RequestExpires, ReconQuery
  <1>6. CASE ReconSelect \/ ReconFlush \/ OperatorHalt \/ OperatorResume
             \/ UNCHANGED vars
    BY <1>k, <1>p, <1>6
    DEF ReconSelect, ReconFlush, OperatorHalt, OperatorResume, vars
  <1>7. CASE ReconCommit
    <2>1. orders'[q] = Reconciled(q, verdict[q])
      BY <1>7 DEF ReconCommit
    <2>2. orders'[q].requested = orders[q].requested
      BY <1>t, <2>1, RequestKept
    <2> QED BY <1>k, <1>p, <1>7, <2>2 DEF ReconCommit
  <1>8. CASE Crash
    <2>1. pc'[q] \in {"idle", "done"}
      BY <1>8 DEF Crash
    <2> QED BY <1>k, <1>8, <2>1 DEF Crash, Flushed
  <1>9. CASE Restart
    <2>1. orders'[q].requested = orders[q].requested
      <3>1. orders'[q] = orders[q]
            \/ \E answer : orders'[q] = Reconciled(q, answer)
        BY <1>9 DEF Restart
      <3> QED BY <1>t, <3>1, RequestKept
    <2> QED BY <1>k, <1>p, <1>9, <2>1 DEF Restart
  <1> QED
    BY <1>1, <1>2, <1>3, <1>4, <1>5, <1>6, <1>7, <1>8, <1>9
    DEF Next, PipelineStep, ExchangeStep, ReconcilerStep, HostStep

\* record_fill never refuses a run that is about to commit.
LEMMA RecordFillAccepts ==
  ASSUME NoSlippage, TypeOK, OrdersInv, OrdersFunded, NEW o \in Orders,
         pc[o] \in Flushed
  PROVE  StaleCheckPasses(o)
  <1>1. /\ exchange[o].price \in Nat /\ exchange[o].qty \in Nat
        /\ orders[o].requested \in Nat /\ seen[o] \in Int
    BY DEF TypeOK
  <1>2. /\ exchange[o].qty <= orders[o].requested
        /\ exchange[o].price \in FillPrices /\ PositionRowOk(exchange[o])
        /\ orders[o].requested * EntryPrice <= seen[o]
    BY DEF OrdersFunded, FundedInv, OrdersInv, OrderInv, Flushed
  <1>3. exchange[o].price <= EntryPrice /\ EntryPrice \in Nat
    BY <1>2, PricesPositive DEF NoSlippage, PositionRowOk
  <1>4. exchange[o].price * exchange[o].qty <= EntryPrice * orders[o].requested
    BY <1>1, <1>2, <1>3, ProductAtMost
  <1>5. EntryPrice * orders[o].requested = orders[o].requested * EntryPrice
        /\ orders[o].requested * EntryPrice \in Int
        /\ exchange[o].price * exchange[o].qty \in Int
    BY <1>1, <1>3
  <1> QED BY <1>1, <1>2, <1>4, <1>5 DEF StaleCheckPasses, Value

\* When the exchange executes at no worse a price than planned, no position is
\* without its money and no money without its position, whatever else fails,
\* whoever wrote last, and however many runs read the balance before others
\* committed: allocated is exactly what the positions cost.
THEOREM PositionsFundedHolds ==
  ASSUME NoSlippage
  PROVE  Spec => []PositionsFunded
  <1>1. Init => PositionsFunded
    <2> SUFFICES ASSUME Init PROVE PositionsFunded
      OBVIOUS
    <2>1. \A o \in Orders : Costs[o] = 0
      BY DEF Init, NoPosition, Costs, Value
    <2>2. portfolio.allocated = 0
      BY DEF Init, NewPortfolio
    <2>3. Total(Costs, Orders) = 0
      BY <2>1, OrdersFinite, SumZero
    <2> QED BY <2>2, <2>3 DEF PositionsFunded
  <1>2. TypeOK /\ TypeOK' /\ OrdersInv /\ OrdersFunded /\ PositionsFunded
            /\ [Next]_vars => PositionsFunded'
    <2> SUFFICES ASSUME TypeOK, TypeOK', OrdersInv, OrdersFunded,
                        PositionsFunded, [Next]_vars
                 PROVE  PositionsFunded'
      OBVIOUS
    <2>1. ASSUME NEW o \in Orders, Book(o) PROVE PositionsFunded'
      BY <2>1, BookAllocatesCost DEF PositionsFunded
    <2>2. ASSUME NEW o \in Orders PROVE ~RecordFillRefused(o)
      BY RecordFillAccepts DEF RecordFillRefused, Finish
    <2>3. CASE positions' = positions /\ portfolio' = portfolio
      BY <2>3 DEF PositionsFunded, Costs
    <2> QED BY <2>1, <2>2, <2>3, OnlyCommitsWritePositions, OnlyBookWritesPortfolio
  <1> QED
    BY <1>1, <1>2, OrdersFundedInit, OrdersFundedStep, TypeCorrect,
       OrdersInvariant, PTL DEF Spec
-----------------------------------------------------------------------------
(* The abstract life of a trade, when queries answer and no run outlasts   *)
(* the reconciler's threshold.                                             *)

Reliable == ~QueryMayFail /\ ~SubmitMayOutlast

\* In that case nothing is under way while the process is down, a run that is
\* not over has a SUBMITTING row of its own, the reconciler's verdicts are
\* about runs that are over, and a cancelled order has neither an execution
\* that the exchange reports as one nor a request in flight.
SettledInv(o) ==
    /\ ~up => pc[o] \in {"idle", "done"} /\ verdict[o] = "none"
    /\ pc[o] \in {"submitting", "filled", "protected", "unprotected"} =>
            orders[o].status = "SUBMITTING" /\ verdict[o] = "none"
    /\ verdict[o] # "none" =>
            orders[o].status = "SUBMITTING" /\ pc[o] = "done" /\ ~sent[o]
    /\ verdict[o] = "cancel" => ~Reported(o)
    /\ sent[o] => orders[o].status = "SUBMITTING"
    /\ orders[o].status = "CANCELLED" => ~Reported(o) /\ ~sent[o]
    /\ orders[o].status \in {"ABSENT", "SUBMITTING", "CANCELLED", "FILLED",
                             "PARTIALLY_FILLED"}

OrdersSettled == \A o \in Orders : SettledInv(o)

LEMMA OrdersSettledInit == Init => OrdersSettled
  BY DEF Init, OrdersSettled, SettledInv, NoOrder, NoFill, Executed, Reported

LEMMA OrdersSettledStep ==
  ASSUME Reliable
  PROVE  TypeOK /\ OrdersInv /\ OrdersSettled /\ [Next]_vars => OrdersSettled'
  <1> SUFFICES ASSUME TypeOK, OrdersInv, OrdersSettled, [Next]_vars,
                      NEW q \in Orders
               PROVE  SettledInv(q)'
    BY DEF OrdersSettled
  <1>t. /\ orders \in [Orders -> Row]
        /\ exchange \in [Orders -> Fill]
        /\ expired \subseteq Orders
        /\ sent \in [Orders -> BOOLEAN]
        /\ pc \in [Orders -> {"idle", "admitting", "submitting", "filled",
                              "protected", "unprotected", "done"}]
        /\ verdict \in [Orders -> {"none", "pending", "fill", "cancel",
                                   "error"}]
    BY DEF TypeOK, Row, Fill
  <1>i. SettledInv(q) /\ OrderInv(q)
    BY DEF OrdersSettled, OrdersInv
  <1>r. ~QueryMayFail /\ ~SubmitMayOutlast
    BY DEF Reliable
  <1> USE DEF database, remote, run, recon, host, Executed, Reported, SettledInv
  <1>1. ASSUME NEW o \in Orders, CheckStatus(o) PROVE SettledInv(q)'
    BY <1>t, <1>i, <1>1 DEF CheckStatus, Goto, OrderInv
  <1>2. ASSUME NEW o \in Orders, RejectIntent(o) PROVE SettledInv(q)'
    BY <1>t, <1>i, <1>2 DEF RejectIntent, Goto, OrderInv
  <1>3. ASSUME NEW o \in Orders, AcceptIntent(o) PROVE SettledInv(q)'
    <2>1. PICK quantity \in Sizes :
              orders' = [orders EXCEPT ![o] = SubmittingRow(quantity)]
      BY <1>3 DEF AcceptIntent
    <2>2. SubmittingRow(quantity).status = "SUBMITTING"
      BY DEF SubmittingRow
    <2>3. CASE q = o
      <3>1. orders'[q].status = "SUBMITTING" /\ verdict[q] = "none"
        BY <1>t, <1>i, <1>3, <2>1, <2>2, <2>3
        DEF AcceptIntent, Goto, OrderInv
      <3> QED BY <1>t, <1>i, <1>3, <2>3, <3>1
              DEF AcceptIntent, Goto, OrderInv
    <2>4. CASE q # o
      BY <1>t, <1>i, <1>3, <2>1, <2>4 DEF AcceptIntent, Goto, OrderInv
    <2> QED BY <2>3, <2>4
  <1>4. ASSUME NEW o \in Orders, SubmitReturns(o) PROVE SettledInv(q)'
    BY <1>t, <1>i, <1>4 DEF SubmitReturns, Goto, OrderInv
  <1>5. ASSUME NEW o \in Orders, SubmitFails(o) PROVE SettledInv(q)'
    BY <1>t, <1>i, <1>5 DEF SubmitFails, Goto, OrderInv
  <1>6. ASSUME NEW o \in Orders, PositionRowRefused(o) PROVE SettledInv(q)'
    BY <1>t, <1>i, <1>6 DEF PositionRowRefused, Goto, OrderInv
  <1>7. ASSUME NEW o \in Orders, PlaceOco(o) PROVE SettledInv(q)'
    BY <1>t, <1>i, <1>7 DEF PlaceOco, Goto, OrderInv
  <1>8. ASSUME NEW o \in Orders, Book(o) PROVE SettledInv(q)'
    <2>1. CASE q = o
      <3>1. orders'[q] = FilledRow(o, exchange[o])
        BY <1>t, <1>8, <2>1 DEF Book, CommitFill
      <3>2. orders'[q].status \in {"FILLED", "PARTIALLY_FILLED"}
        BY <1>t, <2>1, <3>1, FilledRowType DEF Fill
      <3> QED BY <1>t, <1>i, <1>8, <2>1, <3>2 DEF Book, Finish, Flushed, Goto, OrderInv
    <2>2. CASE q # o
      BY <1>t, <1>i, <1>8, <2>2 DEF Book, CommitFill, Finish, Flushed, Goto, OrderInv
    <2> QED BY <2>1, <2>2
  <1>9. ASSUME NEW o \in Orders, RecordFillRefused(o) PROVE SettledInv(q)'
    <2>1. CASE q = o
      <3>1. orders'[q] = FilledRow(o, exchange[o])
        BY <1>t, <1>9, <2>1 DEF RecordFillRefused, CommitFill
      <3>2. orders'[q].status \in {"FILLED", "PARTIALLY_FILLED"}
        BY <1>t, <2>1, <3>1, FilledRowType DEF Fill
      <3> QED BY <1>t, <1>i, <1>9, <2>1, <3>2 DEF RecordFillRefused, Finish, Flushed, Goto, OrderInv
    <2>2. CASE q # o
      BY <1>t, <1>i, <1>9, <2>2 DEF RecordFillRefused, CommitFill, Finish, Flushed, Goto, OrderInv
    <2> QED BY <2>1, <2>2
  <1>10. ASSUME NEW o \in Orders, PortfolioRowRefused(o) PROVE SettledInv(q)'
    BY <1>t, <1>i, <1>10 DEF PortfolioRowRefused, Finish, Flushed, Goto, OrderInv
  <1>11. ASSUME NEW o \in Orders, ExchangeFills(o) PROVE SettledInv(q)'
    <2>1. \A p \in Orders : p # o => /\ exchange'[p] = exchange[p]
                                    /\ p \in expired' <=> p \in expired
      BY <1>t, <1>11 DEF ExchangeFills
    <2> QED BY <1>t, <1>i, <1>11, <2>1 DEF ExchangeFills, OrderInv
  <1>12. ASSUME NEW o \in Orders, RequestExpires(o) PROVE SettledInv(q)'
    BY <1>t, <1>i, <1>12 DEF RequestExpires, OrderInv
  <1>13. CASE ReconSelect
    <2>1. verdict'[q] # "none" =>
            orders[q].status = "SUBMITTING" /\ pc[q] = "done" /\ ~sent[q]
      BY <1>r, <1>13 DEF ReconSelect, Stuck
    <2>2. verdict'[q] \in {"none", "pending"}
      BY <1>13 DEF ReconSelect
    <2> QED BY <1>t, <1>i, <1>13, <2>1, <2>2 DEF ReconSelect, OrderInv
  <1>14. ASSUME NEW o \in Orders, ReconQuery(o) PROVE SettledInv(q)'
    <2>1. verdict'[o] = "cancel" => ~Reported(o)
      BY <1>t, <1>r, <1>14 DEF ReconQuery, Answers
    <2> QED BY <1>t, <1>i, <1>14, <2>1 DEF ReconQuery, Answers, Reported, OrderInv
  <1>15. CASE ReconFlush
    BY <1>t, <1>i, <1>15 DEF ReconFlush, OrderInv
  <1>16. CASE ReconCommit
    <2>1. /\ orders'[q] = Reconciled(q, verdict[q])
          /\ verdict'[q] = "none"
      BY <1>t, <1>16 DEF ReconCommit
    <2>2. /\ verdict[q] = "fill" => orders'[q].status = "FILLED"
          /\ verdict[q] = "cancel" => orders'[q].status = "CANCELLED"
          /\ verdict[q] \notin {"fill", "cancel"} => orders'[q] = orders[q]
      BY <1>t, <2>1, ReconciledType
    <2> QED BY <1>t, <1>i, <1>16, <2>1, <2>2 DEF ReconCommit, OrderInv
  <1>17. CASE OperatorHalt
    BY <1>t, <1>i, <1>17 DEF OperatorHalt, OrderInv
  <1>18. CASE OperatorResume
    BY <1>t, <1>i, <1>18 DEF OperatorResume, OrderInv
  <1>19. CASE Crash
    <2>1. pc'[q] \in {"idle", "done"} /\ (pc[q] = "done" => pc'[q] = "done")
      BY <1>t, <1>19 DEF Crash
    <2>2. verdict'[q] = "none"
      BY <1>19 DEF Crash
    <2> QED BY <1>i, <1>19, <2>1, <2>2 DEF Crash
  <1>20. CASE Restart
    <2>0. PICK old \in SUBSET {o \in Orders : Orphaned(o)} :
            \E answer \in [old -> {"fill", "cancel"}] :
              /\ \A o \in old : /\ answer[o] \in Answers(o)
                                /\ connected' \/ answer[o] = "cancel"
              /\ orders' = [o \in Orders |-> IF o \in old
                                             THEN Reconciled(o, answer[o])
                                             ELSE orders[o]]
      BY <1>20 DEF Restart
    <2>1. PICK answer \in [old -> {"fill", "cancel"}] :
            /\ \A o \in old : /\ answer[o] \in Answers(o)
                              /\ connected' \/ answer[o] = "cancel"
            /\ orders' = [o \in Orders |-> IF o \in old
                                           THEN Reconciled(o, answer[o])
                                           ELSE orders[o]]
      BY <2>0
    <2>2. UNCHANGED <<exchange, expired, sent, pc, verdict>> /\ up'
      BY <1>20 DEF Restart
    <2>3. ASSUME q \in old PROVE SettledInv(q)'
      <3>1. ~sent[q]
        BY <2>3 DEF Orphaned
      <3>2. orders'[q] = Reconciled(q, answer[q])
        BY <2>1, <2>3
      <3>3. answer[q] = "fill" => orders'[q].status = "FILLED"
        BY <1>t, <3>2, ReconciledType
      <3>4. answer[q] = "cancel" =>
                orders'[q].status = "CANCELLED" /\ ~Reported(q)
        BY <1>t, <1>r, <2>1, <2>3, <3>2, ReconciledType DEF Answers
      <3>5. pc[q] \notin {"submitting", "filled", "protected", "unprotected"}
            /\ verdict[q] = "none"
        BY <1>i, <1>20 DEF Restart
      <3> QED BY <1>i, <2>1, <2>2, <2>3, <3>1, <3>3, <3>4, <3>5
    <2>4. ASSUME q \notin old PROVE SettledInv(q)'
      BY <1>i, <2>1, <2>2, <2>4
    <2> QED BY <2>3, <2>4
  <1>21. CASE UNCHANGED vars
    BY <1>t, <1>i, <1>21 DEF vars, OrderInv
  <1> QED
    BY <1>1, <1>2, <1>3, <1>4, <1>5, <1>6, <1>7, <1>8, <1>9, <1>10,
       <1>11, <1>12, <1>13, <1>14, <1>15, <1>16, <1>17, <1>18, <1>19,
       <1>20, <1>21
    DEF Next, PipelineStep, ExchangeStep, ReconcilerStep, HostStep

\* A cancelled order will not be executed, and was not, unless its rest expired.
THEOREM FillNeverForgottenHolds ==
  ASSUME Reliable
  PROVE  Spec => []FillNeverForgotten
  <1>1. OrdersSettled => FillNeverForgotten
    BY DEF OrdersSettled, SettledInv, FillNeverForgotten
  <1>2. TypeOK /\ OrdersInv /\ OrdersSettled /\ [Next]_vars => OrdersSettled'
    BY OrdersSettledStep
  <1> QED
    BY <1>1, <1>2, OrdersSettledInit, TypeCorrect, OrdersInvariant, PTL
    DEF Spec

\* A step that changes an order's status takes it along the state machine.
LEMMA LegalStep ==
  ASSUME Reliable, TypeOK, OrdersInv, OrdersSettled, [Next]_vars,
         NEW q \in Orders
  PROVE  \/ orders'[q].status = orders[q].status
         \/ orders[q].status = "ABSENT"
         \/ orders'[q].status \in OrderTransitions(orders[q].status)
  <1> DEFINE Goal == \/ orders'[q].status = orders[q].status
                     \/ orders[q].status = "ABSENT"
                     \/ orders'[q].status \in OrderTransitions(orders[q].status)
  <1>t. orders \in [Orders -> Row] /\ exchange \in [Orders -> Fill]
    BY DEF TypeOK, Row, Fill
  <1>i. SettledInv(q) /\ OrderInv(q)
    BY DEF OrdersSettled, OrdersInv
  <1>m. ASSUME orders[q].status = "SUBMITTING",
               orders'[q].status \in {"FILLED", "PARTIALLY_FILLED", "CANCELLED"}
        PROVE  Goal
    BY <1>m DEF OrderTransitions
  <1>s. ASSUME orders'[q] = orders[q] PROVE Goal
    BY <1>s
  <1> HIDE DEF Goal
  <1>1. ASSUME NEW o \in Orders, AcceptIntent(o) PROVE Goal
    <2>1. PICK quantity \in Sizes :
              orders' = [orders EXCEPT ![o] = SubmittingRow(quantity)]
      BY <1>1 DEF AcceptIntent
    <2>2. q = o => orders[q].status = "ABSENT"
      BY <1>i, <1>1 DEF AcceptIntent, Goto, OrderInv
    <2>3. q # o => orders'[q] = orders[q]
      BY <1>t, <2>1
    <2> QED BY <1>s, <2>2, <2>3 DEF Goal
  <1>2. ASSUME NEW o \in Orders, Book(o) \/ RecordFillRefused(o) PROVE Goal
    <2>1. CommitFill(o) /\ pc[o] \in Flushed
      BY <1>2 DEF Book, RecordFillRefused, Finish
    <2>2. CASE q = o
      <3>1. orders[q].status = "SUBMITTING"
        BY <1>i, <2>1, <2>2 DEF SettledInv, Flushed
      <3>2. orders'[q] = FilledRow(q, exchange[q])
        BY <1>t, <2>1, <2>2 DEF CommitFill
      <3>3. orders'[q].status \in {"FILLED", "PARTIALLY_FILLED"}
        BY <1>t, <3>2, FilledRowType DEF Fill
      <3> QED BY <1>m, <3>1, <3>3
    <2>3. CASE q # o
      BY <1>t, <1>s, <2>1, <2>3 DEF CommitFill
    <2> QED BY <2>2, <2>3
  <1>3. CASE ReconCommit
    <2>1. orders'[q] = Reconciled(q, verdict[q])
      BY <1>3 DEF ReconCommit
    <2>2. CASE verdict[q] \in {"fill", "cancel"}
      <3>1. orders[q].status = "SUBMITTING"
        BY <1>i, <2>2 DEF SettledInv
      <3>2. orders'[q].status \in {"FILLED", "CANCELLED"}
        BY <1>t, <2>1, <2>2, ReconciledType
      <3> QED BY <1>m, <3>1, <3>2 DEF Goal
    <2>3. CASE verdict[q] \notin {"fill", "cancel"}
      BY <1>t, <1>s, <2>1, <2>3, ReconciledType DEF Goal
    <2> QED BY <2>2, <2>3
  <1>4. CASE Restart
    <2>1. \/ orders'[q] = orders[q]
          \/ Orphaned(q)
             /\ \E answer \in {"fill", "cancel"} :
                    orders'[q] = Reconciled(q, answer)
      BY <1>4 DEF Restart
    <2>2. ASSUME Orphaned(q), NEW answer \in {"fill", "cancel"},
                 orders'[q] = Reconciled(q, answer)
          PROVE  Goal
      <3>1. orders'[q].status \in {"FILLED", "CANCELLED"}
        BY <1>t, <2>2, ReconciledType
      <3> QED BY <1>m, <2>2, <3>1 DEF Orphaned
    <2> QED BY <1>s, <2>1, <2>2 DEF Goal
  <1>5. CASE orders' = orders
    BY <1>s, <1>5 DEF Goal
  <1>6. \/ orders' = orders
        \/ \E o \in Orders : AcceptIntent(o) \/ Book(o) \/ RecordFillRefused(o)
        \/ ReconCommit \/ Restart
    BY DEF Next, PipelineStep, ExchangeStep, ReconcilerStep, HostStep, vars,
           database, remote, run, recon, host, CheckStatus, RejectIntent,
           SubmitReturns, SubmitFails, PositionRowRefused, PlaceOco,
           PortfolioRowRefused, ExchangeFills, RequestExpires, ReconSelect,
           ReconQuery, ReconFlush, OperatorHalt, OperatorResume, Crash
  <1> QED BY <1>1, <1>2, <1>3, <1>4, <1>5, <1>6 DEF Goal

\* ORDER_TRANSITIONS is respected by writers that never consult it.
THEOREM LegalTransitionsHolds ==
  ASSUME Reliable
  PROVE  Spec => LegalTransitions
  <1>1. TypeOK /\ OrdersInv /\ OrdersSettled /\ [Next]_vars
          => [\A o \in Orders :
                \/ orders'[o].status = orders[o].status
                \/ orders[o].status = "ABSENT"
                \/ orders'[o].status
                        \in OrderTransitions(orders[o].status)]_orders
    BY LegalStep
  <1>2. TypeOK /\ OrdersInv /\ OrdersSettled /\ [Next]_vars => OrdersSettled'
    BY OrdersSettledStep
  <1> QED
    BY <1>1, <1>2, OrdersSettledInit, TypeCorrect, OrdersInvariant, PTL
    DEF Spec, LegalTransitions

\* A transaction that settles a set of orders is the abstract Settle.
LEMMA SettleStep ==
  ASSUME NEW S \in SUBSET Orders, UNCHANGED <<exchange, expired>>,
         \A o \in Orders \ S : orders'[o] = orders[o],
         \A o \in S :
            /\ orders[o].status = "SUBMITTING"
            /\ \/ /\ orders'[o].status \in {"FILLED", "PARTIALLY_FILLED"}
                  /\ Executed(o)
               \/ orders'[o].status = "CANCELLED" /\ ~Reported(o)
  PROVE  [Lifecycle!Next]_([o \in Orders |-> Stage(o)])
  <1> DEFINE stage == [o \in Orders |-> Stage(o)]
  <1>1. \A o \in Orders \ S : Stage(o)' = Stage(o)
    BY DEF Stage, Executed, Reported
  <1>2. CASE S = {}
    <2>1. stage' = stage
      BY <1>1, <1>2
    <2> QED BY <2>1
  <1>3. CASE S # {}
    <2> DEFINE end == [o \in S |-> IF orders'[o].status = "CANCELLED"
                                   THEN "void" ELSE "recorded"]
    <2>1. ASSUME NEW o \in S
          PROVE  /\ Stage(o)' = end[o]
                 /\ end[o] \in IF Reported(o) THEN {"recorded"}
                               ELSE IF o \in expired THEN {"recorded", "void"}
                               ELSE {"void"}
                 /\ Stage(o) = IF Reported(o) THEN "executed"
                               ELSE IF o \in expired THEN "expired"
                               ELSE "intended"
      BY DEF Stage, Executed, Reported
    <2>2. end \in [S -> {"recorded", "void"}]
      OBVIOUS
    <2> HIDE DEF end
    <2>3. \A o \in S : end[o] \in Lifecycle!Ends(o)
      BY <2>1 DEF Lifecycle!Ends
    <2>4. stage' = [o \in Orders |-> IF o \in S THEN end[o] ELSE stage[o]]
      BY <1>1, <2>1
    <2>5. Lifecycle!Settle(S)
      BY <1>3, <2>2, <2>3, <2>4 DEF Lifecycle!Settle
    <2> QED BY <2>5 DEF Lifecycle!Next
  <1> QED BY <1>2, <1>3

\* A step that touches neither the order rows nor the executions is abstractly
\* no step.
LEMMA StutterStep ==
  ASSUME orders' = orders, UNCHANGED <<exchange, expired>>
  PROVE  [Lifecycle!Next]_([o \in Orders |-> Stage(o)])
  <1>1. \A o \in Orders : Stage(o)' = Stage(o)
    BY DEF Stage, Executed, Reported
  <1> QED BY <1>1

LEMMA LifecycleInit == Init => Lifecycle!Init
  BY DEF Init, Lifecycle!Init, Stage, NoOrder

LEMMA LifecycleStep ==
  ASSUME Reliable, TypeOK, OrdersInv, OrdersSettled, [Next]_vars
  PROVE  [Lifecycle!Next]_([o \in Orders |-> Stage(o)])
  <1> DEFINE Goal == [Lifecycle!Next]_([o \in Orders |-> Stage(o)])
  <1>t. /\ orders \in [Orders -> Row]
        /\ exchange \in [Orders -> Fill]
        /\ verdict \in [Orders -> {"none", "pending", "fill", "cancel",
                                   "error"}]
    BY DEF TypeOK, Row, Fill
  <1>r. ~QueryMayFail
    BY DEF Reliable
  <1>i. \A o \in Orders : SettledInv(o) /\ OrderInv(o)
    BY DEF OrdersSettled, OrdersInv
  <1>s. ASSUME orders' = orders, UNCHANGED <<exchange, expired>> PROVE Goal
    BY <1>s, StutterStep
  <1> HIDE DEF Goal
  <1> USE DEF database, remote, run, recon, host
  <1>1. ASSUME NEW o \in Orders, CheckStatus(o) PROVE Goal
    BY <1>s, <1>1 DEF CheckStatus
  <1>2. ASSUME NEW o \in Orders, RejectIntent(o) PROVE Goal
    BY <1>s, <1>2 DEF RejectIntent
  <1>3. ASSUME NEW o \in Orders, AcceptIntent(o) PROVE Goal
    <2>1. PICK quantity \in Sizes :
              orders' = [orders EXCEPT ![o] = SubmittingRow(quantity)]
      BY <1>3 DEF AcceptIntent
    <2>2. UNCHANGED <<exchange, expired>> /\ ~Executed(o)
          /\ o \notin expired /\ orders[o].status = "ABSENT"
      BY <1>i, <1>t, <1>3 DEF AcceptIntent, Goto, OrderInv, Executed
    <2>3. Stage(o) = "none" /\ Stage(o)' = "intended"
      BY <1>t, <2>1, <2>2 DEF Stage, SubmittingRow, Executed, Reported
    <2>4. \A p \in Orders : p # o => Stage(p)' = Stage(p)
      BY <1>t, <2>1, <2>2 DEF Stage, Executed, Reported
    <2>5. Lifecycle!Intend(o)
      BY <2>3, <2>4 DEF Lifecycle!Intend
    <2> QED BY <2>5 DEF Goal, Lifecycle!Next
  <1>4. ASSUME NEW o \in Orders, SubmitReturns(o) PROVE Goal
    BY <1>s, <1>4 DEF SubmitReturns
  <1>5. ASSUME NEW o \in Orders, SubmitFails(o) PROVE Goal
    BY <1>s, <1>5 DEF SubmitFails
  <1>6. ASSUME NEW o \in Orders, PositionRowRefused(o) PROVE Goal
    BY <1>s, <1>6 DEF PositionRowRefused
  <1>7. ASSUME NEW o \in Orders, PlaceOco(o) PROVE Goal
    BY <1>s, <1>7 DEF PlaceOco
  <1>8. ASSUME NEW o \in Orders, Book(o) PROVE Goal
    <2>1. UNCHANGED <<exchange, expired>> /\ Executed(o)
          /\ orders[o].status = "SUBMITTING"
      BY <1>i, <1>8 DEF Book, Finish, Flushed, SettledInv, OrderInv, Executed
    <2>2. orders' = [orders EXCEPT ![o] = FilledRow(o, exchange[o])]
      BY <1>8 DEF Book, CommitFill
    <2>3. orders'[o].status \in {"FILLED", "PARTIALLY_FILLED"}
      BY <1>t, <2>2, FilledRowType DEF Fill
    <2>4. \A p \in Orders \ {o} : orders'[p] = orders[p]
      BY <1>t, <2>2
    <2> QED BY <2>1, <2>3, <2>4, SettleStep DEF Goal
  <1>9. ASSUME NEW o \in Orders, RecordFillRefused(o) PROVE Goal
    <2>1. UNCHANGED <<exchange, expired>> /\ Executed(o)
          /\ orders[o].status = "SUBMITTING"
      BY <1>i, <1>9 DEF RecordFillRefused, Finish, Flushed, SettledInv, OrderInv,
                        Executed
    <2>2. orders' = [orders EXCEPT ![o] = FilledRow(o, exchange[o])]
      BY <1>9 DEF RecordFillRefused, CommitFill
    <2>3. orders'[o].status \in {"FILLED", "PARTIALLY_FILLED"}
      BY <1>t, <2>2, FilledRowType DEF Fill
    <2>4. \A p \in Orders \ {o} : orders'[p] = orders[p]
      BY <1>t, <2>2
    <2> QED BY <2>1, <2>3, <2>4, SettleStep DEF Goal
  <1>10. ASSUME NEW o \in Orders, PortfolioRowRefused(o) PROVE Goal
    BY <1>s, <1>10 DEF PortfolioRowRefused
  <1>11. ASSUME NEW o \in Orders, ExchangeFills(o) PROVE Goal
    <2>1. PICK fill \in Fills(orders[o].requested) :
              exchange' = [exchange EXCEPT ![o] = fill]
      BY <1>11 DEF ExchangeFills
    <2>2. fill.qty > 0
      BY <1>t, FillsType DEF Row
    <2>3. /\ orders' = orders /\ ~Executed(o) /\ orders[o].status = "SUBMITTING"
          /\ o \notin expired
          /\ \A p \in Orders : p # o => (p \in expired' <=> p \in expired)
      BY <1>i, <1>t, <1>11 DEF ExchangeFills, SettledInv, OrderInv, Executed
    <2>4. Stage(o) = "intended" /\ Stage(o)' \in {"executed", "expired"}
      BY <1>t, <2>1, <2>2, <2>3 DEF Stage, Executed, Reported
    <2>5. \A p \in Orders : p # o => Stage(p)' = Stage(p)
      BY <1>t, <2>1, <2>3 DEF Stage, Executed, Reported
    <2>6. Lifecycle!Execute(o)
      BY <2>4, <2>5 DEF Lifecycle!Execute
    <2> QED BY <2>6 DEF Goal, Lifecycle!Next
  <1>12. ASSUME NEW o \in Orders, RequestExpires(o) PROVE Goal
    BY <1>s, <1>12 DEF RequestExpires
  <1>13. ASSUME ReconSelect PROVE Goal
    BY <1>s, <1>13 DEF ReconSelect
  <1>14. ASSUME NEW o \in Orders, ReconQuery(o) PROVE Goal
    BY <1>s, <1>14 DEF ReconQuery
  <1>15. ASSUME ReconFlush PROVE Goal
    BY <1>s, <1>15 DEF ReconFlush
  <1>16. ASSUME ReconCommit PROVE Goal
    <2> DEFINE S == {o \in Orders : verdict[o] \in {"fill", "cancel"}}
    <2>1. UNCHANGED <<exchange, expired>>
          /\ \A o \in Orders : orders'[o] = Reconciled(o, verdict[o])
      BY <1>16 DEF ReconCommit
    <2>2. \A o \in Orders \ S : orders'[o] = orders[o]
      BY <1>t, <2>1, ReconciledType
    <2>3. ASSUME NEW o \in S
          PROVE  /\ orders[o].status = "SUBMITTING"
                 /\ \/ /\ orders'[o].status \in {"FILLED", "PARTIALLY_FILLED"}
                       /\ Executed(o)
                    \/ orders'[o].status = "CANCELLED" /\ ~Reported(o)
      <3>1. CASE verdict[o] = "fill"
        BY <1>i, <1>t, <2>1, <3>1, ReconciledType
        DEF SettledInv, OrderInv, Executed
      <3>2. CASE verdict[o] = "cancel"
        BY <1>i, <1>t, <2>1, <3>2, ReconciledType
        DEF SettledInv, OrderInv, Executed
      <3> QED BY <3>1, <3>2
    <2> QED BY <2>1, <2>2, <2>3, SettleStep DEF Goal
  <1>17. ASSUME OperatorHalt PROVE Goal
    BY <1>s, <1>17 DEF OperatorHalt
  <1>18. ASSUME OperatorResume PROVE Goal
    BY <1>s, <1>18 DEF OperatorResume
  <1>19. ASSUME Crash PROVE Goal
    BY <1>s, <1>19 DEF Crash
  <1>20. ASSUME Restart PROVE Goal
    <2>0. PICK old \in SUBSET {o \in Orders : Orphaned(o)} :
            \E answer \in [old -> {"fill", "cancel"}] :
              /\ \A o \in old : /\ answer[o] \in Answers(o)
                                /\ connected' \/ answer[o] = "cancel"
              /\ orders' = [o \in Orders |-> IF o \in old
                                             THEN Reconciled(o, answer[o])
                                             ELSE orders[o]]
      BY <1>20 DEF Restart
    <2>1. PICK answer \in [old -> {"fill", "cancel"}] :
            /\ \A o \in old : /\ answer[o] \in Answers(o)
                              /\ connected' \/ answer[o] = "cancel"
            /\ orders' = [o \in Orders |-> IF o \in old
                                           THEN Reconciled(o, answer[o])
                                           ELSE orders[o]]
      BY <2>0
    <2>2. UNCHANGED <<exchange, expired>>
          /\ \A o \in Orders \ old : orders'[o] = orders[o]
      BY <1>20, <2>1 DEF Restart
    <2>3. ASSUME NEW o \in old
          PROVE  /\ orders[o].status = "SUBMITTING"
                 /\ \/ /\ orders'[o].status \in {"FILLED", "PARTIALLY_FILLED"}
                       /\ Executed(o)
                    \/ orders'[o].status = "CANCELLED" /\ ~Reported(o)
      <3>1. orders'[o] = Reconciled(o, answer[o])
        BY <2>1
      <3>2. answer[o] = IF Reported(o) THEN "fill" ELSE "cancel"
        BY <1>r, <2>1 DEF Answers
      <3> QED BY <1>t, <3>1, <3>2, ReconciledType DEF Orphaned, Reported
    <2> QED BY <2>2, <2>3, SettleStep DEF Goal
  <1>21. ASSUME UNCHANGED vars PROVE Goal
    BY <1>s, <1>21 DEF vars
  <1> QED
    BY <1>1, <1>2, <1>3, <1>4, <1>5, <1>6, <1>7, <1>8, <1>9, <1>10,
       <1>11, <1>12, <1>13, <1>14, <1>15, <1>16, <1>17, <1>18, <1>19,
       <1>20, <1>21
    DEF Goal, Next, PipelineStep, ExchangeStep, ReconcilerStep, HostStep

\* When queries answer and no run outlasts the reconciler's threshold, the
\* pipeline, the reconcilers, the exchange and crashes implement the abstract
\* life of a trade: durable before executed, executed at most once, recorded
\* exactly if executed, except that what expired after a part of it was bought
\* may also be given up.
THEOREM Refinement ==
  ASSUME Reliable
  PROVE  Spec => ImplementsLifecycle
  <1>1. TypeOK /\ OrdersInv /\ OrdersSettled /\ [Next]_vars
          => [Lifecycle!Next]_([o \in Orders |-> Stage(o)])
    BY LifecycleStep
  <1>2. TypeOK /\ OrdersInv /\ OrdersSettled /\ [Next]_vars => OrdersSettled'
    BY OrdersSettledStep
  <1> QED
    BY <1>1, <1>2, LifecycleInit, OrdersSettledInit, TypeCorrect,
       OrdersInvariant, PTL
    DEF Spec, ImplementsLifecycle, Lifecycle!Spec
=============================================================================
