------------------------ MODULE ApprovalFlow_proofs ------------------------
(***************************************************************************)
(* Nothing is bought unapproved and nothing recorded that was not bought,  *)
(* for any orders, requests, prices, batches and crashes.                  *)
(***************************************************************************)
EXTENDS ApprovalFlow, PortfolioLedger_proofs

Rows == [status : {"ABSENT"} \cup OrderStatuses, filled : Nat, known : BOOLEAN]

Typed ==
    /\ orders \in [Orders -> Rows]
    /\ positions \in [Orders -> [price : Nat, qty : Nat]]
    /\ exchange \in [Orders -> [price : Nat, qty : Nat]]
    /\ sent \in [Orders -> BOOLEAN]
    /\ outcome \in [Orders -> {"none", "refused", "booked", "unfunded"}]
    /\ batch \in Seq(Orders)
    /\ step = "submitting" => batch # <<>>

\* An order that waits for the executor, or is in its batch, was approved.
QueueApproved ==
    /\ \A o \in Orders : orders[o].status = "SUBMITTED" => o \in approved
    /\ \A i \in 1 .. Len(batch) : batch[i] \in approved

\* The cycle has decided nothing on an execution that does not exist.
OutcomeTruthful ==
    \A o \in Orders : outcome[o] \in {"booked", "unfunded"} => Executed(o)

IInv ==
    /\ Typed /\ QueueApproved /\ OutcomeTruthful
    /\ ApprovedFirst /\ RecordsTruthful

USE ApprovalNumbers
USE DEF database, remote, people, cycle, host

-----------------------------------------------------------------------------
\* Writing the status of a row leaves the rest of it.
LEMMA Restated ==
    ASSUME NEW row \in Rows, NEW new \in OrderStatuses
    PROVE  /\ [row EXCEPT !.status = new] \in Rows
           /\ [row EXCEPT !.status = new].status = new
           /\ [row EXCEPT !.status = new].known = row.known
           /\ [row EXCEPT !.status = new].filled = row.filled
  BY DEF Rows

LEMMA InitIInv == Init => IInv
  <1> SUFFICES ASSUME Init PROVE IInv
    OBVIOUS
  <1> USE DEF Init, NoOrder, NoFill
  <1>1. Typed
    <2>1. batch \in Seq(Orders)
      OBVIOUS
    <2>2. NoOrder \in Rows
      BY DEF Rows
    <2> QED BY <2>1, <2>2 DEF Typed
  <1>2. QueueApproved /\ OutcomeTruthful /\ ApprovedFirst /\ RecordsTruthful
    BY DEF QueueApproved, OutcomeTruthful, ApprovedFirst, RecordsTruthful, Executed, Opened
  <1> QED BY <1>1, <1>2 DEF IInv

\* What the database says of an order changes only in its status, and only an
\* approver's request makes it SUBMITTED.
LEMMA StatusKeeps ==
    ASSUME IInv, NEW o \in Orders,
           CreatePending(o) \/ \E d \in Deciders : Write(o, d)
    PROVE  IInv'
  <1> USE DEF IInv
  <1>1. PICK new \in {"PENDING_APPROVAL", "SUBMITTED", "REJECTED"} :
          orders' = [orders EXCEPT ![o].status = new]
    BY DEF CreatePending, Write, Target
  <1>2. approved \subseteq approved'
    BY DEF CreatePending, Write
  <1>3. orders'[o].status = "SUBMITTED" => o \in approved'
    BY DecidersDisjoint DEF CreatePending, Write, Target, Typed, Deciders, Rows
  <1>4. UNCHANGED <<positions, remote, outcome, batch, step>>
    BY DEF CreatePending, Write
  <1>5. /\ orders'[o] = [orders[o] EXCEPT !.status = new]
        /\ \A p \in Orders \ {o} : orders'[p] = orders[p]
    BY <1>1 DEF Typed
  <1>6. Typed'
    <2>1. [orders[o] EXCEPT !.status = new]
            \in Rows
      BY Restated DEF Typed, OrderStatuses
    <2>2. orders' = [orders EXCEPT ![o] = [orders[o] EXCEPT !.status = new]]
      BY <1>1
    <2>3. orders' \in [Orders -> Rows]
      BY <2>1, <2>2 DEF Typed
    <2> QED BY <1>4, <2>3 DEF Typed
  <1>7. QueueApproved'
    BY <1>2, <1>3, <1>4, <1>5 DEF QueueApproved
  <1>8. RecordsTruthful'
    <2> SUFFICES ASSUME NEW p \in Orders
                 PROVE  /\ orders'[p].status \in {"FILLED", "PARTIALLY_FILLED"} => Executed(p)'
                        /\ orders'[p].known <=> Opened(p)'
                        /\ Opened(p)' => /\ positions'[p] = exchange'[p]
                                         /\ orders'[p].filled = exchange'[p].qty
      BY DEF RecordsTruthful
    <2>1. /\ orders'[p].known = orders[p].known /\ orders'[p].filled = orders[p].filled
          /\ orders'[p].status \in {orders[p].status, new}
      <3>1. new \in OrderStatuses /\ orders[p] \in Rows
        BY DEF OrderStatuses, Typed
      <3>2. CASE p = o
        <4> DEFINE row == [orders[p] EXCEPT !.status = new]
        <4>1. row.known = orders[p].known /\ row.filled = orders[p].filled /\ row.status = new
          BY <3>1, Restated
        <4>2. orders'[p] = row
          BY <1>5, <3>2
        <4> HIDE DEF row
        <4> QED BY <4>1, <4>2
      <3> QED BY <1>5, <3>2
    <2> QED BY <1>4, <2>1 DEF RecordsTruthful, Executed, Opened
  <1>9. OutcomeTruthful' /\ ApprovedFirst'
    BY <1>2, <1>4 DEF OutcomeTruthful, ApprovedFirst, Executed
  <1> QED BY <1>6, <1>7, <1>8, <1>9

\* The daily task makes orders EXPIRED and touches nothing else.
LEMMA ExpireKeeps ==
    ASSUME IInv, Expire
    PROVE  IInv'
  <1> USE DEF IInv
  <1>1. UNCHANGED <<positions, remote, outcome, batch, step, approved>>
    BY DEF Expire
  <1>2. \A o \in Orders : orders'[o] \in {orders[o], [orders[o] EXCEPT !.status = "EXPIRED"]}
    BY DEF Expire
  <1>3. \A o \in Orders :
          /\ orders'[o] \in Rows
          /\ orders'[o].known = orders[o].known /\ orders'[o].filled = orders[o].filled
          /\ orders'[o].status \in {orders[o].status, "EXPIRED"}
    <2>1. "EXPIRED" \in OrderStatuses /\ \A o \in Orders : orders[o] \in Rows
      BY DEF OrderStatuses, Typed
    <2> SUFFICES ASSUME NEW o \in Orders
                 PROVE  /\ orders'[o] \in Rows
                        /\ orders'[o].known = orders[o].known
                        /\ orders'[o].filled = orders[o].filled
                        /\ orders'[o].status \in {orders[o].status, "EXPIRED"}
      OBVIOUS
    <2> DEFINE row == [orders[o] EXCEPT !.status = "EXPIRED"]
    <2>2. /\ row \in Rows /\ row.known = orders[o].known /\ row.filled = orders[o].filled
          /\ row.status = "EXPIRED"
      BY <2>1, Restated
    <2>3. orders'[o] \in {orders[o], row}
      BY <1>2
    <2> HIDE DEF row
    <2> QED BY <2>1, <2>2, <2>3
  <1>4. Typed'
    <2>2. orders' = [o \in Orders |-> orders'[o]]
      BY DEF Expire
    <2>3. orders' \in [Orders -> Rows]
      BY <1>3, <2>2
    <2> QED BY <1>1, <2>3 DEF Typed
  <1>5. QueueApproved' /\ RecordsTruthful'
    BY <1>1, <1>3 DEF QueueApproved, RecordsTruthful, Executed, Opened
  <1>6. OutcomeTruthful' /\ ApprovedFirst'
    BY <1>1 DEF OutcomeTruthful, ApprovedFirst, Executed
  <1> QED BY <1>4, <1>5, <1>6

\* The poll takes what waits, and what waits was approved.
LEMMA PollKeeps ==
    ASSUME IInv, Poll
    PROVE  IInv'
  <1> USE DEF IInv
  <1>1. UNCHANGED <<database, remote, outcome, approved>>
    BY DEF Poll
  <1>6. step' = "polled"
    BY DEF Poll
  <1>2. batch' \in Oldest({o \in Orders : Waiting(o)})
    BY DEF Poll
  <1>3. PICK n \in 1 .. BatchLimit : batch' \in [1 .. n -> {o \in Orders : Waiting(o)}]
    BY <1>2 DEF Oldest
  <1>4. n \in Nat /\ batch' \in Seq(Orders) /\ Len(batch') = n
    BY <1>3
  <1>5. \A i \in 1 .. Len(batch') : batch'[i] \in approved
    BY <1>3, <1>4 DEF QueueApproved, Waiting
  <1> QED BY <1>1, <1>4, <1>5, <1>6
       DEF Typed, QueueApproved, OutcomeTruthful, ApprovedFirst, RecordsTruthful,
           Executed, Opened

\* The first order of the batch is decided, or sent to the exchange.
LEMMA ExecutorKeeps ==
    ASSUME IInv, Refuse \/ Send \/ SubmitReturns \/ SubmitFails
    PROVE  IInv'
  <1> USE DEF IInv
  <1>0. batch # <<>> /\ Current \in Orders /\ Current \in approved
    <2>1. batch # <<>> /\ batch \in Seq(Orders)
      BY DEF Typed, Refuse, Send, SubmitReturns, SubmitFails
    <2>2. 1 \in 1 .. Len(batch) /\ Head(batch) = batch[1] /\ Head(batch) \in Orders
      BY <2>1
    <2> QED BY <2>1, <2>2 DEF QueueApproved, Current
  <1>1. UNCHANGED <<database, exchange, approved>>
    BY DEF Refuse, Send, SubmitReturns, SubmitFails
  <1>2. CASE Send
    <2>1. sent' = [sent EXCEPT ![Current] = ~Executed(Current)] /\ UNCHANGED <<batch, outcome>>
          /\ batch # <<>>
      BY <1>2 DEF Send
    <2>2. Typed'
      BY <1>0, <1>1, <2>1 DEF Typed
    <2>3. ApprovedFirst'
      BY <1>0, <1>1, <2>1 DEF ApprovedFirst, Executed, Typed
    <2> QED BY <1>1, <2>1, <2>2, <2>3
         DEF QueueApproved, OutcomeTruthful, RecordsTruthful, Executed, Opened
  <1>3. CASE Refuse \/ SubmitReturns \/ SubmitFails
    <2>1. PICK result \in {"refused", "booked", "unfunded"} :
            /\ Decide(Current, result)
            /\ result # "refused" => Executed(Current)
      BY <1>3 DEF Refuse, SubmitReturns, SubmitFails, PositionRowOk, Executed
    <2>2. UNCHANGED sent
      BY <1>3 DEF Refuse, SubmitReturns, SubmitFails
    <2>3. /\ outcome' = [outcome EXCEPT ![Current] = result]
          /\ batch' = Tail(batch) /\ step' = "checking"
      BY <2>1 DEF Decide
    <2>4. /\ Tail(batch) \in Seq(Orders)
          /\ \A i \in 1 .. Len(Tail(batch)) :
                i + 1 \in 1 .. Len(batch) /\ Tail(batch)[i] = batch[i + 1]
      <3>1. batch \in Seq(Orders) /\ batch # <<>>
        BY <1>0 DEF Typed
      <3>2. /\ Tail(batch) \in Seq(Orders) /\ Len(Tail(batch)) = Len(batch) - 1
            /\ Len(batch) \in Nat
        BY <3>1
      <3>3. \A i \in 1 .. Len(Tail(batch)) : Tail(batch)[i] = batch[i + 1]
        BY <3>1
      <3> QED BY <3>2, <3>3
    <2>5. Typed'
      BY <1>1, <2>2, <2>3, <2>4 DEF Typed
    <2>6. QueueApproved'
      BY <1>1, <2>3, <2>4 DEF QueueApproved
    <2>7. OutcomeTruthful'
      BY <1>0, <1>1, <2>1, <2>3 DEF OutcomeTruthful, Executed, Typed
    <2> QED BY <1>1, <2>2, <2>5, <2>6, <2>7
         DEF ApprovedFirst, RecordsTruthful, Executed, Opened
  <1> QED BY <1>2, <1>3

\* The commit writes what the exchange did, for every order of the cycle.
LEMMA CommitKeeps ==
    ASSUME IInv, CommitCycle
    PROVE  IInv'
  <1> USE DEF IInv
  <1>1. UNCHANGED <<remote, batch, approved>> /\ step' = "idle"
    BY DEF CommitCycle
  <1>2. outcome' = [o \in Orders |-> "none"]
    BY DEF CommitCycle
  <1>3. \A o \in Orders :
          /\ outcome[o] \in {"none", "refused"} =>
                /\ positions'[o] = positions[o]
                /\ orders'[o] \in {orders[o], [orders[o] EXCEPT !.status = "REJECTED"]}
          /\ outcome[o] \in {"booked", "unfunded"} =>
                /\ positions'[o] = exchange[o]
                /\ orders'[o] \in {FilledRow(o), [FilledRow(o) EXCEPT !.status = "REJECTED"]}
    BY DEF CommitCycle, RefusedRow, PositionRow
  <1>4. \A o \in Orders : outcome[o] \in {"none", "refused", "booked", "unfunded"}
    BY DEF Typed
  <1>5. \A o \in Orders : outcome[o] \in {"none", "refused"} =>
          /\ orders'[o] \in Rows
          /\ orders'[o].known = orders[o].known /\ orders'[o].filled = orders[o].filled
          /\ orders'[o].status \in {orders[o].status, "REJECTED"}
    <2>1. "REJECTED" \in OrderStatuses /\ \A o \in Orders : orders[o] \in Rows
      BY DEF OrderStatuses, Typed
    <2> SUFFICES ASSUME NEW o \in Orders, outcome[o] \in {"none", "refused"}
                 PROVE  /\ orders'[o] \in Rows
                        /\ orders'[o].known = orders[o].known
                        /\ orders'[o].filled = orders[o].filled
                        /\ orders'[o].status \in {orders[o].status, "REJECTED"}
      OBVIOUS
    <2> DEFINE row == [orders[o] EXCEPT !.status = "REJECTED"]
    <2>2. /\ row \in Rows /\ row.known = orders[o].known /\ row.filled = orders[o].filled
          /\ row.status = "REJECTED"
      BY <2>1, Restated
    <2>3. orders'[o] \in {orders[o], row}
      BY <1>3
    <2> HIDE DEF row
    <2> QED BY <2>1, <2>2, <2>3
  <1>6. \A o \in Orders : outcome[o] \in {"booked", "unfunded"} =>
          /\ orders'[o] \in Rows
          /\ orders'[o].known = TRUE /\ orders'[o].filled = exchange[o].qty
          /\ orders'[o].status \in {"FILLED", "PARTIALLY_FILLED", "REJECTED"}
    <2>1. \A o \in Orders :
            /\ FilledRow(o) \in Rows
            /\ FilledRow(o).known = TRUE /\ FilledRow(o).filled = exchange[o].qty
            /\ FilledRow(o).status \in {"FILLED", "PARTIALLY_FILLED"}
      BY DEF FilledRow, Rows, OrderStatuses, Typed
    <2>2. "REJECTED" \in OrderStatuses
      BY DEF OrderStatuses
    <2> SUFFICES ASSUME NEW o \in Orders, outcome[o] \in {"booked", "unfunded"}
                 PROVE  /\ orders'[o] \in Rows
                        /\ orders'[o].known = TRUE /\ orders'[o].filled = exchange[o].qty
                        /\ orders'[o].status \in {"FILLED", "PARTIALLY_FILLED", "REJECTED"}
      OBVIOUS
    <2> DEFINE row == [FilledRow(o) EXCEPT !.status = "REJECTED"]
    <2>3. /\ row \in Rows /\ row.known = TRUE /\ row.filled = exchange[o].qty
          /\ row.status = "REJECTED"
      BY <2>1, <2>2, Restated
    <2>4. orders'[o] \in {FilledRow(o), row}
      BY <1>3
    <2> HIDE DEF row
    <2> QED BY <2>1, <2>3, <2>4
  <1>7. Typed'
    <2>1. \A o \in Orders :
            orders'[o] \in Rows
      BY <1>4, <1>5, <1>6
    <2>2. orders' = [o \in Orders |-> orders'[o]]
      BY DEF CommitCycle
    <2>3. orders' \in [Orders -> Rows]
      BY <2>1, <2>2
    <2>4. \A o \in Orders : positions'[o] \in [price : Nat, qty : Nat]
      BY <1>3, <1>4 DEF Typed
    <2>5. positions' = [o \in Orders |-> positions'[o]]
      BY DEF CommitCycle
    <2>6. positions' \in [Orders -> [price : Nat, qty : Nat]]
      BY <2>4, <2>5
    <2> QED BY <1>1, <1>2, <2>3, <2>6 DEF Typed
  <1>8. QueueApproved'
    BY <1>1, <1>4, <1>5, <1>6 DEF QueueApproved
  <1>9. OutcomeTruthful' /\ ApprovedFirst'
    BY <1>1, <1>2 DEF OutcomeTruthful, ApprovedFirst, Executed
  <1>10. RecordsTruthful'
    <2> SUFFICES ASSUME NEW o \in Orders
                 PROVE  /\ orders'[o].status \in {"FILLED", "PARTIALLY_FILLED"} => Executed(o)'
                        /\ orders'[o].known <=> Opened(o)'
                        /\ Opened(o)' => /\ positions'[o] = exchange'[o]
                                         /\ orders'[o].filled = exchange'[o].qty
      BY DEF RecordsTruthful
    <2>1. CASE outcome[o] \in {"none", "refused"}
      BY <1>1, <1>3, <1>5, <2>1 DEF RecordsTruthful, Executed, Opened
    <2>2. CASE outcome[o] \in {"booked", "unfunded"}
      BY <1>1, <1>3, <1>6, <2>2 DEF OutcomeTruthful, Executed, Opened
    <2> QED BY <1>4, <2>1, <2>2
  <1> QED BY <1>7, <1>8, <1>9, <1>10

\* The exchange executes only what was sent, and only once.
LEMMA ExchangeKeeps ==
    ASSUME IInv, NEW o \in Orders, ExchangeStep(o)
    PROVE  IInv'
  <1> USE DEF IInv
  <1>1. UNCHANGED <<database, approved, outcome, batch, step>>
    BY DEF ExchangeStep, ExchangeFills, RequestExpires
  <1>2. o \in approved
    BY DEF ExchangeStep, ExchangeFills, RequestExpires, ApprovedFirst
  <1>3. sent' = [sent EXCEPT ![o] = FALSE]
    BY DEF ExchangeStep, ExchangeFills, RequestExpires
  <1>4. \/ UNCHANGED exchange
        \/ /\ ~Executed(o)
           /\ \E fill \in Fills : exchange' = [exchange EXCEPT ![o] = fill]
    BY DEF ExchangeStep, ExchangeFills, RequestExpires
  <1>5. \A fill \in Fills : fill \in [price : Nat, qty : Nat] /\ fill.qty > 0
    <2>1. Quantity \in Nat /\ FillPrices \subseteq Nat
      OBVIOUS
    <2>2. 1 .. Quantity \subseteq Nat /\ \A n \in 1 .. Quantity : n > 0
      BY <2>1
    <2> QED BY <2>1, <2>2 DEF Fills
  <1>6. /\ exchange' \in [Orders -> [price : Nat, qty : Nat]]
        /\ \A p \in Orders : Executed(p) => exchange'[p] = exchange[p]
        /\ \A p \in Orders \ {o} : exchange'[p] = exchange[p]
    BY <1>4, <1>5 DEF Typed, Executed
  <1>7. Typed'
    BY <1>1, <1>3, <1>6 DEF Typed
  <1>8. ApprovedFirst'
    BY <1>1, <1>2, <1>3, <1>6 DEF ApprovedFirst, Executed, Typed
  <1>9. \A p \in Orders : Executed(p) => Executed(p)'
    BY <1>6 DEF Executed
  <1>10. RecordsTruthful'
    <2>1. \A p \in Orders : Opened(p) => Executed(p)
      BY DEF RecordsTruthful, Opened, Executed
    <2> QED BY <1>1, <1>6, <1>9, <2>1 DEF RecordsTruthful, Opened
  <1> QED BY <1>1, <1>7, <1>8, <1>9, <1>10 DEF QueueApproved, OutcomeTruthful

\* Everything else touches neither the rows nor the exchange, and a cycle that
\* ends early forgets what it has decided.
LEMMA RestKeeps ==
    ASSUME IInv,
           \/ \E o \in Orders, d \in Deciders : Read(o, d)
           \/ ReadStale \/ LockPortfolio \/ PositionRowRefused
           \/ OperatorHalt \/ OperatorResume \/ Crash \/ Restart
    PROVE  IInv'
  <1> USE DEF IInv
  <1>1. UNCHANGED <<database, remote, approved>>
    BY DEF Read, ReadStale, LockPortfolio, PositionRowRefused, OperatorHalt, OperatorResume,
           Crash, Restart
  <1>2. \/ UNCHANGED <<outcome, batch>> /\ (step' = "submitting" => step = "submitting")
        \/ /\ outcome' = [o \in Orders |-> "none"]
           /\ batch' = <<>> /\ step' = "idle"
    BY DEF Read, ReadStale, LockPortfolio, PositionRowRefused, OperatorHalt, OperatorResume,
           Crash, Restart
  <1>3. CASE UNCHANGED <<outcome, batch>> /\ (step' = "submitting" => step = "submitting")
    BY <1>1, <1>3 DEF Typed, QueueApproved, OutcomeTruthful, ApprovedFirst, RecordsTruthful,
                      Executed, Opened
  <1>4. CASE /\ outcome' = [o \in Orders |-> "none"]
             /\ batch' = <<>> /\ step' = "idle"
    <2>3. batch' \in Seq(Orders) /\ Len(batch') = 0
      BY <1>4
    <2>1. Typed'
      BY <1>1, <1>4, <2>3 DEF Typed
    <2>2. QueueApproved'
      BY <1>1, <1>4 DEF QueueApproved
    <2> QED BY <1>1, <1>4, <2>1, <2>2
         DEF OutcomeTruthful, ApprovedFirst, RecordsTruthful, Executed, Opened
  <1> QED BY <1>2, <1>3, <1>4

LEMMA SpecIInv == Spec => []IInv
  <1>1. ASSUME IInv, [Next]_vars
        PROVE  IInv'
    <2>1. CASE UNCHANGED vars
      BY <1>1, <2>1 DEF vars, IInv, Typed, QueueApproved, OutcomeTruthful, ApprovedFirst,
                        RecordsTruthful, Executed, Opened
    <2>2. CASE \E o \in Orders : CreatePending(o)
      BY <1>1, <2>2, StatusKeeps
    <2>3. CASE DecisionStep
      BY <1>1, <2>3, StatusKeeps, ExpireKeeps, RestKeeps DEF DecisionStep
    <2>4. CASE ExecutorStep
      BY <1>1, <2>4, PollKeeps, RestKeeps, ExecutorKeeps, CommitKeeps DEF ExecutorStep
    <2> QED BY <1>1, <2>1, <2>2, <2>3, <2>4, ExchangeKeeps, RestKeeps DEF Next
  <1> QED BY <1>1, InitIInv, PTL DEF Spec

-----------------------------------------------------------------------------
\* ApprovalService and ApprovalExecutor: nothing is sent or bought without a
\* committed approval, whichever decisions overlap and whatever crashes.
THEOREM ApprovedFirstHolds == Spec => []ApprovedFirst
  <1>1. IInv => ApprovedFirst
    BY DEF IInv
  <1> QED BY <1>1, SpecIInv, PTL

\* ApprovalExecutor's one transaction: rows and positions repeat what the
\* exchange did, for any batch and any partial execution.
THEOREM RecordsTruthfulHolds == Spec => []RecordsTruthful
  <1>1. IInv => RecordsTruthful
    BY DEF IInv
  <1> QED BY <1>1, SpecIInv, PTL

-----------------------------------------------------------------------------
\* The money.  What the cycle has debited is within the balance, and an order
\* it still handles has no position yet.
Undecided ==
    /\ \A i \in 1 .. Len(batch) : ~Opened(batch[i])
    /\ \A o \in Orders : outcome[o] # "none" => ~Opened(o)

MoneyInv ==
    /\ portfolio \in Portfolios
    /\ Undecided
    /\ Spent <= portfolio.available
    /\ LedgerSound

LEMMA CostTyped ==
    ASSUME NEW x \in [price : Nat, qty : Nat]
    PROVE  Value(x) \in Nat /\ (~(x.qty > 0) => Value(x) = 0)
  <1>1. x.price \in Nat /\ x.qty \in Nat
    OBVIOUS
  <1>2. \A n \in Nat : ~(n > 0) => n = 0
    OBVIOUS
  <1> QED BY <1>1, <1>2 DEF Value

LEMMA SumsTyped ==
    ASSUME Typed
    PROVE  /\ \A o \in Orders : Costs[o] \in Nat /\ Debits[o] \in Nat
           /\ Total(Costs, Orders) \in Nat /\ Spent \in Nat
  <1>1. \A o \in Orders : Costs[o] \in Nat /\ Debits[o] \in Nat
    BY CostTyped DEF Typed, Costs, Debits
  <1> QED BY <1>1, ApprovalOrders, SumNonnegative DEF Spent

LEMMA SpentRow ==
    ASSUME Typed, portfolio \in Portfolios
    PROVE  /\ SessionPortfolio \in Portfolios
           /\ SessionPortfolio.available = portfolio.available - Spent
           /\ SessionPortfolio.allocated = portfolio.allocated + Spent
           /\ SessionPortfolio.total = portfolio.total
           /\ Balanced(portfolio) => Balanced(SessionPortfolio)
  <1>1. Spent \in Int
    BY SumsTyped
  <1>2. SessionPortfolio = RecordFill(portfolio, Spent)
    BY DEF SessionPortfolio
  <1>3. /\ RecordFill(portfolio, Spent).available = portfolio.available - Spent
        /\ RecordFill(portfolio, Spent).allocated = portfolio.allocated + Spent
    BY DEF RecordFill, Portfolios
  <1> QED BY <1>1, <1>2, <1>3, RecordFillSound

\* A decision adds at most the order's own value to what the cycle spends.
LEMMA DecideSpends ==
    ASSUME Typed, NEW o \in Orders, NEW result \in {"refused", "booked", "unfunded"},
           outcome' = [outcome EXCEPT ![o] = result], exchange' = exchange
    PROVE  /\ Spent' \in Nat
           /\ Spent' <= Spent + IF result = "booked" THEN Value(exchange[o]) ELSE 0
  <1>1. /\ Debits'[o] = IF result = "booked" THEN Value(exchange[o]) ELSE 0
        /\ \A p \in Orders : p # o => Debits'[p] = Debits[p]
    BY DEF Debits, Typed
  <1>2. \A p \in Orders : Debits'[p] \in Nat
    BY CostTyped DEF Debits, Typed
  <1>3. \A p \in Orders : Debits[p] \in Nat
    BY SumsTyped
  <1>4. Spent' = Spent - Debits[o] + Debits'[o]
    <2>2. \A p \in Orders : Debits[p] \in Int /\ Debits'[p] \in Int
      BY <1>2, <1>3
    <2>3. \A p \in Orders : p # o => Debits'[p] = Debits[p]
      BY <1>1
    <2>4. IsFiniteSet(Orders)
      BY ApprovalOrders
    <2>1. Total(Debits', Orders) = Total(Debits, Orders) - Debits[o] + Debits'[o]
      BY ONLY <2>2, <2>3, <2>4, o \in Orders, SumChange
    <2> QED BY <2>1 DEF Spent
  <1>5. Spent' \in Nat
    BY <1>2, ApprovalOrders, SumNonnegative DEF Spent
  <1>6. Spent \in Nat
    BY SumsTyped
  <1> DEFINE added == Debits'[o]
  <1>7. Spent' = Spent - Debits[o] + added /\ added \in Int /\ Debits[o] \in Nat
    BY <1>2, <1>3, <1>4
  <1>8. added = IF result = "booked" THEN Value(exchange[o]) ELSE 0
    BY <1>1
  <1> HIDE DEF added
  <1>9. Spent' <= Spent + added
    BY <1>5, <1>6, <1>7
  <1> QED BY <1>5, <1>8, <1>9

\* The commit turns what the cycle spent into positions.
LEMMA CommitCosts ==
    ASSUME IInv, Undecided, CommitCycle
    PROVE  /\ \A o \in Orders : Costs'[o] \in Nat
           /\ Total(Costs', Orders) \in Nat
           /\ Total(Costs, Orders) + Spent <= Total(Costs', Orders)
           /\ (\A o \in Orders : outcome[o] # "unfunded")
                => Total(Costs', Orders) = Total(Costs, Orders) + Spent
  <1> DEFINE both == [o \in Orders |-> Costs[o] + Debits[o]]
  <1>1. Typed /\ \A o \in Orders : Costs[o] \in Nat /\ Debits[o] \in Nat
    BY SumsTyped DEF IInv
  <1>2. positions' = [o \in Orders |-> IF outcome[o] \in {"booked", "unfunded"}
                                       THEN exchange[o] ELSE positions[o]]
    BY DEF CommitCycle, PositionRow
  <1>3. \A o \in Orders : Costs'[o] = IF outcome[o] \in {"booked", "unfunded"}
                                      THEN Value(exchange[o]) ELSE Costs[o]
    BY <1>2 DEF Costs
  <1>4. \A o \in Orders : Costs'[o] \in Nat
    BY <1>1, <1>3, CostTyped DEF Typed
  <1>5. ASSUME NEW o \in Orders
        PROVE  /\ both[o] <= Costs'[o]
               /\ outcome[o] # "unfunded" => Costs'[o] = both[o]
    <2>1. CASE outcome[o] = "booked"
      <3>1. Costs[o] = 0
        BY <1>1, <2>1, CostTyped DEF Undecided, Opened, Costs, Typed
      <3>2. Debits[o] = Value(exchange[o]) /\ Costs'[o] = Value(exchange[o])
        BY <1>3, <2>1 DEF Debits
      <3> QED BY <1>1, <3>1, <3>2
    <2>2. CASE outcome[o] = "unfunded"
      <3>1. Costs[o] = 0
        BY <1>1, <2>2, CostTyped DEF Undecided, Opened, Costs, Typed
      <3>2. Debits[o] = 0
        BY <2>2 DEF Debits
      <3> QED BY <1>4, <2>2, <3>1, <3>2
    <2>3. CASE outcome[o] \notin {"booked", "unfunded"}
      <3>1. Debits[o] = 0 /\ Costs'[o] = Costs[o]
        BY <1>3, <2>3 DEF Debits
      <3> QED BY <1>1, <3>1
    <2> QED BY <2>1, <2>2, <2>3
  <1>6. \A o \in Orders : both[o] \in Int
    BY <1>1
  <1>7. Total(both, Orders) = Total(Costs, Orders) + Spent
    <2>1. \A o \in Orders : /\ Costs[o] \in Int /\ Debits[o] \in Int
                             /\ both[o] = Costs[o] + Debits[o]
      BY <1>1
    <2> HIDE DEF both
    <2> QED BY <2>1, ApprovalOrders, SumPlus DEF Spent
  <1> HIDE DEF both
  <1>8. Total(both, Orders) <= Total(Costs', Orders)
    <2>1. \A o \in Orders : both[o] \in Int /\ Costs'[o] \in Int /\ both[o] <= Costs'[o]
      BY <1>4, <1>5, <1>6
    <2> QED BY <2>1, ApprovalOrders, SumAtMost
  <1>9. (\A o \in Orders : outcome[o] # "unfunded")
          => Total(Costs', Orders) = Total(both, Orders)
    BY <1>5, <1>6, ApprovalOrders, SumSame
  <1>10. Total(Costs', Orders) \in Nat
    BY <1>4, ApprovalOrders, SumNonnegative
  <1> QED BY <1>4, <1>7, <1>8, <1>9, <1>10

LEMMA MoneyInit == Init => MoneyInv
  <1> SUFFICES ASSUME Init PROVE MoneyInv
    OBVIOUS
  <1>1. /\ portfolio \in Portfolios /\ Balanced(portfolio) /\ SatisfiesChecks(portfolio)
        /\ portfolio.total = InitialBalance /\ portfolio.allocated = 0
        /\ portfolio.available = InitialBalance /\ InitialBalance \in Nat
    BY NewPortfolioSound DEF Init, NewPortfolio
  <1>2. Typed
    BY InitIInv DEF IInv
  <1>3. Spent = 0
    <2>1. \A o \in Orders : Debits[o] = 0
      BY DEF Init, Debits
    <2> QED BY <2>1, ApprovalOrders, SumZero DEF Spent
  <1>4. Total(Costs, Orders) \in Nat
    BY <1>2, SumsTyped
  <1>5. Undecided
    <2>1. Len(batch) = 0 /\ \A o \in Orders : outcome[o] = "none"
      BY DEF Init
    <2> QED BY <2>1 DEF Undecided
  <1> QED BY <1>1, <1>3, <1>4, <1>5 DEF MoneyInv, LedgerSound

\* A step that leaves the money where it is.
LEMMA MoneyStays ==
    ASSUME MoneyInv, UNCHANGED <<positions, portfolio>>,
           Undecided', Spent' <= portfolio.available
    PROVE  MoneyInv'
  <1>1. Costs' = Costs
    BY DEF Costs
  <1> QED BY <1>1 DEF MoneyInv, LedgerSound, Balanced, SatisfiesChecks

LEMMA DecisionKeepsMoney ==
    ASSUME IInv, MoneyInv, Refuse \/ SubmitReturns \/ SubmitFails
    PROVE  MoneyInv'
  <1> USE DEF MoneyInv
  <1>0. /\ batch # <<>> /\ batch \in Seq(Orders)
        /\ Current = batch[1] /\ Current \in Orders /\ 1 \in 1 .. Len(batch)
    BY DEF IInv, Typed, Refuse, SubmitReturns, SubmitFails, Current
  <1>1. PICK result \in {"refused", "booked", "unfunded"} :
          /\ Decide(Current, result)
          /\ result = "booked" => CanPay(Current)
    BY DEF Refuse, SubmitReturns, SubmitFails
  <1>2. UNCHANGED <<database, remote>>
    BY DEF Refuse, SubmitReturns, SubmitFails
  <1>3. outcome' = [outcome EXCEPT ![Current] = result] /\ batch' = Tail(batch)
    BY <1>1 DEF Decide
  <1>4. Undecided'
    <2>1. \A i \in 1 .. Len(Tail(batch)) :
              i + 1 \in 1 .. Len(batch) /\ Tail(batch)[i] = batch[i + 1]
      <3>1. Len(Tail(batch)) = Len(batch) - 1 /\ Len(batch) \in Nat
        BY <1>0
      <3>2. \A i \in 1 .. Len(Tail(batch)) : Tail(batch)[i] = batch[i + 1]
        BY <1>0
      <3> QED BY <3>1, <3>2
    <2>2. ~Opened(Current)
      BY <1>0 DEF Undecided
    <2>3. \A o \in Orders : outcome'[o] # "none" => ~Opened(o)
      BY <1>3, <2>2 DEF Undecided, IInv, Typed
    <2> QED BY <1>2, <1>3, <2>1, <2>3 DEF Undecided, Opened
  <1>5. Spent' <= portfolio.available
    <2>1. /\ Spent' \in Nat
          /\ Spent' <= Spent + IF result = "booked" THEN Value(exchange[Current]) ELSE 0
      BY <1>0, <1>2, <1>3, DecideSpends DEF IInv
    <2>2. /\ Spent \in Nat /\ portfolio.available \in Int
          /\ Value(exchange[Current]) \in Nat
      BY <1>0, SumsTyped, CostTyped DEF IInv, Typed, Portfolios
    <2>3. CASE result = "booked"
      <3>1. Value(exchange[Current]) <= portfolio.available - Spent
        BY <1>1, <2>3, SpentRow DEF CanPay, IInv
      <3> QED BY <2>1, <2>2, <2>3, <3>1
    <2>4. CASE result # "booked"
      BY <2>1, <2>2, <2>4
    <2> QED BY <2>3, <2>4
  <1> QED BY <1>2, <1>4, <1>5, MoneyStays

LEMMA CommitKeepsMoney ==
    ASSUME IInv, MoneyInv, CommitCycle
    PROVE  MoneyInv'
  <1> USE DEF MoneyInv
  <1>1. /\ portfolio' = SessionPortfolio /\ batch = <<>> /\ batch' = batch
        /\ outcome' = [o \in Orders |-> "none"]
    BY DEF CommitCycle
  <1>2. /\ SessionPortfolio \in Portfolios
        /\ SessionPortfolio.available = portfolio.available - Spent
        /\ SessionPortfolio.allocated = portfolio.allocated + Spent
        /\ SessionPortfolio.total = portfolio.total
        /\ Balanced(SessionPortfolio)
    BY SpentRow DEF IInv, LedgerSound
  <1>3. /\ Spent \in Nat /\ portfolio.available \in Int /\ portfolio.allocated \in Int
        /\ portfolio.total \in Int
    BY SumsTyped DEF IInv, Portfolios
  <1>4. portfolio'.available >= 0 /\ portfolio'.allocated <= portfolio'.total
    <2>1. portfolio.available - Spent >= 0
      BY <1>3
    <2>2. (portfolio.available - Spent) + (portfolio.allocated + Spent) = portfolio.total
      BY <1>2 DEF Balanced
    <2> QED BY <1>1, <1>2, <1>3, <2>1, <2>2
  <1>5. portfolio'.allocated <= Total(Costs', Orders)
    <2>1. /\ Total(Costs, Orders) + Spent <= Total(Costs', Orders)
          /\ Total(Costs', Orders) \in Nat /\ Total(Costs, Orders) \in Nat
      BY CommitCosts, SumsTyped DEF IInv
    <2>2. portfolio.allocated <= Total(Costs, Orders)
      BY DEF LedgerSound
    <2> QED BY <1>1, <1>2, <1>3, <2>1, <2>2
  <1>6. LedgerSound'
    <2>1. portfolio'.total >= 0 /\ portfolio'.total = InitialBalance
      BY <1>1, <1>2 DEF LedgerSound, SatisfiesChecks
    <2> QED BY <1>1, <1>2, <1>4, <1>5, <2>1 DEF LedgerSound, SatisfiesChecks
  <1>7. Spent' = 0
    <2>1. \A o \in Orders : Debits'[o] = 0
      BY <1>1 DEF Debits
    <2>2. Total(Debits', Orders) = 0
      BY <2>1, ApprovalOrders, SumZero
    <2> QED BY <2>2 DEF Spent
  <1>8. Undecided'
    <2>1. Len(batch') = 0 /\ \A o \in Orders : outcome'[o] = "none"
      BY <1>1
    <2> QED BY <2>1 DEF Undecided
  <1> QED BY <1>1, <1>2, <1>4, <1>6, <1>7, <1>8

\* What the exchange does later was not decided yet.
LEMMA FillSpendsNothing ==
    ASSUME IInv, NEW o \in Orders, ExchangeFills(o)
    PROVE  Spent' = Spent
  <1>1. /\ UNCHANGED <<database, batch, outcome>>
        /\ \A p \in Orders : p # o => exchange'[p] = exchange[p]
        /\ outcome[o] # "booked"
    BY DEF ExchangeFills, IInv, OutcomeTruthful, Typed
  <1>2. \A p \in Orders : Debits'[p] = Debits[p] /\ Debits[p] \in Int
    <2>1. \A p \in Orders : Debits[p] \in Nat
      BY SumsTyped DEF IInv
    <2> QED BY <1>1, <2>1 DEF Debits
  <1>3. Total(Debits', Orders) = Total(Debits, Orders)
    BY <1>2, ApprovalOrders, SumSame
  <1> QED BY <1>3 DEF Spent

LEMMA FillKeepsMoney ==
    ASSUME IInv, MoneyInv, NEW o \in Orders, ExchangeFills(o)
    PROVE  MoneyInv'
  <1>1. UNCHANGED <<database, batch, outcome>>
    BY DEF ExchangeFills
  <1>2. Undecided'
    BY <1>1 DEF MoneyInv, Undecided, Opened
  <1> QED BY <1>1, <1>2, FillSpendsNothing, MoneyStays DEF MoneyInv

LEMMA RestKeepsMoney ==
    ASSUME IInv, MoneyInv,
           \/ \E o \in Orders : CreatePending(o) \/ RequestExpires(o)
           \/ DecisionStep
           \/ Poll \/ LockPortfolio \/ Send \/ PositionRowRefused
           \/ OperatorHalt \/ OperatorResume \/ Crash \/ Restart \/ UNCHANGED vars
    PROVE  MoneyInv'
  <1> USE DEF MoneyInv
  <1>1. UNCHANGED <<positions, portfolio, exchange>>
    BY DEF CreatePending, RequestExpires, DecisionStep, Read, Write, ReadStale, Expire, Poll,
           LockPortfolio, Send, PositionRowRefused, OperatorHalt, OperatorResume, Crash,
           Restart, vars
  <1>2. \/ UNCHANGED <<outcome, batch>>
        \/ Poll
        \/ outcome' = [o \in Orders |-> "none"] /\ batch' = <<>>
    BY DEF CreatePending, RequestExpires, DecisionStep, Read, Write, ReadStale, Expire,
           LockPortfolio, Send, PositionRowRefused, OperatorHalt, OperatorResume, Crash,
           Restart, vars
  <1>3. CASE UNCHANGED <<outcome, batch>>
    <2>1. Spent' = Spent
      BY <1>1, <1>3 DEF Spent, Debits
    <2> QED BY <1>1, <1>3, <2>1, MoneyStays DEF Undecided, Opened
  <1>4. CASE Poll
    <2>1. Spent' = Spent /\ outcome' = outcome
      BY <1>1, <1>4 DEF Spent, Debits, Poll
    <2>2. batch' \in Oldest({o \in Orders : Waiting(o)})
      BY <1>4 DEF Poll
    <2>3. PICK n \in 1 .. BatchLimit : batch' \in [1 .. n -> {o \in Orders : Waiting(o)}]
      BY <2>2 DEF Oldest
    <2>4. n \in Nat /\ Len(batch') = n
      BY <2>3
    <2>5. \A i \in 1 .. Len(batch') : ~Opened(batch'[i])
      BY <2>3, <2>4 DEF Waiting, IInv, RecordsTruthful
    <2> QED BY <1>1, <2>1, <2>5, MoneyStays DEF Undecided, Opened
  <1>5. CASE outcome' = [o \in Orders |-> "none"] /\ batch' = <<>>
    <2>1. \A o \in Orders : Debits'[o] = 0
      BY <1>5 DEF Debits
    <2>2. Total(Debits', Orders) = 0
      BY <2>1, ApprovalOrders, SumZero
    <2>3. Spent' <= portfolio.available
      BY <2>2 DEF Spent, LedgerSound, SatisfiesChecks
    <2>4. Len(batch') = 0 /\ \A o \in Orders : outcome'[o] = "none"
      BY <1>5
    <2> QED BY <1>1, <2>3, <2>4, MoneyStays DEF Undecided
  <1> QED BY <1>2, <1>3, <1>4, <1>5

LEMMA MoneyStep ==
    ASSUME IInv, MoneyInv, [Next]_vars
    PROVE  MoneyInv'
  BY DecisionKeepsMoney, CommitKeepsMoney, FillKeepsMoney, RestKeepsMoney
  DEF Next, ExecutorStep, ExchangeStep

LEMMA SpecMoney == Spec => []MoneyInv
  <1>1. IInv /\ MoneyInv /\ [Next]_vars => MoneyInv'
    BY MoneyStep
  <1> QED BY <1>1, MoneyInit, SpecIInv, PTL DEF Spec

\* The executor debits a whole batch in one transaction: the balance is split
\* and never overdrawn, created or lost, whatever the batch, the prices, the
\* overlapping decisions and the crashes.
THEOREM LedgerSoundHolds == Spec => []LedgerSound
  <1>1. MoneyInv => LedgerSound
    BY DEF MoneyInv
  <1> QED BY <1>1, SpecMoney, PTL

\* What the invariants above leave out of the type.
RestTyped ==
    /\ status \in {"RUNNING", "HALTED"}
    /\ deciding \in [Orders -> SUBSET Deciders]
    /\ expiring \subseteq Orders
    /\ approved \subseteq Orders
    /\ expired \subseteq Orders
    /\ step \in {"idle", "polled", "checking", "submitting"}
    /\ up \in BOOLEAN
    /\ restarts \in 0 .. MaxRestarts

LEMMA RestStep ==
    ASSUME RestTyped, [Next]_vars
    PROVE  RestTyped'
  <1> USE DEF RestTyped
  <1>1. CASE \E o \in Orders : CreatePending(o)
    BY <1>1 DEF CreatePending
  <1>2. ASSUME NEW o \in Orders, NEW d \in Deciders, Read(o, d) \/ Write(o, d)
        PROVE  RestTyped'
    BY <1>2 DEF Read, Write
  <1>3. CASE ReadStale \/ Expire
    BY <1>3 DEF ReadStale, Expire
  <1>4. CASE Poll \/ LockPortfolio \/ Refuse \/ Send \/ CommitCycle
    BY <1>4 DEF Poll, LockPortfolio, Refuse, Send, Decide, CommitCycle
  <1>5. CASE SubmitReturns \/ SubmitFails \/ PositionRowRefused
    BY <1>5 DEF SubmitReturns, SubmitFails, PositionRowRefused, Decide
  <1>6. CASE \E o \in Orders : ExchangeFills(o) \/ RequestExpires(o)
    BY <1>6 DEF ExchangeFills, RequestExpires
  <1>7. CASE OperatorHalt \/ OperatorResume \/ Restart
    BY <1>7 DEF OperatorHalt, OperatorResume, Restart
  <1>8. CASE Crash
    <2>1. restarts' \in 0 .. MaxRestarts
      BY <1>8 DEF Crash
    <2> QED BY <1>8, <2>1 DEF Crash
  <1>9. CASE UNCHANGED vars
    BY <1>9 DEF vars
  <1> QED BY <1>1, <1>2, <1>3, <1>4, <1>5, <1>6, <1>7, <1>8, <1>9
          DEF Next, DecisionStep, ExecutorStep, ExchangeStep

\* Rows, executions, decisions and the executor's cycle keep their types, for any
\* overlapping decisions, late executions and crashes.
THEOREM TypeCorrect == Spec => []TypeOK
  <1>1. Init => RestTyped
    BY DEF Init, RestTyped
  <1>2. RestTyped /\ [Next]_vars => RestTyped'
    BY RestStep
  <1>3. IInv /\ MoneyInv /\ RestTyped => TypeOK
    BY DEF IInv, Typed, Rows, MoneyInv, RestTyped, TypeOK
  <1> QED BY <1>1, <1>2, <1>3, SpecIInv, SpecMoney, PTL DEF Spec

-----------------------------------------------------------------------------
\* record_fill refuses nothing as long as the exchange executes at no worse a
\* price than the order's: the check before the order was sent covers it.
NoSlippage == \A price \in FillPrices : price <= EntryPrice

FundedInv ==
    /\ PositionsFunded
    /\ \A o \in Orders : exchange[o].price <= EntryPrice /\ exchange[o].qty <= Quantity
    /\ \A o \in Orders : outcome[o] # "unfunded"
    /\ step = "submitting" => Quantity * EntryPrice <= SessionPortfolio.available

LEMMA ProductAtMost ==
    ASSUME NEW a \in Nat, NEW b \in Nat, NEW c \in Nat, NEW d \in Nat, a <= c, b <= d
    PROVE  a * b <= d * c
  <1>1. a * b <= c * b
    OBVIOUS
  <1>2. c * b <= c * d /\ c * d = d * c
    OBVIOUS
  <1>3. a * b \in Nat /\ c * b \in Nat /\ d * c \in Nat
    OBVIOUS
  <1> QED BY <1>1, <1>2, <1>3

LEMMA FundedInit == ASSUME Init PROVE FundedInv
  <1>1. \A o \in Orders : Costs[o] = 0
    BY DEF Init, Costs, Value, NoFill
  <1>2. Total(Costs, Orders) = 0
    BY <1>1, ApprovalOrders, SumZero
  <1>3. portfolio.allocated = 0
    BY DEF Init, NewPortfolio
  <1> QED BY <1>2, <1>3 DEF Init, FundedInv, PositionsFunded, NoFill

LEMMA FundedStep ==
    ASSUME NoSlippage, IInv, MoneyInv, FundedInv, [Next]_vars
    PROVE  FundedInv'
  <1> USE DEF FundedInv
  <1>1. CASE Refuse \/ SubmitReturns \/ SubmitFails
    <2>1. Current \in Orders
      BY <1>1 DEF IInv, Typed, Refuse, SubmitReturns, SubmitFails, Current
    <2>2. CASE SubmitReturns
      <3>1. Value(exchange[Current]) <= Quantity * EntryPrice
        <4>1. exchange[Current].price \in Nat /\ exchange[Current].qty \in Nat
          BY <2>1 DEF IInv, Typed
        <4>2. exchange[Current].price <= EntryPrice /\ exchange[Current].qty <= Quantity
          BY <2>1
        <4> QED BY <4>1, <4>2, ProductAtMost DEF Value
      <3>2. Quantity * EntryPrice <= SessionPortfolio.available
        BY <2>2 DEF SubmitReturns
      <3>3. /\ Quantity * EntryPrice \in Int /\ SessionPortfolio.available \in Int
            /\ Value(exchange[Current]) \in Nat
        <4>1. SessionPortfolio.available \in Int
          BY SpentRow DEF IInv, MoneyInv, Portfolios
        <4> QED BY <2>1, <4>1, CostTyped DEF IInv, Typed
      <3>4. CanPay(Current)
        BY <3>1, <3>2, <3>3 DEF CanPay
      <3>5. Decide(Current, "booked")
        BY <2>2, <3>4 DEF SubmitReturns
      <3> QED BY <2>1, <2>2, <3>5
           DEF SubmitReturns, Decide, IInv, Typed, PositionsFunded, Costs
    <2>3. CASE Refuse \/ SubmitFails
      BY <2>1, <2>3 DEF Refuse, SubmitFails, Decide, IInv, Typed, PositionsFunded, Costs
    <2> QED BY <1>1, <2>2, <2>3
  <1>2. CASE Send
    BY <1>2 DEF Send, SessionPortfolio, Spent, Debits, PositionsFunded, Costs
  <1>3. CASE CommitCycle
    <2>1. portfolio'.allocated = portfolio.allocated + Spent
      BY <1>3, SpentRow DEF CommitCycle, IInv, MoneyInv
    <2>2. Total(Costs', Orders) = Total(Costs, Orders) + Spent
      BY <1>3, CommitCosts DEF MoneyInv
    <2>3. PositionsFunded'
      BY <2>1, <2>2 DEF PositionsFunded
    <2> QED BY <1>3, <2>3 DEF CommitCycle
  <1>4. ASSUME NEW o \in Orders, ExchangeFills(o) PROVE FundedInv'
    <2>1. PICK fill \in Fills : exchange' = [exchange EXCEPT ![o] = fill]
      BY <1>4 DEF ExchangeFills
    <2>2. fill.price <= EntryPrice /\ fill.qty <= Quantity
      <3>1. fill.price \in FillPrices /\ fill.qty \in 1 .. Quantity
        BY DEF Fills
      <3>2. fill.price <= EntryPrice
        BY <3>1 DEF NoSlippage
      <3> QED BY ONLY <3>1, <3>2, ApprovalNumbers
    <2>3. \A p \in Orders : exchange'[p].price <= EntryPrice /\ exchange'[p].qty <= Quantity
      BY <2>1, <2>2 DEF IInv, Typed
    <2>4. UNCHANGED <<database, cycle>>
      BY <1>4 DEF ExchangeFills
    <2>5. SessionPortfolio' = SessionPortfolio
      BY <1>4, <2>4, FillSpendsNothing DEF SessionPortfolio
    <2> QED BY <2>3, <2>4, <2>5 DEF PositionsFunded, Costs
  <1>5. CASE PositionRowRefused \/ Crash
    BY <1>5 DEF PositionRowRefused, Crash, PositionsFunded, Costs
  <1>6. CASE \/ \E o \in Orders : CreatePending(o) \/ RequestExpires(o)
             \/ DecisionStep \/ Poll \/ LockPortfolio
             \/ OperatorHalt \/ OperatorResume \/ Restart \/ UNCHANGED vars
    <2>1. /\ UNCHANGED <<positions, portfolio, exchange, outcome>>
          /\ step' = "submitting" => step = "submitting"
      BY <1>6 DEF CreatePending, RequestExpires, DecisionStep, Read, Write, ReadStale, Expire,
              Poll, LockPortfolio, OperatorHalt, OperatorResume, Restart, vars
    <2>2. SessionPortfolio' = SessionPortfolio /\ Costs' = Costs
      BY <2>1 DEF SessionPortfolio, Spent, Debits, Costs
    <2> QED BY <2>1, <2>2 DEF PositionsFunded
  <1> QED BY <1>1, <1>2, <1>3, <1>4, <1>5, <1>6 DEF Next, ExecutorStep, ExchangeStep

LEMMA SpecFunded ==
    ASSUME NoSlippage
    PROVE  Spec => [](IInv /\ MoneyInv /\ FundedInv)
  <1>1. IInv /\ MoneyInv /\ FundedInv /\ [Next]_vars => FundedInv'
    BY FundedStep
  <1>2. IInv /\ MoneyInv /\ [Next]_vars => MoneyInv'
    BY MoneyStep
  <1> QED BY <1>1, <1>2, MoneyInit, FundedInit, SpecIInv, PTL DEF Spec

\* Every position is paid for, whatever overlaps, is lost or crashes.
THEOREM PositionsFundedHolds ==
    ASSUME NoSlippage
    PROVE  Spec => []PositionsFunded
  <1>1. FundedInv => PositionsFunded
    BY DEF FundedInv
  <1> QED BY <1>1, SpecFunded, PTL

-----------------------------------------------------------------------------
\* The refinement.  Decisions about one order do not overlap, queries answer,
\* no exception escapes, nothing executes late, and every execution satisfies
\* the CHECKs of the position's row and costs no more than planned.
Reliable ==
    /\ SerialDecisions /\ ~QueryMayFail /\ ~ErrorsEscape /\ ~LateExecution
    /\ NoSlippage
    /\ \A price \in FillPrices : StopLoss < price /\ price < TakeProfit

\* Nothing cuts a cycle short: neither a crash, nor an answer that bought
\* nothing and whose position breaks a CHECK.
Uncut == restarts = 0 /\ ~MayBuyNothing

\* No cycle refuses an order that a cycle cut short had sent: the balance, the
\* guard and the market are asked before the exchange is, and nothing in the
\* row tells that the order has been sent.
SentNotRefused == ~Uncut /\ Refuse => ~sent[Current] /\ ~Reported(Current)

\* The request for this order is on its way.
Submitting(o) == step = "submitting" /\ o = Current

\* What the exchange may have done for an order is in its row or the order is
\* still SUBMITTED, unless its rest expired, and in a cycle that is not cut
\* short the executor has booked it or is about to ask for it; a row that is
\* about to be decided on has not changed since it was read.
LifeInv(o) ==
    /\ orders[o].status \in {"ABSENT", "PENDING_APPROVAL", "SUBMITTED", "REJECTED",
                             "EXPIRED", "FILLED", "PARTIALLY_FILLED"}
    /\ orders[o].known <=> orders[o].status \in {"FILLED", "PARTIALLY_FILLED"}
    /\ outcome[o] # "none" => orders[o].status = "SUBMITTED"
    /\ outcome[o] = "refused" => ~sent[o] /\ ~Reported(o)
    /\ sent[o] => ~Executed(o)
    /\ o \in expired => ~sent[o] /\ (Executed(o) \/ MayBuyNothing)
    /\ Executed(o) => orders[o].status \notin {"ABSENT", "PENDING_APPROVAL"}
    /\ sent[o] \/ Reported(o) => orders[o].known \/ orders[o].status = "SUBMITTED"
    /\ Uncut /\ (sent[o] \/ Reported(o)) =>
            orders[o].known \/ outcome[o] = "booked" \/ Submitting(o)
    /\ deciding[o] # {} => orders[o].status = "PENDING_APPROVAL"
    /\ \A d, e \in deciding[o] : d = e
    /\ o \in expiring => orders[o].status = "PENDING_APPROVAL" /\ deciding[o] = {}
    /\ Executed(o) => PositionRowOk(exchange[o])

\* The orders the cycle has left are approved, undecided, and each there once.
QueueInv ==
    /\ \A i \in 1 .. Len(batch) :
            orders[batch[i]].status = "SUBMITTED" /\ outcome[batch[i]] = "none"
    /\ \A i, j \in 1 .. Len(batch) : batch[i] = batch[j] => i = j
    /\ step \in {"idle", "polled"} => \A o \in Orders : outcome[o] = "none"

Settling ==
    /\ deciding \in [Orders -> SUBSET Deciders]
    /\ restarts \in Nat
    /\ QueueInv
    /\ \A o \in Orders : LifeInv(o)

LEMMA SettlingInit == Init => Settling
  BY DEF Init, Settling, QueueInv, LifeInv, NoOrder, NoFill, Executed, Reported, Uncut

\* The first order of the batch, and what is left without it.
LEMMA BatchHead ==
    ASSUME IInv, Settling, batch # <<>>
    PROVE  /\ Current \in Orders
           /\ orders[Current].status = "SUBMITTED" /\ outcome[Current] = "none"
           /\ Tail(batch) \in Seq(Orders)
           /\ \A i \in 1 .. Len(Tail(batch)) :
                /\ i + 1 \in 1 .. Len(batch)
                /\ Tail(batch)[i] = batch[i + 1]
                /\ Tail(batch)[i] \in Orders \ {Current}
  <1>1. batch \in Seq(Orders) /\ batch # <<>>
    BY DEF IInv, Typed
  <1>2. 1 \in 1 .. Len(batch) /\ Current = batch[1] /\ Current \in Orders
    BY <1>1 DEF Current
  <1>3. /\ Tail(batch) \in Seq(Orders) /\ Len(Tail(batch)) = Len(batch) - 1
        /\ Len(batch) \in Nat
        /\ \A i \in 1 .. Len(Tail(batch)) : Tail(batch)[i] = batch[i + 1]
    BY <1>1
  <1>4. ASSUME NEW i \in 1 .. Len(Tail(batch))
        PROVE  /\ i + 1 \in 1 .. Len(batch) /\ i + 1 # 1
               /\ Tail(batch)[i] = batch[i + 1] /\ Tail(batch)[i] \in Orders
    BY <1>3
  <1>5. \A i, j \in 1 .. Len(batch) : batch[i] = batch[j] => i = j
    BY DEF Settling, QueueInv
  <1>6. \A i \in 1 .. Len(Tail(batch)) : Tail(batch)[i] # Current
    BY <1>2, <1>4, <1>5
  <1>7. orders[Current].status = "SUBMITTED" /\ outcome[Current] = "none"
    BY <1>2 DEF Settling, QueueInv
  <1> QED BY <1>2, <1>3, <1>4, <1>6, <1>7

\* A decision about the first order: it was SUBMITTED, and what is left of the
\* batch is still undecided.
LEMMA DecideSettles ==
    ASSUME Reliable, IInv, Settling, FundedInv', SentNotRefused,
           Refuse \/ SubmitReturns \/ SubmitFails
    PROVE  Settling'
  <1>1. batch # <<>> /\ UNCHANGED <<database, remote, people, host>>
    BY DEF IInv, Typed, Refuse, SubmitReturns, SubmitFails
  <1>2. /\ Current \in Orders
        /\ orders[Current].status = "SUBMITTED" /\ outcome[Current] = "none"
        /\ \A i \in 1 .. Len(Tail(batch)) :
                /\ i + 1 \in 1 .. Len(batch)
                /\ Tail(batch)[i] = batch[i + 1]
                /\ Tail(batch)[i] \in Orders \ {Current}
    BY <1>1, BatchHead
  <1>3. PICK result \in {"refused", "booked"} :
            /\ Decide(Current, result)
            /\ result = "refused" => ~sent[Current] /\ ~Reported(Current)
    <2>1. CASE Refuse
      <3>1. step = "checking" /\ Decide(Current, "refused")
        BY <2>1 DEF Refuse
      <3>2. ~sent[Current] /\ ~Reported(Current)
        <4>1. CASE Uncut
          BY <1>2, <3>1, <4>1 DEF Settling, LifeInv, Submitting
        <4>2. CASE ~Uncut
          BY <2>1, <4>2 DEF SentNotRefused
        <4> QED BY <4>1, <4>2
      <3> QED BY <3>1, <3>2
    <2>2. CASE SubmitFails
      BY <1>2, <2>2 DEF SubmitFails, Unseen, Reliable, Settling, LifeInv, Reported
    <2>3. CASE SubmitReturns
      <3>1. Decide(Current, "booked") \/ Decide(Current, "unfunded")
        BY <2>3 DEF SubmitReturns
      <3>2. outcome'[Current] # "unfunded"
        BY <1>2 DEF FundedInv
      <3>3. ~Decide(Current, "unfunded")
        BY <1>2, <3>2 DEF Decide, IInv, Typed
      <3> QED BY <3>1, <3>3
    <2> QED BY <2>1, <2>2, <2>3
  <1>4. /\ outcome' = [outcome EXCEPT ![Current] = result]
        /\ batch' = Tail(batch) /\ step' = "checking"
    BY <1>3 DEF Decide
  <1>5. outcome'[Current] = result /\ \A o \in Orders \ {Current} : outcome'[o] = outcome[o]
    BY <1>2, <1>4 DEF IInv, Typed
  <1>6. QueueInv'
    <2>1. \A i \in 1 .. Len(batch') :
            orders'[batch'[i]].status = "SUBMITTED" /\ outcome'[batch'[i]] = "none"
      BY <1>1, <1>2, <1>4, <1>5 DEF Settling, QueueInv
    <2>2. \A i, j \in 1 .. Len(batch') : batch'[i] = batch'[j] => i = j
      <3> SUFFICES ASSUME NEW i \in 1 .. Len(Tail(batch)), NEW j \in 1 .. Len(Tail(batch)),
                          Tail(batch)[i] = Tail(batch)[j]
                   PROVE  i = j
        BY <1>4
      <3>1. i \in Int /\ j \in Int
        OBVIOUS
      <3>2. /\ i + 1 \in 1 .. Len(batch) /\ batch[i + 1] = Tail(batch)[i]
            /\ j + 1 \in 1 .. Len(batch) /\ batch[j + 1] = Tail(batch)[j]
        BY <1>2
      <3>3. \A k, l \in 1 .. Len(batch) : batch[k] = batch[l] => k = l
        BY DEF Settling, QueueInv
      <3>4. i + 1 = j + 1
        BY <3>2, <3>3
      <3> QED BY <3>1, <3>4
    <2> QED BY <1>4, <2>1, <2>2 DEF QueueInv
  <1>7. ASSUME NEW o \in Orders PROVE LifeInv(o)'
    <2>1. CASE o = Current
      BY <1>1, <1>2, <1>3, <1>4, <1>5, <2>1 DEF Settling, LifeInv, Executed, Reported, Uncut
    <2>2. CASE o # Current
      BY <1>1, <1>4, <1>5, <2>2 DEF Settling, LifeInv, Executed, Reported, Uncut, Submitting
    <2> QED BY <2>1, <2>2
  <1> QED BY <1>1, <1>6, <1>7 DEF Settling

\* A step that leaves the cycle and the exchange alone and changes no order
\* that is queued keeps the queue.
LEMMA QueueStays ==
    ASSUME Settling, UNCHANGED <<batch, step, outcome>>,
           \A o \in Orders : orders[o].status = "SUBMITTED" => orders'[o] = orders[o],
           batch \in Seq(Orders)
    PROVE  QueueInv'
  <1>1. \A i \in 1 .. Len(batch) : batch[i] \in Orders
    OBVIOUS
  <1> QED BY <1>1 DEF Settling, QueueInv

LEMMA CreateSettles ==
    ASSUME IInv, Settling, NEW o \in Orders, CreatePending(o)
    PROVE  Settling'
  <1>1. orders' = [orders EXCEPT ![o].status = "PENDING_APPROVAL"] /\ orders[o].status = "ABSENT"
    BY DEF CreatePending
  <1>2. UNCHANGED <<positions, portfolio, remote, status, people, cycle, host>>
    BY DEF CreatePending
  <1>3. /\ orders'[o].status = "PENDING_APPROVAL" /\ orders'[o].known = orders[o].known
        /\ \A p \in Orders \ {o} : orders'[p] = orders[p]
    BY <1>1 DEF IInv, Typed, Rows
  <1>4. QueueInv'
    BY <1>1, <1>2, <1>3, QueueStays DEF IInv, Typed
  <1>5. ASSUME NEW p \in Orders PROVE LifeInv(p)'
    <2>1. ~Submitting(o)
      <3>1. SUFFICES ASSUME Submitting(o) PROVE FALSE
        OBVIOUS
      <3>2. batch # <<>>
        BY <3>1 DEF Submitting, IInv, Typed
      <3> QED BY <1>1, <3>1, <3>2, BatchHead DEF Submitting
    <2>2. CASE p = o
      BY <1>1, <1>2, <1>3, <2>1, <2>2 DEF Settling, LifeInv, Executed, Reported, Uncut, Submitting, Current
    <2>3. CASE p # o
      BY <1>2, <1>3, <2>3 DEF Settling, LifeInv, Executed, Reported, Uncut, Submitting, Current
    <2> QED BY <2>2, <2>3
  <1> QED BY <1>2, <1>4, <1>5 DEF Settling

\* A request reads a row that no other request is deciding on.
LEMMA ReadSettles ==
    ASSUME Reliable, IInv, Settling, NEW o \in Orders, NEW d \in Deciders, Read(o, d)
    PROVE  Settling'
  <1>1. /\ deciding[o] = {} /\ o \notin expiring
        /\ Target(d) \in OrderTransitions(orders[o].status)
        /\ deciding' = [deciding EXCEPT ![o] = @ \cup {d}]
    BY DEF Read, Reliable
  <1>2. UNCHANGED <<database, remote, status, expiring, approved, cycle, host>>
    BY DEF Read
  <1>3. orders[o].status = "PENDING_APPROVAL"
    BY <1>1 DEF Settling, LifeInv, Target, OrderTransitions
  <1>4. /\ deciding' \in [Orders -> SUBSET Deciders] /\ deciding'[o] = {d}
        /\ \A p \in Orders \ {o} : deciding'[p] = deciding[p]
    BY <1>1 DEF Settling
  <1>5. QueueInv'
    BY <1>2, QueueStays DEF IInv, Typed
  <1>6. ASSUME NEW p \in Orders PROVE LifeInv(p)'
    <2>1. CASE p = o
      BY <1>1, <1>2, <1>3, <1>4, <2>1 DEF Settling, LifeInv, Executed, Reported, Uncut, Submitting, Current
    <2>2. CASE p # o
      BY <1>2, <1>4, <2>2 DEF Settling, LifeInv, Executed, Reported, Uncut, Submitting, Current
    <2> QED BY <2>1, <2>2
  <1> QED BY <1>2, <1>4, <1>5, <1>6 DEF Settling

\* The row still says PENDING_APPROVAL when the decision is written.
LEMMA WriteSettles ==
    ASSUME IInv, Settling, NEW o \in Orders, NEW d \in Deciders, Write(o, d)
    PROVE  Settling'
  <1>1. /\ d \in deciding[o]
        /\ orders' = [orders EXCEPT ![o].status = Target(d)]
        /\ deciding' = [deciding EXCEPT ![o] = @ \ {d}]
    BY DEF Write
  <1>2. UNCHANGED <<positions, portfolio, remote, status, expiring, cycle, host>>
    BY DEF Write
  <1>3. orders[o].status = "PENDING_APPROVAL" /\ o \notin expiring
    BY <1>1 DEF Settling, LifeInv
  <1>4. /\ deciding' \in [Orders -> SUBSET Deciders] /\ deciding'[o] = {}
        /\ \A p \in Orders \ {o} : deciding'[p] = deciding[p]
    <2>1. \A e \in deciding[o] : e = d
      BY <1>1 DEF Settling, LifeInv
    <2>2. deciding[o] \ {d} = {} /\ deciding \in [Orders -> SUBSET Deciders]
      BY <2>1 DEF Settling
    <2> QED BY <1>1, <2>2
  <1>5. /\ orders'[o].status \in {"SUBMITTED", "REJECTED"} /\ orders'[o].known = orders[o].known
        /\ \A p \in Orders \ {o} : orders'[p] = orders[p]
    BY <1>1 DEF IInv, Typed, Rows, Target
  <1>6. QueueInv'
    BY <1>2, <1>3, <1>5, QueueStays DEF IInv, Typed
  <1>7. ASSUME NEW p \in Orders PROVE LifeInv(p)'
    <2>1. ~Submitting(o)
      <3>1. SUFFICES ASSUME Submitting(o) PROVE FALSE
        OBVIOUS
      <3>2. batch # <<>>
        BY <3>1 DEF Submitting, IInv, Typed
      <3> QED BY <1>3, <3>1, <3>2, BatchHead DEF Submitting
    <2>2. CASE p = o
      BY <1>2, <1>3, <1>4, <1>5, <2>1, <2>2 DEF Settling, LifeInv, Executed, Reported, Uncut, Submitting, Current
    <2>3. CASE p # o
      BY <1>2, <1>4, <1>5, <2>3 DEF Settling, LifeInv, Executed, Reported, Uncut, Submitting, Current
    <2> QED BY <2>2, <2>3
  <1> QED BY <1>2, <1>4, <1>6, <1>7 DEF Settling

LEMMA ReadStaleSettles ==
    ASSUME Reliable, IInv, Settling, ReadStale
    PROVE  Settling'
  <1>1. PICK stale \in SUBSET {o \in Orders : orders[o].status = "PENDING_APPROVAL"} :
            expiring' = stale /\ \A o \in stale : deciding[o] = {}
    BY DEF ReadStale, Reliable
  <1>2. UNCHANGED <<database, remote, status, deciding, approved, cycle, host>>
    BY DEF ReadStale
  <1>3. QueueInv'
    BY <1>2, QueueStays DEF IInv, Typed
  <1>4. ASSUME NEW p \in Orders PROVE LifeInv(p)'
    BY <1>1, <1>2 DEF Settling, LifeInv, Executed, Reported, Uncut, Submitting, Current
  <1> QED BY <1>2, <1>3, <1>4 DEF Settling

LEMMA ExpireSettles ==
    ASSUME IInv, Settling, Expire
    PROVE  Settling'
  <1>1. UNCHANGED <<positions, portfolio, remote, status, deciding, approved, cycle, host>>
        /\ expiring' = {}
    BY DEF Expire
  <1>2. /\ \A o \in expiring \cap Orders :
              orders'[o].status = "EXPIRED" /\ orders'[o].known = orders[o].known
        /\ \A o \in Orders \ expiring : orders'[o] = orders[o]
    BY DEF Expire, IInv, Typed, Rows
  <1>3. \A o \in expiring \cap Orders :
            orders[o].status = "PENDING_APPROVAL" /\ deciding[o] = {}
    BY DEF Settling, LifeInv
  <1>4. QueueInv'
    <2>1. \A o \in Orders : orders[o].status = "SUBMITTED" => orders'[o] = orders[o]
      BY <1>2, <1>3
    <2> QED BY <1>1, <2>1, QueueStays DEF IInv, Typed
  <1>5. ASSUME NEW p \in Orders PROVE LifeInv(p)'
    <2>1. CASE p \in expiring
      <3>1. ~Submitting(p)
        <4>1. SUFFICES ASSUME Submitting(p) PROVE FALSE
          OBVIOUS
        <4>2. batch # <<>>
          BY <4>1 DEF Submitting, IInv, Typed
        <4> QED BY <1>3, <2>1, <4>1, <4>2, BatchHead DEF Submitting
      <3> QED BY <1>1, <1>2, <1>3, <2>1, <3>1
              DEF Settling, LifeInv, Executed, Reported, Uncut, Submitting, Current
    <2>2. CASE p \notin expiring
      BY <1>1, <1>2, <2>2 DEF Settling, LifeInv, Executed, Reported, Uncut, Submitting, Current
    <2> QED BY <2>1, <2>2
  <1> QED BY <1>1, <1>4, <1>5 DEF Settling

\* The poll takes each waiting order once, in the order of creation.
LEMMA PollSettles ==
    ASSUME IInv, Settling, Poll
    PROVE  Settling'
  <1> DEFINE waiting == {o \in Orders : Waiting(o)}
  <1>1. UNCHANGED <<database, remote, status, people, outcome, host>> /\ step' = "polled"
        /\ step = "idle"
    BY DEF Poll
  <1>2. batch' \in Oldest(waiting)
    BY DEF Poll
  <1>3. PICK n \in 1 .. BatchLimit : batch' \in [1 .. n -> waiting]
    BY <1>2 DEF Oldest
  <1>4. \A i, j \in 1 .. n : i < j => batch'[i] < batch'[j]
    BY <1>2, <1>3 DEF Oldest
  <1>5. n \in Nat /\ Len(batch') = n
    BY <1>3
  <1>6. \A i \in 1 .. n : batch'[i] \in waiting /\ batch'[i] \in Nat
    BY <1>3, ApprovalOrders
  <1>7. QueueInv'
    <2>1. \A o \in Orders : outcome[o] = "none"
      BY <1>1 DEF Settling, QueueInv
    <2>2. \A i \in 1 .. Len(batch') :
            orders'[batch'[i]].status = "SUBMITTED" /\ outcome'[batch'[i]] = "none"
      BY <1>1, <1>5, <1>6, <2>1 DEF Waiting
    <2>3. ASSUME NEW i \in 1 .. n, NEW j \in 1 .. n, batch'[i] = batch'[j]
          PROVE  i = j
      <3>1. ~(i < j) /\ ~(j < i)
        <4>1. batch'[i] \in Nat /\ batch'[j] \in Nat
          BY <1>6
        <4>2. ~(batch'[i] < batch'[j]) /\ ~(batch'[j] < batch'[i])
          BY <2>3, <4>1
        <4> QED BY <1>4, <4>2
      <3> QED BY <3>1, <1>5
    <2> QED BY <1>1, <1>5, <2>1, <2>2, <2>3 DEF QueueInv
  <1>8. ASSUME NEW p \in Orders PROVE LifeInv(p)'
    BY <1>1 DEF Settling, LifeInv, Executed, Reported, Uncut, Submitting, Current
  <1> QED BY <1>1, <1>7, <1>8 DEF Settling

\* The request for the first order leaves.
LEMMA SendSettles ==
    ASSUME IInv, Settling, Send
    PROVE  Settling'
  <1>1. /\ batch # <<>> /\ step = "checking" /\ step' = "submitting"
        /\ sent' = [sent EXCEPT ![Current] = ~Executed(Current)]
        /\ expired' = IF Executed(Current) THEN expired ELSE expired \ {Current}
        /\ UNCHANGED <<database, exchange, status, people, batch, outcome, host>>
    BY DEF Send
  <1>2. /\ Current \in Orders /\ Current' = Current
        /\ outcome[Current] = "none" /\ orders[Current].status = "SUBMITTED"
    BY <1>1, BatchHead DEF Current
  <1>3. \A p \in Orders \ {Current} : sent'[p] = sent[p]
    BY <1>1 DEF IInv, Typed
  <1>4. QueueInv'
    BY <1>1 DEF Settling, QueueInv
  <1>5. ASSUME NEW p \in Orders PROVE LifeInv(p)'
    <2>1. CASE p = Current
      <3>1. /\ LifeInv(p) /\ outcome'[p] = "none" /\ orders'[p].status = "SUBMITTED"
            /\ orders' = orders /\ outcome' = outcome /\ Submitting(p)'
            /\ Executed(p)' = Executed(p) /\ exchange' = exchange
            /\ UNCHANGED <<deciding, expiring>>
        BY <1>1, <1>2, <2>1 DEF Settling, Submitting, Executed
      <3>2. sent'[p] = ~Executed(p)
        BY <1>1, <1>2, <2>1 DEF IInv, Typed
      <3>3. p \in expired' => p \in expired /\ Executed(p)
        BY <1>1, <2>1
      <3>4. /\ sent'[p] => ~Executed(p)'
            /\ p \in expired' => ~sent'[p] /\ (Executed(p)' \/ MayBuyNothing)
        BY <3>1, <3>2, <3>3
      <3> QED BY <3>1, <3>4 DEF LifeInv
    <2>2. CASE p # Current
      BY <1>1, <1>2, <1>3, <2>2 DEF Settling, LifeInv, Executed, Reported, Uncut, Submitting
    <2> QED BY <2>1, <2>2
  <1> QED BY <1>1, <1>4, <1>5 DEF Settling

\* What the commit makes of a row.
LEMMA CommittedRow ==
    ASSUME IInv, FundedInv, CommitCycle, NEW o \in Orders
    PROVE  /\ outcome[o] = "none" => orders'[o] = orders[o]
           /\ outcome[o] = "refused" =>
                orders'[o].status = "REJECTED" /\ orders'[o].known = orders[o].known
           /\ outcome[o] = "booked" =>
                orders'[o].status \in {"FILLED", "PARTIALLY_FILLED"} /\ orders'[o].known
           /\ outcome[o] \in {"none", "refused", "booked"}
  <1>1. outcome[o] \in {"none", "refused", "booked"}
    BY DEF IInv, Typed, FundedInv
  <1>2. orders'[o] = CASE outcome[o] = "booked"   -> FilledRow(o)
                       [] outcome[o] = "unfunded" -> [FilledRow(o) EXCEPT !.status = "REJECTED"]
                       [] outcome[o] = "refused"  -> RefusedRow(o)
                       [] OTHER                   -> orders[o]
    BY DEF CommitCycle
  <1>3. FilledRow(o).status \in {"FILLED", "PARTIALLY_FILLED"} /\ FilledRow(o).known
    BY DEF FilledRow
  <1>4. RefusedRow(o).status = "REJECTED" /\ RefusedRow(o).known = orders[o].known
    BY DEF RefusedRow, IInv, Typed, Rows
  <1>5. CASE outcome[o] = "none"
    BY <1>2, <1>5
  <1>6. CASE outcome[o] = "refused"
    <2>1. orders'[o] = RefusedRow(o)
      BY <1>2, <1>6
    <2> QED BY <1>4, <1>6, <2>1
  <1>7. CASE outcome[o] = "booked"
    <2>1. orders'[o] = FilledRow(o)
      BY <1>2, <1>7
    <2> QED BY <1>3, <1>7, <2>1
  <1> QED BY <1>1, <1>5, <1>6, <1>7

LEMMA CommitSettles ==
    ASSUME IInv, Settling, FundedInv, CommitCycle
    PROVE  Settling'
  <1>1. /\ step = "checking" /\ batch = <<>> /\ step' = "idle"
        /\ outcome' = [o \in Orders |-> "none"]
        /\ UNCHANGED <<remote, status, people, batch, host>>
    BY DEF CommitCycle
  <1>2. QueueInv'
    <2>1. Len(batch') = 0
      BY <1>1
    <2> QED BY <1>1, <2>1 DEF QueueInv
  <1>3. ASSUME NEW p \in Orders PROVE LifeInv(p)'
    <2>1. LifeInv(p) /\ outcome'[p] = "none" /\ ~Submitting(p) /\ ~Submitting(p)'
      BY <1>1 DEF Settling, Submitting
    <2>2. CASE outcome[p] = "none"
      BY <1>1, <2>1, <2>2, CommittedRow DEF LifeInv, Executed, Reported, Uncut
    <2>3. CASE outcome[p] = "refused"
      BY <1>1, <2>1, <2>3, CommittedRow DEF LifeInv, Executed, Reported, Uncut
    <2>4. CASE outcome[p] = "booked"
      BY <1>1, <2>1, <2>4, CommittedRow DEF LifeInv, Executed, Reported, Uncut
    <2> QED BY <2>2, <2>3, <2>4, CommittedRow
  <1> QED BY <1>1, <1>2, <1>3 DEF Settling

\* The exchange executes within the stop and the target, or gives up.
LEMMA ExchangeSettles ==
    ASSUME Reliable, IInv, Settling, NEW o \in Orders, ExchangeStep(o)
    PROVE  Settling'
  <1>1. UNCHANGED <<database, status, people, cycle, host>>
    BY DEF ExchangeStep, ExchangeFills, RequestExpires
  <1>2. sent[o] /\ sent' = [sent EXCEPT ![o] = FALSE]
    BY DEF ExchangeStep, ExchangeFills, RequestExpires
  <1>3. \/ UNCHANGED exchange
        \/ /\ ~Executed(o)
           /\ \E fill \in Fills : exchange' = [exchange EXCEPT ![o] = fill]
    BY DEF ExchangeStep, ExchangeFills, RequestExpires
  <1>4. \A fill \in Fills : PositionRowOk(fill)
    <2> SUFFICES ASSUME NEW fill \in Fills PROVE PositionRowOk(fill)
      OBVIOUS
    <2>1. fill.price \in FillPrices /\ fill.qty \in 1 .. Quantity
      BY DEF Fills
    <2>2. fill.qty > 0
      <3>1. Quantity \in Nat
        OBVIOUS
      <3> QED BY <2>1, <3>1
    <2>3. StopLoss < fill.price /\ fill.price < TakeProfit
      BY <2>1 DEF Reliable
    <2> QED BY <2>2, <2>3 DEF PositionRowOk
  <1>10. /\ expired \subseteq expired' /\ expired' \subseteq expired \cup {o}
         /\ o \in expired' =>
                o \in expired \/ MayBuyNothing \/ PositionRowOk(exchange'[o])
    <2>1. CASE RequestExpires(o)
      BY <2>1 DEF RequestExpires
    <2>2. CASE ExchangeFills(o)
      <3>1. PICK fill \in Fills : exchange' = [exchange EXCEPT ![o] = fill]
        BY <2>2 DEF ExchangeFills
      <3>2. exchange'[o] = fill
        BY <3>1 DEF IInv, Typed
      <3>3. PositionRowOk(fill)
        BY <1>4
      <3> QED BY <2>2, <3>2, <3>3 DEF ExchangeFills
    <2> QED BY <2>1, <2>2 DEF ExchangeStep
  <1>5. /\ exchange'[o] = exchange[o] \/ PositionRowOk(exchange'[o])
        /\ \A p \in Orders \ {o} : exchange'[p] = exchange[p] /\ sent'[p] = sent[p]
        /\ exchange'[o] # exchange[o] => PositionRowOk(exchange'[o])
    BY <1>2, <1>3, <1>4 DEF IInv, Typed
  <1>6. ~sent'[o]
    BY <1>2 DEF IInv, Typed
  <1>7. QueueInv'
    BY <1>1, QueueStays DEF IInv, Typed
  <1>8. ASSUME NEW p \in Orders PROVE LifeInv(p)'
    <2>0. LifeInv(p) /\ (Submitting(p)' <=> Submitting(p)) /\ (Uncut' <=> Uncut)
      BY <1>1 DEF Settling, Submitting, Current, Uncut
    <2>1. CASE p = o
      <3>1. /\ ~sent'[p] /\ ~(sent[p] /\ Executed(p))
            /\ Reported(p)' => sent[p] \/ Reported(p)
        BY <1>2, <1>3, <1>6, <1>10, <2>0, <2>1 DEF LifeInv, Executed, Reported
      <3>2. p \in expired' => Executed(p)' \/ MayBuyNothing
        <4>1. p \notin expired
          BY <1>2, <2>0, <2>1 DEF LifeInv
        <4> QED BY <1>10, <2>1, <4>1 DEF Executed, PositionRowOk
      <3>3. Executed(p)' => PositionRowOk(exchange[p])'
        BY <1>5, <2>0, <2>1 DEF LifeInv, Executed, PositionRowOk
      <3>4. Executed(p)' => sent[p] \/ Executed(p)
        BY <1>2, <2>1
      <3>5. outcome[p] # "refused"
        BY <1>2, <2>0, <2>1 DEF LifeInv
      <3>6. orders[p].known \/ orders[p].status = "SUBMITTED"
        BY <1>2, <2>0, <2>1 DEF LifeInv
      <3>7. Uncut => orders[p].known \/ outcome[p] = "booked" \/ Submitting(p)
        BY <1>2, <2>0, <2>1 DEF LifeInv
      <3> HIDE DEF Submitting, Uncut
      <3> QED BY <1>1, <2>0, <3>1, <3>2, <3>3, <3>5, <3>6, <3>7 DEF LifeInv
    <2>2. CASE p # o
      <3>1. /\ exchange'[p] = exchange[p] /\ sent'[p] = sent[p]
            /\ p \in expired' <=> p \in expired
        <4>1. exchange'[p] = exchange[p] /\ sent'[p] = sent[p]
          BY <1>5, <2>2
        <4>2. p \in expired' <=> p \in expired
          BY <1>10, <2>2
        <4> QED BY <4>1, <4>2
      <3>2. /\ Executed(p)' <=> Executed(p)
            /\ Reported(p)' <=> Reported(p)
            /\ PositionRowOk(exchange[p])' <=> PositionRowOk(exchange[p])
        BY <3>1 DEF Executed, Reported, PositionRowOk
      <3> QED BY <1>1, <2>0, <3>1, <3>2 DEF LifeInv
    <2> QED BY <2>1, <2>2
  <1> QED BY <1>1, <1>7, <1>8 DEF Settling

\* A cycle that an answer with nothing bought cuts short forgets its decisions.
LEMMA PoisonSettles ==
    ASSUME IInv, Settling, PositionRowRefused
    PROVE  Settling'
  <1>1. /\ UNCHANGED <<database, remote, status, people, host>>
        /\ batch' = <<>> /\ step' = "idle" /\ outcome' = [o \in Orders |-> "none"]
        /\ Answered(Current) /\ ~PositionRowOk(exchange[Current]) /\ batch # <<>>
    BY DEF PositionRowRefused, IInv, Typed
  <1>2. MayBuyNothing
    BY <1>1, BatchHead DEF Answered, Settling, LifeInv
  <1>3. QueueInv'
    <2>1. Len(batch') = 0
      BY <1>1
    <2> QED BY <1>1, <2>1 DEF QueueInv
  <1>4. ASSUME NEW p \in Orders PROVE LifeInv(p)'
    BY <1>1, <1>2 DEF Settling, LifeInv, Executed, Reported, Uncut
  <1> QED BY <1>1, <1>3, <1>4 DEF Settling

\* A crash forgets what the cycle decided; the orders are SUBMITTED as before.
LEMMA CrashSettles ==
    ASSUME IInv, Settling, Crash
    PROVE  Settling'
  <1>1. /\ UNCHANGED <<database, remote, status, approved>>
        /\ deciding' = [o \in Orders |-> {}] /\ expiring' = {}
        /\ batch' = <<>> /\ step' = "idle" /\ outcome' = [o \in Orders |-> "none"]
        /\ restarts' = restarts + 1
    BY DEF Crash
  <1>2. restarts' \in Nat /\ restarts' # 0
    BY <1>1 DEF Settling
  <1>3. QueueInv'
    <2>1. Len(batch') = 0
      BY <1>1
    <2> QED BY <1>1, <2>1 DEF QueueInv
  <1>4. ASSUME NEW p \in Orders PROVE LifeInv(p)'
    BY <1>1, <1>2 DEF Settling, LifeInv, Executed, Reported, Uncut
  <1> QED BY <1>1, <1>2, <1>3, <1>4 DEF Settling

LEMMA RestSettles ==
    ASSUME IInv, Settling,
           LockPortfolio \/ OperatorHalt \/ OperatorResume \/ Restart \/ UNCHANGED vars
    PROVE  Settling'
  <1>1. /\ UNCHANGED <<database, remote, people, batch, outcome, restarts>>
        /\ step' = step \/ (step = "polled" /\ step' = "checking")
    BY DEF LockPortfolio, OperatorHalt, OperatorResume, Restart, vars
  <1>2. QueueInv'
    BY <1>1 DEF Settling, QueueInv
  <1>3. ASSUME NEW p \in Orders PROVE LifeInv(p)'
    BY <1>1 DEF Settling, LifeInv, Executed, Reported, Uncut, Submitting, Current
  <1> QED BY <1>1, <1>2, <1>3 DEF Settling

LEMMA SettlingStep ==
    ASSUME Reliable, IInv, FundedInv, FundedInv', Settling, [Next]_vars, SentNotRefused
    PROVE  Settling'
  BY CreateSettles, ReadSettles, WriteSettles, ReadStaleSettles, ExpireSettles, PollSettles,
     SendSettles, DecideSettles, CommitSettles, ExchangeSettles, PoisonSettles, CrashSettles,
     RestSettles
  DEF Next, DecisionStep, ExecutorStep

-----------------------------------------------------------------------------
\* A transaction that settles a set of orders is the abstract Settle.
LEMMA SettleStep ==
    ASSUME NEW S \in SUBSET Orders, UNCHANGED <<exchange, expired>>,
           \A o \in Orders \ S : orders'[o] = orders[o],
           \A o \in S :
              /\ orders[o].status \in {"PENDING_APPROVAL", "SUBMITTED"}
              /\ \/ orders'[o].status \in {"FILLED", "PARTIALLY_FILLED"} /\ Executed(o)
                 \/ orders'[o].status \in {"REJECTED", "EXPIRED"} /\ ~Reported(o)
    PROVE  [Lifecycle!Next]_([o \in Orders |-> Stage(o)])
  <1> DEFINE stage == [o \in Orders |-> Stage(o)]
  <1>1. \A o \in Orders \ S : Stage(o)' = Stage(o)
    BY DEF Stage, Executed, Reported
  <1>2. CASE S = {}
    <2>1. stage' = stage
      BY <1>1, <1>2
    <2> QED BY <2>1
  <1>3. CASE S # {}
    <2> DEFINE end == [o \in S |-> IF orders'[o].status \in {"REJECTED", "EXPIRED"}
                                   THEN "void" ELSE "recorded"]
    <2>1. ASSUME NEW o \in S
          PROVE  /\ Stage(o)' = end[o]
                 /\ end[o] \in IF Reported(o) THEN {"recorded"}
                               ELSE IF Executed(o) THEN {"recorded", "void"}
                               ELSE {"void"}
                 /\ Stage(o) = IF Reported(o) THEN "executed"
                               ELSE IF Executed(o) THEN "expired"
                               ELSE "intended"
      BY DEF Stage, Executed, Reported
    <2>2. end \in [S -> {"recorded", "void"}]
      OBVIOUS
    <2> HIDE DEF end
    <2>3. \A o \in S : end[o] \in Lifecycle!Ends(o)
      BY <2>1 DEF Lifecycle!Ends
    <2>4. stage' = [o \in Orders |-> IF o \in S THEN end[o] ELSE stage[o]]
      BY <1>1, <2>1
    <2>5. Lifecycle!Settle(S)
      BY <1>3, <2>2, <2>3, <2>4 DEF Lifecycle!Settle
    <2> QED BY <2>5 DEF Lifecycle!Next
  <1> QED BY <1>2, <1>3

\* A step that changes no execution and no status is abstractly no step, and
\* neither is an approval.
LEMMA StutterStep ==
    ASSUME exchange' = exchange,
           \A o \in Orders : Reported(o)' <=> Reported(o),
           \A o \in Orders :
              \/ orders'[o] = orders[o]
              \/ {orders[o].status, orders'[o].status} \subseteq {"PENDING_APPROVAL", "SUBMITTED"}
    PROVE  [Lifecycle!Next]_([o \in Orders |-> Stage(o)])
  <1>1. \A o \in Orders : Stage(o)' = Stage(o)
    BY DEF Stage, Executed
  <1> QED BY <1>1

LEMMA LifecycleInit == Init => Lifecycle!Init
  BY DEF Init, Lifecycle!Init, Stage, NoOrder

\* An order that waits for a decision was not executed.
LEMMA PendingNotExecuted ==
    ASSUME IInv, Settling, NEW o \in Orders,
           orders[o].status \in {"ABSENT", "PENDING_APPROVAL"}
    PROVE  ~Executed(o)
  BY DEF Settling, LifeInv

LEMMA LifecycleStep ==
    ASSUME Reliable, IInv, FundedInv, Settling, [Next]_vars
    PROVE  [Lifecycle!Next]_([o \in Orders |-> Stage(o)])
  <1> DEFINE Goal == [Lifecycle!Next]_([o \in Orders |-> Stage(o)])
  <1> HIDE DEF Goal
  <1>1. ASSUME NEW o \in Orders, CreatePending(o) PROVE Goal
    <2>1. /\ orders' = [orders EXCEPT ![o].status = "PENDING_APPROVAL"]
          /\ orders[o].status = "ABSENT" /\ UNCHANGED <<exchange, expired>>
      BY <1>1 DEF CreatePending
    <2>2. /\ orders'[o].status = "PENDING_APPROVAL"
          /\ \A p \in Orders \ {o} : orders'[p] = orders[p]
      BY <2>1 DEF IInv, Typed, Rows
    <2>3. ~Executed(o)
      BY <2>1, PendingNotExecuted
    <2>4. Stage(o) = "none" /\ Stage(o)' = "intended"
      BY <2>1, <2>2, <2>3 DEF Stage, Executed, Reported
    <2>5. \A p \in Orders : p # o => Stage(p)' = Stage(p)
      BY <2>1, <2>2 DEF Stage, Executed, Reported
    <2>6. Lifecycle!Intend(o)
      BY <2>4, <2>5 DEF Lifecycle!Intend
    <2> QED BY <2>6 DEF Goal, Lifecycle!Next
  <1>2. ASSUME NEW o \in Orders, ExchangeFills(o) PROVE Goal
    <2>1. PICK fill \in Fills : exchange' = [exchange EXCEPT ![o] = fill]
      BY <1>2 DEF ExchangeFills
    <2>2. fill.qty > 0
      <3>1. Quantity \in Nat
        OBVIOUS
      <3> QED BY <3>1 DEF Fills
    <2>3. /\ orders' = orders /\ sent[o] /\ ~Executed(o)
          /\ \A p \in Orders : p # o => (p \in expired' <=> p \in expired)
      BY <1>2 DEF ExchangeFills
    <2>4. orders[o].status = "SUBMITTED"
      <3>1. ~orders[o].known
        <4>1. Opened(o) => Executed(o)
          BY DEF IInv, RecordsTruthful, Opened, Executed
        <4> QED BY <2>3, <4>1 DEF IInv, RecordsTruthful
      <3> QED BY <2>3, <3>1 DEF Settling, LifeInv
    <2>5. Stage(o) = "intended" /\ Stage(o)' \in {"executed", "expired"}
      BY <2>1, <2>2, <2>3, <2>4 DEF Stage, Executed, Reported, IInv, Typed
    <2>6. \A p \in Orders : p # o => Stage(p)' = Stage(p)
      BY <2>1, <2>3 DEF Stage, Executed, Reported, IInv, Typed
    <2>7. Lifecycle!Execute(o)
      BY <2>5, <2>6 DEF Lifecycle!Execute
    <2> QED BY <2>7 DEF Goal, Lifecycle!Next
  <1>3. ASSUME NEW o \in Orders, NEW d \in Deciders, Write(o, d) PROVE Goal
    <2>1. /\ orders' = [orders EXCEPT ![o].status = Target(d)]
          /\ d \in deciding[o] /\ UNCHANGED <<exchange, expired>>
      BY <1>3 DEF Write
    <2>2. orders[o].status = "PENDING_APPROVAL" /\ ~Executed(o)
      BY <2>1, PendingNotExecuted DEF Settling, LifeInv
    <2>3. /\ orders'[o].status = Target(d)
          /\ \A p \in Orders \ {o} : orders'[p] = orders[p]
      BY <2>1 DEF IInv, Typed, Rows
    <2>4. CASE d \in Approvers
      <3>1. Target(d) = "SUBMITTED"
        BY <2>4 DEF Target
      <3>2. \A p \in Orders : Reported(p)' <=> Reported(p)
        BY <2>1 DEF Reported, Executed
      <3> QED BY <2>1, <2>2, <2>3, <3>1, <3>2, StutterStep DEF Goal
    <2>5. CASE d \notin Approvers
      <3>1. Target(d) = "REJECTED"
        BY <2>5 DEF Target
      <3> DEFINE S == {o}
      <3>2. S \in SUBSET Orders /\ \A p \in Orders \ S : orders'[p] = orders[p]
        BY <2>3
      <3>3. \A p \in S :
              /\ orders[p].status \in {"PENDING_APPROVAL", "SUBMITTED"}
              /\ \/ orders'[p].status \in {"FILLED", "PARTIALLY_FILLED"} /\ Executed(p)
                 \/ orders'[p].status \in {"REJECTED", "EXPIRED"} /\ ~Reported(p)
        BY <2>2, <2>3, <3>1 DEF Reported
      <3> HIDE DEF S
      <3> QED BY <2>1, <3>2, <3>3, SettleStep DEF Goal
    <2> QED BY <2>4, <2>5
  <1>4. CASE Expire
    <2> DEFINE S == Orders \cap expiring
    <2>1. /\ UNCHANGED <<exchange, expired>>
          /\ \A o \in S : orders'[o].status = "EXPIRED"
          /\ \A o \in Orders \ S : orders'[o] = orders[o]
      BY <1>4 DEF Expire, IInv, Typed, Rows
    <2>2. \A o \in S : orders[o].status = "PENDING_APPROVAL" /\ ~Reported(o)
      BY PendingNotExecuted DEF Settling, LifeInv, Reported
    <2>3. S \in SUBSET Orders
      OBVIOUS
    <2> HIDE DEF S
    <2> QED BY <2>1, <2>2, <2>3, SettleStep DEF Goal
  <1>5. CASE CommitCycle
    <2> DEFINE S == {o \in Orders : outcome[o] # "none"}
    <2>1. UNCHANGED <<exchange, expired>> /\ \A o \in Orders \ S : orders'[o] = orders[o]
      BY <1>5, CommittedRow DEF CommitCycle
    <2>2. ASSUME NEW o \in S
          PROVE  /\ orders[o].status \in {"PENDING_APPROVAL", "SUBMITTED"}
                 /\ \/ orders'[o].status \in {"FILLED", "PARTIALLY_FILLED"} /\ Executed(o)
                    \/ orders'[o].status \in {"REJECTED", "EXPIRED"} /\ ~Reported(o)
      <3>1. CASE outcome[o] = "refused"
        <4>1. ~Reported(o) /\ orders[o].status = "SUBMITTED"
          BY <3>1 DEF Settling, LifeInv
        <4>2. orders'[o].status = "REJECTED"
          BY <1>5, <3>1, CommittedRow
        <4> QED BY <4>1, <4>2
      <3>2. CASE outcome[o] = "booked"
        <4>1. Executed(o) /\ orders[o].status = "SUBMITTED"
          BY <3>2 DEF Settling, LifeInv, IInv, OutcomeTruthful
        <4>2. orders'[o].status \in {"FILLED", "PARTIALLY_FILLED"}
          BY <1>5, <3>2, CommittedRow
        <4> QED BY <4>1, <4>2
      <3> QED BY <1>5, <3>1, <3>2, CommittedRow
    <2>3. S \in SUBSET Orders
      OBVIOUS
    <2> HIDE DEF S
    <2> QED BY <2>1, <2>2, <2>3, SettleStep DEF Goal
  <1>6. CASE \/ \E o \in Orders : RequestExpires(o) \/ \E d \in Deciders : Read(o, d)
             \/ ReadStale \/ Poll \/ LockPortfolio \/ Refuse \/ Send \/ SubmitReturns
             \/ PositionRowRefused \/ SubmitFails
             \/ OperatorHalt \/ OperatorResume \/ Crash \/ Restart \/ UNCHANGED vars
    <2>1. exchange' = exchange /\ orders' = orders
      BY <1>6 DEF RequestExpires, Read, ReadStale, Poll, LockPortfolio, Refuse, Send,
                  SubmitReturns, PositionRowRefused, SubmitFails, OperatorHalt,
                  OperatorResume, Crash, Restart, vars
    <2>2. ASSUME NEW o \in Orders PROVE Reported(o)' <=> Reported(o)
      <3>1. CASE RequestExpires(o)
        BY <2>1, <3>1 DEF RequestExpires, Settling, LifeInv, Reported, Executed
      <3>2. CASE Send
        BY <2>1, <3>2 DEF Send, Reported, Executed
      <3>3. CASE ~RequestExpires(o) /\ ~Send
        <4>1. o \in expired' <=> o \in expired
          BY <1>6, <3>3
          DEF RequestExpires, Read, ReadStale, Poll, LockPortfolio, Refuse,
              SubmitReturns, PositionRowRefused, SubmitFails, OperatorHalt,
              OperatorResume, Crash, Restart, vars
        <4> QED BY <2>1, <4>1 DEF Reported, Executed
      <3> QED BY <3>1, <3>2, <3>3
    <2> QED BY <2>1, <2>2, StutterStep DEF Goal
  <1> QED BY <1>1, <1>2, <1>3, <1>4, <1>5, <1>6
          DEF Goal, Next, DecisionStep, ExecutorStep, ExchangeStep

\* Manual approval, the daily task and the executor keep the promise of the
\* automatic pipeline: an order is durable before it executes, executes at most
\* once, and is recorded exactly if it executed, except that what expired after
\* a part of it was bought may also be given up: whatever is approved, rejected
\* or expires, however the executor's batches fall and wherever a crash or an
\* answer with nothing bought cuts a cycle short, as long as no cycle refuses
\* what the one before it had sent.
THEOREM Refinement ==
    ASSUME Reliable
    PROVE  Spec /\ [][SentNotRefused]_vars => ImplementsLifecycle
  <1>0. NoSlippage
    BY DEF Reliable
  <1>1. IInv /\ FundedInv /\ Settling /\ [Next]_vars
            => [Lifecycle!Next]_([o \in Orders |-> Stage(o)])
    BY LifecycleStep
  <1>2. IInv /\ FundedInv /\ FundedInv' /\ Settling /\ [Next]_vars /\ [SentNotRefused]_vars
            => Settling'
    <2>1. UNCHANGED vars => SentNotRefused
      BY DEF SentNotRefused, Refuse, Decide, Uncut, vars
    <2> QED BY <2>1, SettlingStep
  <1>3. Spec => [](IInv /\ MoneyInv /\ FundedInv)
    BY <1>0, SpecFunded
  <1> QED BY <1>1, <1>2, <1>3, LifecycleInit, SettlingInit, PTL
          DEF Spec, ImplementsLifecycle, Lifecycle!Spec

\* If nothing cuts a cycle short, nothing more is asked for.
THEOREM RefinementUncrashed ==
    ASSUME Reliable, MaxRestarts = 0, ~MayBuyNothing
    PROVE  Spec => ImplementsLifecycle
  <1>1. TypeOK => [SentNotRefused]_vars
    BY DEF TypeOK, SentNotRefused, Uncut
  <1>2. Spec => []TypeOK
    BY TypeCorrect
  <1> QED BY <1>1, <1>2, Refinement, PTL
=============================================================================
