---------------------------- MODULE ApprovalFlow ----------------------------
(***************************************************************************)
(* Manual approval in LIVE mode: the pipeline stops at PENDING_APPROVAL,   *)
(* ApprovalService lets a human approve or reject the order and the daily  *)
(* task expire it, and ApprovalExecutor executes what was approved.        *)
(*                                                                         *)
(* A decision reads the row, validates the transition and later writes the *)
(* row without looking at it again.  The executor handles up to BatchLimit *)
(* orders in one transaction: what it decides about each (outcome) reaches *)
(* the database only with the cycle's commit, while the requests it sends  *)
(* reach the exchange at once.                                             *)
(*                                                                         *)
(* A client order id buys at most once here, as the executor's header      *)
(* claims; what repeated requests may buy is the subject of OrderDelivery. *)
(***************************************************************************)
EXTENDS Integers, Sequences, FiniteSets, PortfolioLedger, OrderStates

CONSTANTS
    Orders,          \* the intents the pipeline accepts, in order of creation
    Approvers,       \* requests to approve, for each order
    Rejecters,       \* requests to reject, for each order
    InitialBalance,  \* the portfolio's balance at the start
    Quantity,        \* what each order asks for
    EntryPrice,      \* requested_price
    StopLoss,
    TakeProfit,
    FillPrices,      \* average prices the exchange may execute at
    BatchLimit,      \* the limit(5) of _poll_cycle
    MaxRestarts,     \* bound on crashes of the process
    OperatorActs,    \* a subset of {"halt", "resume"}
    SerialDecisions, \* TRUE: requests about one order do not overlap
    QueryMayFail,    \* TRUE: get_order may fail
    LateExecution,   \* TRUE: a request may execute after its submit gave up
    ErrorsEscape,    \* TRUE: a request may end in an exception that submit
                     \* does not catch, and so with no query
    MayBuyNothing    \* TRUE: a market order may expire before it buys anything

ASSUME ApprovalOrders == Orders \subseteq Nat /\ IsFiniteSet(Orders)
ASSUME DecidersDisjoint == Approvers \cap Rejecters = {}
ASSUME ApprovalNumbers ==
    /\ InitialBalance \in Nat /\ MaxRestarts \in Nat
    /\ {Quantity, EntryPrice, StopLoss, TakeProfit, BatchLimit} \subseteq Nat \ {0}
    /\ FillPrices \subseteq Nat \ {0}
ASSUME ApprovalModes ==
    {SerialDecisions, QueryMayFail, LateExecution, ErrorsEscape, MayBuyNothing}
        \subseteq BOOLEAN

VARIABLES
    orders,     \* database: the order rows
    positions,  \* database: the position opened for each order
    portfolio,  \* database: the LIVE portfolio row
    exchange,   \* exchange: how each client order id was executed
    expired,    \* exchange: the orders whose rest, or all of them, expired
    sent,       \* exchange: a create_order request may still execute
    status,     \* Redis: system:status
    deciding,   \* process: requests that have read the row, not yet written it
    expiring,   \* process: the rows the daily task has read
    approved,   \* history: the orders whose approval was committed
    batch,      \* process: orders the executor's cycle has left to handle
    step,       \* process: what the cycle does with the first of them
    outcome,    \* process: what the cycle has decided and not committed
    up,         \* the process is running
    restarts    \* crashes so far (bounded by MaxRestarts)

database == <<orders, positions, portfolio>>
remote == <<exchange, expired, sent>>
people == <<deciding, expiring, approved>>
cycle == <<batch, step, outcome>>
host == <<up, restarts>>
vars == <<database, remote, status, people, cycle, host>>
-----------------------------------------------------------------------------
NoOrder == [status |-> "ABSENT", filled |-> 0, known |-> FALSE]
NoFill == [price |-> 0, qty |-> 0]

Executed(o) == exchange[o].qty > 0
Answered(o) == Executed(o) \/ o \in expired
Reported(o) == Executed(o) /\ o \notin expired
Opened(o) == positions[o].qty > 0
Value(x) == x.price * x.qty

Fills == [price : FillPrices, qty : 1 .. Quantity]

PositionRowOk(fill) ==
    fill.qty > 0 /\ StopLoss < fill.price /\ fill.price < TakeProfit

Deciders == Approvers \cup Rejecters
Target(d) == IF d \in Approvers THEN "SUBMITTED" ELSE "REJECTED"

TypeOK ==
    /\ orders \in [Orders -> [status : {"ABSENT"} \cup OrderStatuses,
                              filled : Nat, known : BOOLEAN]]
    /\ positions \in [Orders -> [price : Nat, qty : Nat]]
    /\ portfolio \in Portfolios
    /\ exchange \in [Orders -> [price : Nat, qty : Nat]]
    /\ expired \subseteq Orders
    /\ sent \in [Orders -> BOOLEAN]
    /\ status \in {"RUNNING", "HALTED"}
    /\ deciding \in [Orders -> SUBSET Deciders]
    /\ expiring \subseteq Orders
    /\ approved \subseteq Orders
    /\ batch \in Seq(Orders)
    /\ step \in {"idle", "polled", "checking", "submitting"}
    /\ outcome \in [Orders -> {"none", "refused", "booked", "unfunded"}]
    /\ up \in BOOLEAN
    /\ restarts \in 0 .. MaxRestarts

Init ==
    /\ orders = [o \in Orders |-> NoOrder]
    /\ positions = [o \in Orders |-> NoFill]
    /\ portfolio = NewPortfolio(InitialBalance)
    /\ exchange = [o \in Orders |-> NoFill]
    /\ expired = {}
    /\ sent = [o \in Orders |-> FALSE]
    /\ status = "RUNNING"
    /\ deciding = [o \in Orders |-> {}]
    /\ expiring = {}
    /\ approved = {}
    /\ batch = <<>>
    /\ step = "idle"
    /\ outcome = [o \in Orders |-> "none"]
    /\ up = TRUE
    /\ restarts = 0
-----------------------------------------------------------------------------
(* The pipeline's branch for manual approval.                              *)

\* The cycle of the executor and the daily task lock the portfolio's row, the
\* one with its first order and the other before it looks at the orders.
LockedByCycle == step \in {"checking", "submitting"}
LockedByReset == expiring # {}

\* Step 7: the checks passed on the locked row; the order waits for a human
\* and reserves nothing.  The run read the system status before.
CreatePending(o) ==
    /\ up
    /\ orders[o].status = "ABSENT"
    /\ \A older \in Orders : older < o => orders[older].status # "ABSENT"
    /\ ~LockedByCycle /\ ~LockedByReset
    /\ Quantity * EntryPrice <= portfolio.available
    /\ orders' = [orders EXCEPT ![o].status = "PENDING_APPROVAL"]
    /\ UNCHANGED <<positions, portfolio, remote, status, people, cycle, host>>
-----------------------------------------------------------------------------
(* ApprovalService.                                                        *)

\* The executor has flushed its change of the row and holds its lock.
RowHeld(o) == outcome[o] # "none"

\* approve and reject: the row is read and the transition validated.
Read(o, d) ==
    /\ up
    /\ d \notin deciding[o]
    /\ SerialDecisions => deciding[o] = {} /\ o \notin expiring
    /\ Target(d) \in OrderTransitions(orders[o].status)
    /\ deciding' = [deciding EXCEPT ![o] = @ \cup {d}]
    /\ UNCHANGED <<database, remote, status, expiring, approved, cycle, host>>

\* The UPDATE names the row by its id alone, and the request commits.
Write(o, d) ==
    /\ up
    /\ d \in deciding[o]
    /\ ~RowHeld(o)
    /\ orders' = [orders EXCEPT ![o].status = Target(d)]
    /\ deciding' = [deciding EXCEPT ![o] = @ \ {d}]
    /\ approved' = IF d \in Approvers THEN approved \cup {o} ELSE approved
    /\ UNCHANGED <<positions, portfolio, remote, status, expiring, cycle, host>>

\* expire_stale_approvals reads the rows that have waited too long ...
ReadStale ==
    /\ up /\ ~LockedByCycle /\ ~LockedByReset
    /\ \E stale \in SUBSET {o \in Orders :
                                orders[o].status = "PENDING_APPROVAL"} :
        /\ stale # {}
        /\ SerialDecisions => \A o \in stale : deciding[o] = {}
        /\ expiring' = stale
    /\ UNCHANGED <<database, remote, status, deciding, approved, cycle, host>>

\* ... and makes them EXPIRED in one transaction.
Expire ==
    /\ up /\ LockedByReset
    /\ orders' = [o \in Orders |-> IF o \in expiring
                                   THEN [orders[o] EXCEPT !.status = "EXPIRED"]
                                   ELSE orders[o]]
    /\ expiring' = {}
    /\ UNCHANGED <<positions, portfolio, remote, status, deciding, approved,
                   cycle, host>>
-----------------------------------------------------------------------------
(* ApprovalExecutor: one cycle, one transaction.                           *)

\* Mutant: the poll also takes orders nobody has approved.
WaitingOrPending(o) == orders[o].status \in {"SUBMITTED", "PENDING_APPROVAL"}

\* What the poll selects: approved, and no exchange order id.
Waiting(o) == orders[o].status = "SUBMITTED" /\ ~orders[o].known

\* The oldest BatchLimit of them, in order.
Oldest(S) ==
    {q \in UNION {[1 .. n -> S] : n \in 1 .. BatchLimit} :
        /\ \A i, j \in DOMAIN q : i < j => q[i] < q[j]
        /\ \A o \in S \ Range(q) :
                Len(q) = BatchLimit /\ \A i \in DOMAIN q : q[i] < o}

\* The status is read once, before the cycle.
Poll ==
    /\ up /\ step = "idle"
    /\ status = "RUNNING"
    /\ \E oldest \in Oldest({o \in Orders : Waiting(o)}) : batch' = oldest
    /\ step' = "polled"
    /\ UNCHANGED <<database, remote, status, people, outcome, host>>

\* Step 1, for the first order: the lock is kept until the cycle commits.
LockPortfolio ==
    /\ up /\ step = "polled"
    /\ ~LockedByReset
    /\ step' = "checking"
    /\ UNCHANGED <<database, remote, status, people, batch, outcome, host>>

Current == Head(batch)

Decide(o, result) ==
    /\ outcome' = [outcome EXCEPT ![o] = result]
    /\ batch' = Tail(batch)
    /\ step' = "checking"

\* What the cycle has debited so far, and the row its session sees.
Debits == [o \in Orders |-> IF outcome[o] = "booked" THEN Value(exchange[o]) ELSE 0]
Spent == Total(Debits, Orders)
SessionPortfolio == RecordFill(portfolio, Spent)

\* Steps 2 and 3: no balance for it, the guard refuses, or there is no market
\* data.  The last two may happen at any time.
Refuse ==
    /\ up /\ step = "checking" /\ batch # <<>>
    /\ Decide(Current, "refused")
    /\ UNCHANGED <<database, remote, status, people, host>>

\* Step 4: the request leaves; the exchange ignores a client order id that has
\* bought something before.
Send ==
    /\ up /\ step = "checking" /\ batch # <<>>
    /\ Quantity * EntryPrice <= SessionPortfolio.available
    /\ sent' = [sent EXCEPT ![Current] = ~Executed(Current)]
    /\ expired' = IF Executed(Current) THEN expired ELSE expired \ {Current}
    /\ step' = "submitting"
    /\ UNCHANGED <<database, exchange, status, people, batch, outcome, host>>

\* Mutant: the check sees the balance of the last commit.
CanPayCommitted(o) == Value(exchange[o]) <= portfolio.available

\* record_fill's check, on the row the session has locked and refreshed.
CanPay(o) == Value(exchange[o]) <= SessionPortfolio.available

\* Steps 5 to 8: the fill is flushed.  If record_fill refuses it, the handler
\* makes the order REJECTED and keeps the position that was flushed.
SubmitReturns ==
    /\ up /\ step = "submitting"
    /\ Answered(Current)
    /\ PositionRowOk(exchange[Current])
    /\ Decide(Current, IF CanPay(Current) THEN "booked" ELSE "unfunded")
    /\ UNCHANGED <<database, remote, status, people, host>>

\* Step 6: the position breaks a CHECK, by its price or because nothing was
\* bought.  The handler itself fails on the dead session, the cycle ends, and
\* everything it had flushed is lost.
PositionRowRefused ==
    /\ up /\ step = "submitting"
    /\ Answered(Current)
    /\ ~PositionRowOk(exchange[Current])
    /\ batch' = <<>>
    /\ step' = "idle"
    /\ outcome' = [o \in Orders |-> "none"]
    /\ UNCHANGED <<database, remote, status, people, host>>

\* Mutant: a partial execution counts as none.
UnseenUnlessFull(o) == exchange[o].qty < Quantity \/ QueryMayFail

\* submit raises: the query that followed saw no order, or one that expired,
\* or failed; or an exception that submit does not catch left no query.
Unseen(o) ==
    \/ ~Executed(o) /\ (LateExecution \/ ~sent[o])
    \/ o \in expired
    \/ QueryMayFail \/ ErrorsEscape

\* The handler makes the order REJECTED.
SubmitFails ==
    /\ up /\ step = "submitting"
    /\ Unseen(Current)
    /\ Decide(Current, "refused")
    /\ UNCHANGED <<database, remote, status, people, host>>

\* Mutant: a refusal that forgets the status.
RefusalForgotten(o) == orders[o]

FilledRow(o) ==
    [status |-> IF exchange[o].qty >= Quantity THEN "FILLED"
                ELSE "PARTIALLY_FILLED",
     filled |-> exchange[o].qty, known |-> TRUE]
RefusedRow(o) == [orders[o] EXCEPT !.status = "REJECTED"]

\* Mutant: a position at the requested price.
PositionAtEntry(o) == [price |-> EntryPrice, qty |-> exchange[o].qty]

PositionRow(o) == exchange[o]

CommitCycle ==
    /\ up /\ step = "checking" /\ batch = <<>>
    /\ orders' = [o \in Orders |->
            CASE outcome[o] = "booked"   -> FilledRow(o)
              [] outcome[o] = "unfunded" ->
                    [FilledRow(o) EXCEPT !.status = "REJECTED"]
              [] outcome[o] = "refused"  -> RefusedRow(o)
              [] OTHER                   -> orders[o]]
    /\ positions' = [o \in Orders |-> IF outcome[o] \in {"booked", "unfunded"}
                                      THEN PositionRow(o) ELSE positions[o]]
    /\ portfolio' = SessionPortfolio
    /\ step' = "idle"
    /\ outcome' = [o \in Orders |-> "none"]
    /\ UNCHANGED <<remote, status, people, batch, host>>
-----------------------------------------------------------------------------
(* The exchange, the operator, the process.                                *)

ExchangeFills(o) ==
    /\ sent[o] /\ ~Executed(o)
    /\ \E fill \in Fills :
        /\ exchange' = [exchange EXCEPT ![o] = fill]
        /\ \/ UNCHANGED expired
           \/ fill.qty < Quantity /\ expired' = expired \cup {o}
    /\ sent' = [sent EXCEPT ![o] = FALSE]
    /\ UNCHANGED <<database, status, people, cycle, host>>

\* The exchange refuses the order, or its receive window closes; or the order
\* expires at once, for want of liquidity.
RequestExpires(o) ==
    /\ sent[o]
    /\ \/ UNCHANGED expired
       \/ MayBuyNothing /\ expired' = expired \cup {o}
    /\ sent' = [sent EXCEPT ![o] = FALSE]
    /\ UNCHANGED <<database, exchange, status, people, cycle, host>>

OperatorHalt ==
    /\ up /\ "halt" \in OperatorActs
    /\ status' = "HALTED"
    /\ UNCHANGED <<database, remote, people, cycle, host>>

OperatorResume ==
    /\ up /\ "resume" \in OperatorActs
    /\ status' = "RUNNING"
    /\ UNCHANGED <<database, remote, people, cycle, host>>

Crash ==
    /\ up /\ restarts < MaxRestarts
    /\ up' = FALSE
    /\ restarts' = restarts + 1
    /\ deciding' = [o \in Orders |-> {}]
    /\ expiring' = {}
    /\ batch' = <<>>
    /\ step' = "idle"
    /\ outcome' = [o \in Orders |-> "none"]
    /\ UNCHANGED <<database, remote, status, approved>>

\* lifespan: the startup reconciler looks at SUBMITTING orders only.
Restart ==
    /\ ~up
    /\ up' = TRUE
    /\ status' = "RUNNING"
    /\ UNCHANGED <<database, remote, people, cycle, restarts>>
-----------------------------------------------------------------------------
DecisionStep ==
    \/ \E o \in Orders, d \in Deciders : Read(o, d) \/ Write(o, d)
    \/ ReadStale \/ Expire

ExecutorStep ==
    \/ Poll \/ LockPortfolio \/ Refuse \/ Send \/ SubmitReturns \/ PositionRowRefused
    \/ SubmitFails \/ CommitCycle

ExchangeStep(o) == ExchangeFills(o) \/ RequestExpires(o)

Next ==
    \/ \E o \in Orders : CreatePending(o) \/ ExchangeStep(o)
    \/ DecisionStep
    \/ ExecutorStep
    \/ OperatorHalt \/ OperatorResume \/ Crash \/ Restart

Spec == Init /\ [][Next]_vars

\* The executor polls for ever, each await of it and of the daily task is
\* bounded, a request dies with its receive window, and the container is
\* restarted.  People need not decide.
Fairness ==
    /\ WF_vars(ExecutorStep) /\ WF_vars(Expire)
    /\ \A o \in Orders : WF_vars(ExchangeStep(o))
    /\ WF_vars(Restart)

FairSpec == Spec /\ Fairness
-----------------------------------------------------------------------------
(* Safety, whatever overlaps or fails.                                     *)

\* Nothing is sent or bought without a committed human approval, whichever
\* decisions overlapped and whatever a crash undid.
ApprovedFirst ==
    \A o \in Orders : sent[o] \/ Executed(o) => o \in approved

\* Nobody invents a trade: a filled row and a position repeat the exchange's
\* execution, and a position is committed only with its order's exchange id.
RecordsTruthful ==
    \A o \in Orders :
        /\ orders[o].status \in {"FILLED", "PARTIALLY_FILLED"} => Executed(o)
        /\ orders[o].known <=> Opened(o)
        /\ Opened(o) => /\ positions[o] = exchange[o]
                        /\ orders[o].filled = exchange[o].qty

\* What the open positions cost.
Costs == [o \in Orders |-> Value(positions[o])]

\* Money: the orders of one batch, debited in one transaction, never overdraw
\* the balance and never create or lose any, and what is allocated is held by
\* an open position.
LedgerSound ==
    /\ Balanced(portfolio)
    /\ SatisfiesChecks(portfolio)
    /\ portfolio.total = InitialBalance
    /\ portfolio.allocated <= Total(Costs, Orders)

\* Every position is paid for, as long as the exchange executes at no worse a
\* price than the order's.
PositionsFunded == portfolio.allocated = Total(Costs, Orders)

(* Safety when decisions do not overlap, queries answer, no exception      *)
(* escapes, nothing executes late, no crash interrupts a cycle, and fills  *)
(* cost no more than planned.                                              *)

\* The abstract life of a trade: an order that no cycle has committed yet is
\* intended until the exchange executes it.
Stage(o) ==
    CASE orders[o].status = "ABSENT" -> "none"
      [] orders[o].status \in {"PENDING_APPROVAL", "SUBMITTED"} ->
            IF Reported(o) THEN "executed"
            ELSE IF Executed(o) THEN "expired" ELSE "intended"
      [] orders[o].status \in {"REJECTED", "EXPIRED"} -> "void"
      [] OTHER -> "recorded"

Lifecycle == INSTANCE TradeLifecycle WITH stage <- [o \in Orders |-> Stage(o)]

\* Manual approval keeps the promise of the automatic pipeline.
ImplementsLifecycle == Lifecycle!Spec

(* Liveness.                                                               *)

\* The position's row would break a CHECK: its insert fails.
Poisoned(o) == Answered(o) /\ ~PositionRowOk(exchange[o])

\* "After human approves (SUBMITTED), this worker detects them and completes
\* execution": what the poll selects does not wait for ever, unless an order of
\* the queue is one that no cycle can commit.
ApprovedSettles ==
    \A o \in Orders :
        Waiting(o) ~> ~Waiting(o) \/ \E p \in Orders : Poisoned(p)
=============================================================================
