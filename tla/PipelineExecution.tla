------------------------- MODULE PipelineExecution -------------------------
(***************************************************************************)
(* TradingPipeline.execute in LIVE mode without manual approval, together  *)
(* with what it shares its tables and the exchange with: the runtime       *)
(* reconciler, the startup reconciler, the operator's halt and resume, and *)
(* crashes of the process.                                                 *)
(*                                                                         *)
(* Three stores change at different moments: the database (orders,         *)
(* positions, portfolio), the exchange (exchange, expired, sent, oco) and  *)
(* Redis (status).  A step is what one transaction commits, or one call    *)
(* that reaches the exchange or Redis; the process may crash between any   *)
(* two.  One order stands for one trade intent and the row made for it;    *)
(* what repeated requests for it buy is the subject of OrderDelivery.      *)
(***************************************************************************)
EXTENDS Integers, FiniteSets, PortfolioLedger, OrderStates

CONSTANTS
    Orders,           \* the trade intents given to the pipeline
    InitialBalance,   \* the portfolio's balance at the start
    Sizes,            \* quantities the sizing may ask for
    EntryPrice,       \* the intents' entry price
    StopLoss,         \* their stop loss ...
    TakeProfit,       \* ... and take profit
    FillPrices,       \* average prices the exchange may execute at
    MaxPositions,     \* risk_max_positions
    MaxRestarts,      \* bound on crashes of the process
    OperatorActs,     \* what the operator may do: a subset of {"halt", "resume"}
    QueryMayFail,     \* TRUE: get_order and connect may fail
    SubmitMayOutlast  \* TRUE: an order may still be with its pipeline, or in
                      \* flight, when it is SUBMITTING_TIMEOUT old

ASSUME OrdersFinite == IsFiniteSet(Orders)
ASSUME BalanceNat == InitialBalance \in Nat
ASSUME SizesPositive == Sizes \subseteq Nat \ {0}
ASSUME PricesPositive ==
    /\ EntryPrice \in Nat \ {0}
    /\ StopLoss \in Nat \ {0}
    /\ TakeProfit \in Nat \ {0}
    /\ FillPrices \subseteq Nat \ {0}
\* _validate_sl_tp has accepted the intent.
ASSUME IntentValid == StopLoss < EntryPrice /\ EntryPrice < TakeProfit
ASSUME BoundsNat == MaxPositions \in Nat /\ MaxRestarts \in Nat
ASSUME ModesBoolean ==
    QueryMayFail \in BOOLEAN /\ SubmitMayOutlast \in BOOLEAN

VARIABLES
    orders,       \* database: the order rows
    positions,    \* database: the position opened for each order
    portfolio,    \* database: the LIVE portfolio row
    exchange,     \* exchange: how each client order id was executed
    expired,      \* exchange: the orders whose rest expired after that
    sent,         \* exchange: the create_order request may still execute
    oco,          \* exchange: quantity a stop/take-profit pair will sell
    status,       \* Redis: system:status
    pc,           \* process: where each pipeline run stands
    seen,         \* process: available_balance when the run read the row
    verdict,      \* process: the reconciler's answer for each order
    phase,        \* process: where the reconciler's cycle stands
    connected,    \* process: the reconcilers' executor has its client
    up,           \* the process is running
    restarts      \* crashes so far (bounded by MaxRestarts)

database == <<orders, positions, portfolio>>
remote == <<exchange, expired, sent, oco>>
run == <<pc, seen>>
recon == <<verdict, phase, connected>>
host == <<up, restarts>>
vars == <<database, remote, status, run, recon, host>>
-----------------------------------------------------------------------------
\* A row or an execution that is not there has quantity 0.
NoOrder == [status |-> "ABSENT", requested |-> 0, filled |-> 0]
NoFill == [price |-> 0, qty |-> 0]
NoPosition == [price |-> 0, qty |-> 0, oco |-> FALSE]

Executed(o) == exchange[o].qty > 0
Reported(o) == Executed(o) /\ o \notin expired
Opened(o) == positions[o].qty > 0
Value(x) == x.price * x.qty

OpenPositions == {o \in Orders : Opened(o)}

Fills(quantity) == [price : FillPrices, qty : 1 .. quantity]

\* The migrations' CHECK constraints on positions, for a LONG.
PositionRowOk(fill) ==
    fill.qty > 0 /\ StopLoss < fill.price /\ fill.price < TakeProfit

\* Steps 2 to 5: the checks made on the row the run has locked.  The other
\* rules of the risk manager, and the guard, may refuse at any time.
BalanceCovers(quantity) == quantity * EntryPrice <= portfolio.available
WithinLimits(quantity) ==
    /\ Cardinality(OpenPositions) < MaxPositions
    /\ BalanceCovers(quantity)

\* Mutant: a status that the state machine does not have.
FillStatusTypo(o, fill) ==
    IF fill.qty >= orders[o].requested THEN "FILLED" ELSE "PARTIAL"

\* Step 9: the status a fill gives the order.
FillStatus(o, fill) ==
    IF fill.qty >= orders[o].requested THEN "FILLED" ELSE "PARTIALLY_FILLED"

FilledRow(o, fill) ==
    [orders[o] EXCEPT !.status = FillStatus(o, fill), !.filled = fill.qty]

\* Mutant: the position is opened at the intent's price.
PositionRowAtEntry(fill, protected) ==
    [price |-> EntryPrice, qty |-> fill.qty, oco |-> protected]

PositionRow(fill, protected) ==
    [price |-> fill.price, qty |-> fill.qty, oco |-> protected]

TypeOK ==
    /\ orders \in [Orders -> [status : {"ABSENT"} \cup OrderStatuses,
                              requested : Nat, filled : Nat]]
    /\ positions \in [Orders -> [price : Nat, qty : Nat, oco : BOOLEAN]]
    /\ portfolio \in Portfolios
    /\ exchange \in [Orders -> [price : Nat, qty : Nat]]
    /\ expired \subseteq Orders
    /\ sent \in [Orders -> BOOLEAN]
    /\ oco \in [Orders -> Nat]
    /\ status \in {"RUNNING", "HALTED"}
    /\ pc \in [Orders -> {"idle", "admitting", "submitting", "filled",
                          "protected", "unprotected", "done"}]
    /\ seen \in [Orders -> Int]
    /\ verdict \in [Orders -> {"none", "pending", "fill", "cancel", "error"}]
    /\ phase \in {"idle", "querying", "committing"}
    /\ connected \in BOOLEAN
    /\ up \in BOOLEAN
    /\ restarts \in 0 .. MaxRestarts

Init ==
    /\ orders = [o \in Orders |-> NoOrder]
    /\ positions = [o \in Orders |-> NoPosition]
    /\ portfolio = NewPortfolio(InitialBalance)
    /\ exchange = [o \in Orders |-> NoFill]
    /\ expired = {}
    /\ sent = [o \in Orders |-> FALSE]
    /\ oco = [o \in Orders |-> 0]
    /\ status = "RUNNING"
    /\ pc = [o \in Orders |-> "idle"]
    /\ seen = [o \in Orders |-> 0]
    /\ verdict = [o \in Orders |-> "none"]
    /\ phase = "idle"
    /\ connected = TRUE
    /\ up = TRUE
    /\ restarts = 0
-----------------------------------------------------------------------------
(* The pipeline.                                                           *)

Goto(o, from, to) == up /\ pc[o] = from /\ pc' = [pc EXCEPT ![o] = to]

\* Step 1: the system status is read once, before the portfolio is locked.
CheckStatus(o) ==
    /\ Goto(o, "idle", IF status = "RUNNING" THEN "admitting" ELSE "done")
    /\ UNCHANGED <<database, remote, status, seen, recon, host>>

\* Steps 3 to 6 refuse: nothing but events is written.
RejectIntent(o) ==
    /\ Goto(o, "admitting", "done")
    /\ UNCHANGED <<database, remote, status, seen, recon, host>>

\* Steps 2 to 8: under the portfolio's row lock the run reads the row and the
\* open positions, passes every check, and inserts the order; the commit that
\* makes it SUBMITTING also gives the lock up.  Every writer of the portfolio
\* takes that lock, so this is one step.  The request leaves right after.
\* Mutant: the row is flushed but not committed before the request leaves.
SubmittingRowFlushed(quantity) == NoOrder

SubmittingRow(quantity) ==
    [status |-> "SUBMITTING", requested |-> quantity, filled |-> 0]

AcceptIntent(o) ==
    /\ Goto(o, "admitting", "submitting")
    /\ \E quantity \in Sizes :
        /\ WithinLimits(quantity)
        /\ orders' = [orders EXCEPT ![o] = SubmittingRow(quantity)]
    /\ seen' = [seen EXCEPT ![o] = portfolio.available]
    /\ sent' = [sent EXCEPT ![o] = TRUE]
    /\ UNCHANGED <<positions, portfolio, exchange, expired, oco, status, recon, host>>

\* submit returns the fill the exchange made, from the response or, after the
\* retries failed, from reconcile_order.
SubmitReturns(o) ==
    /\ Goto(o, "submitting", "filled")
    /\ Executed(o)
    /\ UNCHANGED <<database, remote, status, seen, recon, host>>

\* submit raises: the order was refused, or the calls failed and the query
\* that followed saw nothing, or the exception is one that submit does not
\* catch, whatever the exchange did; or it returns a fill of nothing, whose
\* position breaks a CHECK.  The SUBMITTING row is already committed and
\* stays; the exception is turned into an ERROR result.
SubmitFails(o) ==
    /\ Goto(o, "submitting", "done")
    /\ UNCHANGED <<database, remote, status, seen, recon, host>>

\* The reconciler has flushed its change of the row and holds its lock.
RowHeldByReconciler(o) ==
    phase = "committing" /\ verdict[o] \in {"fill", "cancel"}

\* Steps 9 and 10: the flush that inserts the position breaks a CHECK.  The
\* whole transaction is lost and the row stays SUBMITTING.
PositionRowRefused(o) ==
    /\ Goto(o, "filled", "done")
    /\ ~RowHeldByReconciler(o)
    /\ ~PositionRowOk(exchange[o])
    /\ UNCHANGED <<database, remote, status, seen, recon, host>>

\* Mutant: the OCO is placed for the requested quantity.
ProtectedQtyRequested(o) == orders[o].requested

ProtectedQty(o) == exchange[o].qty

\* Steps 9 to 10b: the flushes succeed and the OCO is placed on the exchange.
\* Its placement may fail, or its response be lost, which the code takes for
\* the same; both are tolerated.  Nothing is committed yet.
PlaceOco(o) ==
    /\ \/ /\ Goto(o, "filled", "protected")
          /\ oco' = [oco EXCEPT ![o] = ProtectedQty(o)]
       \/ /\ Goto(o, "filled", "unprotected")
          /\ \E quantity \in {0, ProtectedQty(o)} :
                oco' = [oco EXCEPT ![o] = quantity]
    /\ ~RowHeldByReconciler(o)
    /\ PositionRowOk(exchange[o])
    /\ UNCHANGED <<database, exchange, expired, sent, status, seen, recon, host>>

\* The run has flushed the row of its order, and holds its lock.
Flushed == {"protected", "unprotected"}
Finish(o) == pc[o] \in Flushed /\ Goto(o, pc[o], "done")

\* Mutant: the position is not part of the transaction.
CommitFillOrderOnly(o) ==
    /\ orders' = [orders EXCEPT ![o] = FilledRow(o, exchange[o])]
    /\ positions' = positions

\* What the caller's commit writes for the order and its position.
CommitFill(o) ==
    /\ orders' = [orders EXCEPT ![o] = FilledRow(o, exchange[o])]
    /\ positions' =
         [positions EXCEPT ![o] = PositionRow(exchange[o], pc[o] = "protected")]

\* record_fill's own check, made on the balance read before the commit of
\* step 8: the session's identity map still holds that row.
StaleCheckPasses(o) == Value(exchange[o]) <= seen[o]

\* Mutants: a read-modify-write of the row read before the commit; a debit at
\* the intent's price.
DebitedFromSeen(o) ==
    [portfolio EXCEPT !.available = seen[o] - Value(exchange[o]),
                      !.allocated = @ + Value(exchange[o])]
DebitedAtEntry(o) == RecordFill(portfolio, EntryPrice * exchange[o].qty)

Debited(o) == RecordFill(portfolio, Value(exchange[o]))

\* Step 11 succeeds and the caller commits.
Book(o) ==
    /\ Finish(o)
    /\ StaleCheckPasses(o)
    /\ SatisfiesChecks(Debited(o))
    /\ CommitFill(o)
    /\ portfolio' = Debited(o)
    /\ UNCHANGED <<remote, status, seen, recon, host>>

\* Step 11: record_fill raises ValueError.  The exception becomes a result and
\* the caller commits what was flushed: the position without its money.
RecordFillRefused(o) ==
    /\ Finish(o)
    /\ ~StaleCheckPasses(o)
    /\ CommitFill(o)
    /\ UNCHANGED <<portfolio, remote, status, seen, recon, host>>

\* Step 11: the UPDATE breaks a CHECK of the portfolio.  The transaction is
\* lost, and the OCO stays on the exchange.
PortfolioRowRefused(o) ==
    /\ Finish(o)
    /\ StaleCheckPasses(o)
    /\ ~SatisfiesChecks(Debited(o))
    /\ UNCHANGED <<database, remote, status, seen, recon, host>>
-----------------------------------------------------------------------------
(* The exchange.  A client order id is executed at most once, while its    *)
(* request is in flight, and of a partial execution the rest may expire; a *)
(* request dies when the receive window closes.                            *)

ExchangeFills(o) ==
    /\ sent[o]
    /\ \E fill \in Fills(orders[o].requested) :
        /\ exchange' = [exchange EXCEPT ![o] = fill]
        /\ \/ UNCHANGED expired
           \/ fill.qty < orders[o].requested /\ expired' = expired \cup {o}
    /\ sent' = [sent EXCEPT ![o] = FALSE]
    /\ UNCHANGED <<database, oco, status, run, recon, host>>

RequestExpires(o) ==
    /\ sent[o]
    /\ pc[o] # "submitting"
    /\ sent' = [sent EXCEPT ![o] = FALSE]
    /\ UNCHANGED <<database, exchange, expired, oco, status, run, recon, host>>
-----------------------------------------------------------------------------
(* The runtime reconciler: one cycle selects the stuck orders, queries the *)
(* exchange for each, halts if an answer is critical, then commits.        *)

\* Mutant: no age threshold.
StuckAtAnyAge(o) == orders[o].status = "SUBMITTING"

\* _check_stuck_orders: SUBMITTING and older than SUBMITTING_TIMEOUT.  Unless
\* SubmitMayOutlast, a run and its request are over by that age.
Stuck(o) ==
    /\ orders[o].status = "SUBMITTING"
    /\ SubmitMayOutlast \/ (pc[o] = "done" /\ ~sent[o])

\* Mutant: a partial execution counts as not filled.
AnswersFullOnly(o) ==
    IF exchange[o].qty = orders[o].requested THEN {"fill"} ELSE {"cancel"}

\* reconcile_order: no fill is returned for an order that is not there or
\* expired, and none when the query itself fails, as it does without a
\* client; an unreadable response raises.
Answers(o) ==
    {a \in {"fill", "cancel", "error"} :
        /\ a = "fill" => Reported(o)
        /\ a = "cancel" => ~Reported(o) \/ QueryMayFail
        /\ a = "error" => QueryMayFail}

\* Mutant: a partial execution is only reported.
ReconciledFullOnly(o, answer) ==
    CASE answer = "fill" /\ exchange[o].qty = orders[o].requested ->
            [orders[o] EXCEPT !.status = "FILLED", !.filled = exchange[o].qty]
      [] answer = "cancel" -> [orders[o] EXCEPT !.status = "CANCELLED"]
      [] OTHER -> orders[o]

\* The row a verdict leaves: a fill makes it FILLED, whatever its quantity.
Reconciled(o, answer) ==
    CASE answer = "fill" ->
            [orders[o] EXCEPT !.status = "FILLED", !.filled = exchange[o].qty]
      [] answer = "cancel" -> [orders[o] EXCEPT !.status = "CANCELLED"]
      [] OTHER -> orders[o]

\* Mutant: an order found filled is a WARNING.
CriticalErrorOnly(answer) == answer = "error"

\* Issues of severity CRITICAL.
Critical(answer) == answer \in {"fill", "error"}

\* The orders of one cycle: those old enough when it starts.
ReconSelect ==
    /\ up /\ phase = "idle"
    /\ \E batch \in SUBSET {o \in Orders : Stuck(o)} :
        /\ batch # {}
        /\ verdict' = [o \in Orders |->
                          IF o \in batch THEN "pending" ELSE "none"]
    /\ phase' = "querying"
    /\ UNCHANGED <<database, remote, status, run, connected, host>>

ReconQuery(o) ==
    /\ up /\ phase = "querying" /\ verdict[o] = "pending"
    /\ \E answer \in Answers(o) :
        /\ connected \/ answer = "cancel"
        /\ verdict' = [verdict EXCEPT ![o] = answer]
    /\ UNCHANGED <<database, remote, status, run, phase, connected, host>>

\* Check 2 flushes the changed rows, waiting for a run that holds one of them.
\* Checks 2 to 4 write nothing, and find nothing critical here: a position is
\* committed with its order's exchange id, a market order never rests, and a
\* balance drift is a warning.  Then _handle_issues halts trading if an issue
\* is critical.
ReconFlush ==
    /\ up /\ phase = "querying"
    /\ \A o \in Orders : verdict[o] # "pending"
    /\ \A o \in Orders :
            verdict[o] \in {"fill", "cancel"} => pc[o] \notin Flushed
    /\ status' = IF \E o \in Orders : Critical(verdict[o])
                 THEN "HALTED" ELSE status
    /\ phase' = "committing"
    /\ UNCHANGED <<database, remote, run, verdict, connected, host>>

ReconCommit ==
    /\ up /\ phase = "committing"
    /\ orders' = [o \in Orders |-> Reconciled(o, verdict[o])]
    /\ verdict' = [o \in Orders |-> "none"]
    /\ phase' = "idle"
    /\ UNCHANGED <<positions, portfolio, remote, status, run, connected, host>>
-----------------------------------------------------------------------------
(* The operator and the process.                                           *)

OperatorHalt ==
    /\ up /\ "halt" \in OperatorActs
    /\ status' = "HALTED"
    /\ UNCHANGED <<database, remote, run, recon, host>>

OperatorResume ==
    /\ up /\ "resume" \in OperatorActs
    /\ status' = "RUNNING"
    /\ UNCHANGED <<database, remote, run, recon, host>>

\* Every uncommitted transaction and every run's memory is lost.
Crash ==
    /\ up /\ restarts < MaxRestarts
    /\ up' = FALSE
    /\ restarts' = restarts + 1
    /\ pc' = [o \in Orders |-> IF pc[o] = "idle" THEN "idle" ELSE "done"]
    /\ verdict' = [o \in Orders |-> "none"]
    /\ phase' = "idle"
    /\ UNCHANGED <<database, remote, status, seen, connected>>

\* Mutant: no five-minute threshold.
OrphanedAtAnyAge(o) == orders[o].status = "SUBMITTING"

\* The orders of the startup reconciler: SUBMITTING for five minutes, which no
\* request outlives.
Orphaned(o) == orders[o].status = "SUBMITTING" /\ ~sent[o]

\* lifespan: the orders old enough are reconciled in one transaction (an error
\* cancels the order), the status is set to RUNNING whatever it was, and the
\* runtime reconciler is launched although its executor may have failed to
\* connect.
Restart ==
    /\ ~up
    /\ connected' \in {TRUE, ~QueryMayFail}
    /\ \E old \in SUBSET {o \in Orders : Orphaned(o)} :
        \E answer \in [old -> {"fill", "cancel"}] :
            /\ \A o \in old : /\ answer[o] \in Answers(o)
                              /\ connected' \/ answer[o] = "cancel"
            /\ orders' = [o \in Orders |-> IF o \in old
                                           THEN Reconciled(o, answer[o])
                                           ELSE orders[o]]
    /\ status' = "RUNNING"
    /\ up' = TRUE
    /\ UNCHANGED <<positions, portfolio, remote, run, verdict, phase, restarts>>
-----------------------------------------------------------------------------
PipelineStep(o) ==
    \/ CheckStatus(o) \/ RejectIntent(o) \/ AcceptIntent(o)
    \/ SubmitReturns(o) \/ SubmitFails(o)
    \/ PositionRowRefused(o) \/ PlaceOco(o)
    \/ Book(o) \/ RecordFillRefused(o) \/ PortfolioRowRefused(o)

ExchangeStep(o) == ExchangeFills(o) \/ RequestExpires(o)

ReconcilerStep ==
    \/ ReconSelect
    \/ \E o \in Orders : ReconQuery(o)
    \/ ReconFlush
    \/ ReconCommit

HostStep == OperatorHalt \/ OperatorResume \/ Crash \/ Restart

Next ==
    \/ \E o \in Orders : PipelineStep(o) \/ ExchangeStep(o)
    \/ ReconcilerStep
    \/ HostStep

Spec == Init /\ [][Next]_vars

\* Every await of a run and of the reconciler is bounded by a client timeout
\* and a bounded number of retries, a request dies with its receive window,
\* and the container is restarted (restart: unless-stopped).  Nothing obliges
\* the exchange to execute, the operator to act or the process to crash.
Fairness ==
    /\ \A o \in Orders : WF_vars(PipelineStep(o)) /\ WF_vars(ExchangeStep(o))
    /\ WF_vars(ReconcilerStep)
    /\ WF_vars(Restart)

FairSpec == Spec /\ Fairness
-----------------------------------------------------------------------------
(* Safety, whatever fails: queries, timing, crashes.                       *)

\* Nothing reaches the exchange for an order that a restart could not find:
\* the SUBMITTING row is on disk before the request leaves (step 8).
WriteAhead ==
    \A o \in Orders :
        sent[o] \/ Executed(o) \/ oco[o] > 0 => orders[o].status # "ABSENT"

\* Nobody invents a trade: whichever of the pipeline, the runtime reconciler
\* and the startup reconciler wrote last, a filled row and a position repeat
\* the one execution the exchange made, and a position names an OCO only if
\* it was placed.
RecordsTruthful ==
    \A o \in Orders :
        /\ orders[o].status \in {"FILLED", "PARTIALLY_FILLED"} => Executed(o)
        /\ orders[o].filled \in {0, exchange[o].qty}
        /\ Opened(o) => /\ positions[o].price = exchange[o].price
                        /\ positions[o].qty = exchange[o].qty
                        /\ positions[o].oco => oco[o] > 0

\* The protective orders never sell more of an order than it bought, even
\* when the transaction that placed them is lost.
OcoBacked == \A o \in Orders : oco[o] <= exchange[o].qty

\* Money: runs that read the portfolio before others committed never create
\* or destroy balance, and never leave a row that breaks a CHECK.
LedgerSound ==
    /\ Balanced(portfolio)
    /\ SatisfiesChecks(portfolio)
    /\ portfolio.total = InitialBalance

\* What each order's position cost; nothing if it has none.
Costs == [o \in Orders |-> Value(positions[o])]

\* What is allocated is held by an open position, whichever of the three ways
\* of ending a run the other runs took.
AllocationBacked == portfolio.allocated <= Total(Costs, Orders)

(* Safety when queries answer and no run outlasts SUBMITTING_TIMEOUT.      *)

\* A cancelled order will not be executed, and was not, unless its rest
\* expired: the claim behind cancelling a stuck order that the exchange does
\* not report as filled.
FillNeverForgotten ==
    \A o \in Orders :
        orders[o].status = "CANCELLED" => ~Reported(o) /\ ~sent[o]

\* The committed status of an order moves along ORDER_TRANSITIONS although
\* the pipeline and the reconcilers never call validate_order_transition.
LegalTransitions ==
    [][\A o \in Orders :
        \/ orders'[o].status = orders[o].status
        \/ orders[o].status = "ABSENT"
        \/ orders'[o].status \in OrderTransitions(orders[o].status)]_orders

\* No position without its money, as long as the exchange executes at no worse
\* a price than the intent's: allocated is exactly what the positions cost.
PositionsFunded == portfolio.allocated = Total(Costs, Orders)

\* The abstract life of a trade, read off the database and the exchange.
Stage(o) ==
    CASE orders[o].status = "ABSENT" -> "none"
      [] orders[o].status = "SUBMITTING" ->
            IF Reported(o) THEN "executed"
            ELSE IF o \in expired THEN "expired" ELSE "intended"
      [] orders[o].status = "CANCELLED" -> "void"
      [] OTHER -> "recorded"

Lifecycle == INSTANCE TradeLifecycle WITH stage <- [o \in Orders |-> Stage(o)]

\* The pipeline, the reconcilers, the exchange and crashes together implement
\* the abstract life of a trade.
ImplementsLifecycle == Lifecycle!Spec

(* Liveness.                                                               *)

\* An order does not stay SUBMITTING: its pipeline, or after a failure or a
\* crash a reconciler, gives it a final status.
StuckResolved == Lifecycle!Settles

\* An execution whose run ended without a position stops trading in the end,
\* for an operator to look at it, unless its rest expired.  (At a restart the
\* startup reconciler would record it without a halt.)
UnbookedFillHalts ==
    \A o \in Orders :
        Reported(o) /\ pc[o] = "done" /\ ~Opened(o)
            ~> status = "HALTED" \/ restarts > 0
=============================================================================
