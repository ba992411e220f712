------------------------------ MODULE TradingDay ------------------------------
(***************************************************************************)
(* PAPER trading over several days: runs of the pipeline that decide with  *)
(* RiskRules under the portfolio's lock, give the lock up when they commit *)
(* SUBMITTING, wait for the paper engine and book its fill; positions that *)
(* are closed; the circuit breaker; and the task that begins a new day.    *)
(* dayPnl, turned and restartsToday are history: the profit since the task *)
(* last began a calendar day, whether the date has changed since, and how  *)
(* often the task was started meanwhile.                                   *)
(***************************************************************************)
EXTENDS RiskRules, PortfolioLedger, FiniteSets

CONSTANTS
    Runs,           \* one intent each
    Overlap,        \* how many runs the callers have at work at once
    Intents,        \* [symbol, side, entry, stop, target, confidence]
    Markets,        \* the snapshots callers pass: [price, bid, ask, volume]
    CachedPrices,   \* what Redis may hold when the paper engine looks
    ExitPrices,     \* what a position may be closed at
    Slippage,       \* in ten-thousandths
    Balance,
    WorstRisk,      \* bound of what a position can lose down to its stop
    MaxDays, MaxRestarts

ASSUME DayAssumption ==
    /\ Overlap \in Nat \ {0} /\ IsFiniteSet(Runs)
    /\ {Slippage, Balance, WorstRisk, MaxDays, MaxRestarts} \subseteq Nat
ASSUME IntentsAssumption ==
    /\ \A i \in Intents : {i.entry, i.stop, i.target} \subseteq Int /\ i.confidence \in Nat
    /\ CachedPrices \cup ExitPrices \subseteq Nat

VARIABLES pc, order, position, portfolio, breaker, task, lastReset,
          dayPnl, turned, restartsToday, days, restarts

runVars == <<pc, order, position>>
dayVars == <<task, lastReset, turned, restartsToday, days, restarts>>
vars == <<runVars, portfolio, breaker, dayPnl, dayVars>>

NoOrder == [quantity |-> 0]     \* none that a run still works on
NoPosition == [quantity |-> 0]

\* A run is idle, submitting, holding a position, or over.
At(state) == {r \in Runs : pc[r] = state}

Init ==
    /\ pc = [r \in Runs |-> "idle"]
    /\ order = [r \in Runs |-> NoOrder]
    /\ position = [r \in Runs |-> NoPosition]
    /\ portfolio = NewPortfolio(Balance)
    /\ breaker = FALSE
    /\ task = "running" /\ lastReset = "today"
    /\ dayPnl = 0 /\ turned = FALSE /\ restartsToday = 0
    /\ days = 0 /\ restarts = 0

-----------------------------------------------------------------------------
EntryValue == [r \in At("holding") |-> position[r].entry * position[r].quantity]

\* get_total_exposure_by_symbol and count_open read committed positions; the
\* orders other runs have submitted are not among them.
Exposure(symbol) ==
    Total(EntryValue, {r \in At("holding") : position[r].symbol = symbol})

Context(i) ==
    [total |-> portfolio.total, available |-> portfolio.available,
     dailyPnl |-> portfolio.dailyPnl, drawdown |-> portfolio.maxDrawdown,
     open |-> Cardinality(At("holding")), exposure |-> Exposure(i.symbol)]

Accepts(i, m) ==
    LET c == Context(i)
    IN  /\ StopsSound(i)
        /\ ~breaker /\ Validate(c, i) = "APPROVE"
        /\ Sizeable(c, i) /\ Affordable(c, i)
        /\ GuardApproves(i, m)

\* execute up to the commit of SUBMITTING, which releases the portfolio.
\* seen is the balance that the session keeps from the lock.
Submit(r) ==
    /\ pc[r] = "idle" /\ Cardinality(At("submitting")) < Overlap
    /\ pc' = [pc EXCEPT ![r] = "submitting"]
    /\ \E i \in Intents, m \in Markets :
        /\ Accepts(i, m)
        /\ order' = [order EXCEPT ![r] =
                [intent |-> i, quantity |-> Quantity(Context(i), i),
                 seen |-> portfolio.available]]
    /\ UNCHANGED <<position, portfolio, breaker, dayPnl, dayVars>>

\* Every other answer leaves the rows alone; a rule that halts trips the
\* breaker.
Refuse ==
    /\ \E i \in Intents, m \in Markets :
        /\ ~Accepts(i, m)
        /\ breaker' = \/ breaker
                      \/ StopsSound(i) /\ Validate(Context(i), i) = "HALT_SYSTEM"
    /\ UNCHANGED <<runVars, portfolio, dayPnl, dayVars>>

\* PaperEngine.submit: the cached price, or the order's when none is cached,
\* and the slippage to the disadvantage of the order.
FillPrices(o) ==
    { IF o.intent.side = "BUY" THEN price + HalfEven(price * Slippage, 10000)
                               ELSE price - HalfEven(price * Slippage, 10000)
        : price \in CachedPrices \cup {o.intent.entry} }

\* open_position makes every position a LONG, with the intent's stop and
\* target; the CHECK constraints of 006 want them around the entry.
Opened(o, price) ==
    [symbol |-> o.intent.symbol, entry |-> price, quantity |-> o.quantity,
     stop |-> o.intent.stop, target |-> o.intent.target]
RowAccepted(p) == p.stop < p.entry /\ p.entry < p.target

\* record_fill compares with the balance of the lock.  If it raises, the
\* flushed position is committed without its debit.
Booked(o, price) ==
    IF o.seen >= price * o.quantity
    THEN RecordFill(portfolio, price * o.quantity)
    ELSE portfolio

\* Steps 9 to 11 and the caller's commit.
Fill(r) ==
    /\ pc[r] = "submitting"
    /\ \E price \in FillPrices(order[r]) :
        /\ RowAccepted(Opened(order[r], price))
        /\ SatisfiesChecks(Booked(order[r], price))
        /\ position' = [position EXCEPT ![r] = Opened(order[r], price)]
        /\ portfolio' = Booked(order[r], price)
    /\ pc' = [pc EXCEPT ![r] = "holding"]
    /\ order' = [order EXCEPT ![r] = NoOrder]
    /\ UNCHANGED <<breaker, dayPnl, dayVars>>

\* The database refuses a row: the transaction is lost and the order stays
\* SUBMITTING until a start of the application cancels it.
LoseFill(r) ==
    /\ pc[r] = "submitting"
    /\ \E price \in FillPrices(order[r]) :
        \/ ~RowAccepted(Opened(order[r], price))
        \/ ~SatisfiesChecks(Booked(order[r], price))
    /\ pc' = [pc EXCEPT ![r] = "over"]
    /\ order' = [order EXCEPT ![r] = NoOrder]
    /\ UNCHANGED <<position, portfolio, breaker, dayPnl, dayVars>>

-----------------------------------------------------------------------------
\* close_position with record_close, by a monitor or the endpoint.
Close(r) ==
    /\ pc[r] = "holding"
    /\ \E price \in ExitPrices :
        LET pnl == (price - position[r].entry) * position[r].quantity
            closed == RecordClose(portfolio, EntryValue[r], pnl)
        IN  /\ SatisfiesChecks(closed)
            /\ portfolio' = closed
            /\ dayPnl' = dayPnl + pnl
    /\ position' = [position EXCEPT ![r] = NoPosition]
    /\ pc' = [pc EXCEPT ![r] = "over"]
    /\ UNCHANGED <<order, breaker, dayVars>>

\* A start of the application: runs that were waiting are gone, and the key of
\* the breaker, of which the event store knows nothing, is deleted.  Nothing
\* else clears it; POST /system/resume refuses while it is set.
RestartApplication ==
    /\ pc' = [r \in Runs |-> IF pc[r] = "submitting" THEN "over" ELSE pc[r]]
    /\ order' = [r \in Runs |-> NoOrder]
    /\ breaker' = FALSE
    /\ UNCHANGED <<position, portfolio, dayPnl, dayVars>>

-----------------------------------------------------------------------------
\* Midnight.
NewDay ==
    /\ days < MaxDays
    /\ days' = days + 1 /\ turned' = TRUE
    /\ lastReset' = IF lastReset = "today" THEN "earlier" ELSE lastReset
    /\ UNCHANGED <<runVars, portfolio, breaker, dayPnl, task, restartsToday, restarts>>

\* DailyResetTask.start: the loop resets whenever the date it last did so is
\* not today's, which includes the first look of every process.
Reset ==
    /\ task = "running" /\ lastReset # "today"
    /\ portfolio' = ResetDailyPnl(portfolio)
    /\ lastReset' = "today"
    /\ dayPnl' = IF turned THEN 0 ELSE dayPnl
    /\ restartsToday' = IF turned THEN 0 ELSE restartsToday
    /\ turned' = FALSE
    /\ UNCHANGED <<runVars, breaker, task, days, restarts>>

\* _do_reset is awaited outside any try: an exception ends the task.
ResetFails ==
    /\ task = "running" /\ lastReset # "today"
    /\ task' = "dead"
    /\ UNCHANGED <<runVars, portfolio, breaker, dayPnl,
                   lastReset, turned, restartsToday, days, restarts>>

\* start_paper_trading begins a task that has reset nothing yet.
RestartTask ==
    /\ restarts < MaxRestarts
    /\ restarts' = restarts + 1 /\ restartsToday' = restartsToday + 1
    /\ task' = "running" /\ lastReset' = "never"
    /\ UNCHANGED <<runVars, portfolio, breaker, dayPnl, turned, days>>

Next ==
    \/ \E r \in Runs : Submit(r) \/ Fill(r) \/ LoseFill(r) \/ Close(r)
    \/ Refuse \/ RestartApplication
    \/ NewDay \/ Reset \/ ResetFails \/ RestartTask

Spec == Init /\ [][Next]_vars

-----------------------------------------------------------------------------
TypeOK ==
    /\ pc \in [Runs -> {"idle", "submitting", "holding", "over"}]
    /\ portfolio \in Portfolios
    /\ breaker \in BOOLEAN /\ turned \in BOOLEAN
    /\ task \in {"running", "dead"} /\ lastReset \in {"never", "today", "earlier"}
    /\ dayPnl \in Int
    /\ {restartsToday, days, restarts} \subseteq Nat

\* The limit on positions is checked against committed positions only, so
\* runs that overlap can pass it together.  It is exceeded by at most the
\* runs that overlap a last admitted one, and never by positions alone when
\* runs do not overlap.
PositionsBounded ==
    Cardinality(At("holding")) + Cardinality(At("submitting"))
        <= MaxPositions + Overlap - 1

\* What the daily loss limit, checked before an order and not on the risk
\* that is already open, really guarantees: between two calendar resets the
\* loss, with what the held positions can still lose down to their stops,
\* stays within the limit and one stop per position that may be held; and
\* once more for every start of the daily task in between, for a start sets
\* the counted loss back to zero.
StopRisk == [r \in At("holding") |->
                (position[r].entry - position[r].stop) * position[r].quantity]
OpenRisk == Total(StopRisk, At("holding"))
DayAllowance ==
    MaxDailyLoss * (portfolio.total - dayPnl)
        + 100 * (MaxPositions + Overlap - 1) * WorstRisk
DayLossBounded ==
    100 * (OpenRisk - dayPnl) <= (1 + restartsToday) * DayAllowance

\* Drawdown is never forgotten: once it is near its limit no order is
\* submitted any more, whatever is earned, reset or restarted.
DrawdownLatches ==
    [][NearMaxDrawdown(portfolio.maxDrawdown) =>
        /\ NearMaxDrawdown(portfolio'.maxDrawdown)
        /\ \A r \in Runs : pc'[r] = "submitting" => pc[r] = "submitting"]_vars

\* The sizing's limits are checked on exact values and the quantity is
\* rounded afterwards: an order never exceeds the balance, and misses its
\* other bounds, the minimum notional and the symbol's exposure, by no more
\* than half a quantum.
SubmitsInBounds(r) ==
    LET o == order'[r]
        value == o.quantity * o.intent.entry
        room == RemainingExposure(Context(o.intent))
    IN  /\ value <= portfolio.available
        /\ 2 * value + o.intent.entry >= 2 * MinNotional
        /\ 100 * (2 * value - o.intent.entry) <= 2 * room
OrdersInBounds ==
    [][\A r \in Runs : pc[r] # pc'[r] /\ pc'[r] = "submitting" => SubmitsInBounds(r)]_vars
===============================================================================
