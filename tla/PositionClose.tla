---------------------------- MODULE PositionClose ----------------------------
(***************************************************************************)
(* The ways a position is closed: cycles of PositionMonitor, which lock    *)
(* every open row for the whole cycle (FOR UPDATE SKIP LOCKED) and take a  *)
(* Redis key before each close, and requests to the close endpoint, which  *)
(* read the row without a lock and write it by its id.  Both settle the    *)
(* portfolio with record_close and add a trade.                            *)
(*                                                                         *)
(* The positions are of one symbol, opened by the pipeline at the same     *)
(* price and quantity.                                                     *)
(***************************************************************************)
EXTENDS Integers, Sequences, FiniteSets, PortfolioLedger, OrderStates

CONSTANTS
    Positions,     \* the positions open at the start
    Monitors,      \* processes that run a position monitor
    Requests,      \* requests to close, for each position
    Available,     \* the balance not allocated at the start
    EntryPrice,
    Quantity,
    StopLoss,
    TakeProfit,
    Prices,        \* prices the cache, or the caller of the endpoint, may give
    StaleLimit,    \* the 5 stale prices in a row that halt trading
    MaxFailures,   \* bound on cycles that end with an exception or a crash
    MaxTicks,      \* bound on changes of the price
    OperatorActs   \* a subset of {"resume"}

ASSUME CloseSets == IsFiniteSet(Positions) /\ IsFiniteSet(Monitors)
ASSUME CloseNumbers ==
    /\ {Available, MaxFailures, MaxTicks} \subseteq Nat
    /\ {EntryPrice, Quantity, StopLoss, TakeProfit, StaleLimit} \subseteq Nat \ {0}
    /\ Prices \subseteq Nat \ {0}
ASSUME EntryInside == StopLoss < EntryPrice /\ EntryPrice < TakeProfit

Stale == 0    \* no price, or an old one
None == 0     \* no close

VARIABLES
    positions,   \* database: status and exit price of each position
    trades,      \* database: exit prices of the trades of each position
    portfolio,   \* database: the portfolio row
    ledger,      \* database: that row as the holder of its lock has updated it
    price,       \* Redis: the cached price of the symbol, or Stale
    keys,        \* Redis: the positions with a closing: key
    status,      \* Redis: system:status
    held,        \* process: the rows a monitor's cycle has locked
    todo,        \* process: those it has not looked at yet
    closing,     \* process: the exit price of each close it has flushed, or None
    stale,       \* process: its count of stale prices in a row
    reading,     \* process: the requests that have read a position
    failures,    \* cycles lost so far (bounded by MaxFailures)
    ticks        \* changes of the price so far (bounded by MaxTicks)

database == <<positions, trades, portfolio, ledger>>
redis == <<price, keys, status>>
monitor == <<held, todo, closing, stale>>
bounds == <<failures, ticks>>
vars == <<database, redis, monitor, reading, bounds>>
-----------------------------------------------------------------------------
EntryValue == EntryPrice * Quantity
Pnl(exit) == (exit - EntryPrice) * Quantity

Open(p) == positions[p].status = "OPEN"
OpenSet == {p \in Positions : Open(p)}

TypeOK ==
    /\ positions \in [Positions -> [status : PositionStatuses, exit : Nat]]
    /\ \A p \in Positions : trades[p] \in Seq(Prices)
    /\ {portfolio, ledger} \subseteq Portfolios
    /\ price \in Prices \cup {Stale, EntryPrice}
    /\ keys \subseteq Positions
    /\ status \in {"RUNNING", "HALTED"}
    /\ held \in [Monitors -> SUBSET Positions]
    /\ todo \in [Monitors -> SUBSET Positions]
    /\ closing \in [Monitors -> [Positions -> Prices \cup {None}]]
    /\ stale \in [Monitors -> 0 .. StaleLimit]
    /\ reading \in [Positions -> SUBSET Requests]
    /\ failures \in 0 .. MaxFailures
    /\ ticks \in 0 .. MaxTicks

\* Every position was funded when the pipeline opened it.
Init ==
    /\ positions = [p \in Positions |-> [status |-> "OPEN", exit |-> 0]]
    /\ trades = [p \in Positions |-> <<>>]
    /\ LET cost == Cardinality(Positions) * EntryValue
       IN  portfolio = RecordFill(NewPortfolio(Available + cost), cost)
    /\ ledger = portfolio
    /\ price = EntryPrice
    /\ keys = {}
    /\ status = "RUNNING"
    /\ held = [m \in Monitors |-> {}]
    /\ todo = [m \in Monitors |-> {}]
    /\ closing = [m \in Monitors |-> [p \in Positions |-> None]]
    /\ stale = [m \in Monitors |-> 0]
    /\ reading = [p \in Positions |-> {}]
    /\ failures = 0
    /\ ticks = 0
-----------------------------------------------------------------------------
(* PositionManager.close_position and record_close.                        *)

\* Mutant: the status of the row is not changed.
ClosedStatusKept(target, exit) == [status |-> "OPEN", exit |-> exit]

Closed(target, exit) == [status |-> target, exit |-> exit]

\* Mutant: the value returned is computed from the exit price.
SettledAtExit(row, exit) == RecordClose(row, exit * Quantity, Pnl(exit))

Settled(row, exit) == RecordClose(row, EntryValue, Pnl(exit))

\* Mutant: the stop is missed when the price stands exactly on it.
StopCrossed(current) == current < StopLoss

\* check_stop_loss and check_take_profit, for a LONG.
StopHit(current) == current <= StopLoss
TargetHit(current) == current >= TakeProfit
Triggered(current) == StopHit(current) \/ TargetHit(current)

\* close_position's status for what triggered the close.
TriggeredStatus(current) == IF StopHit(current) THEN "STOPPED_OUT" ELSE "CLOSED"
-----------------------------------------------------------------------------
(* PositionMonitor._check_cycle.                                           *)

Locked(p) == \E m \in Monitors : p \in held[m]

\* Mutant: FOR UPDATE is missing.
SelectableUnlocked(p) == Open(p)

\* get_open_for_update: OPEN, and not locked by anyone.
Selectable(p) == Open(p) /\ ~Locked(p)

BeginCycle(m) ==
    /\ held[m] = {}
    /\ LET rows == {p \in Positions : Selectable(p)}
       IN  /\ rows # {}
           /\ held' = [held EXCEPT ![m] = rows]
           /\ todo' = [todo EXCEPT ![m] = rows]
    /\ UNCHANGED <<database, redis, closing, stale, reading, bounds>>

Checked(m, p) == todo' = [todo EXCEPT ![m] = @ \ {p}]

\* Mutant: the count is not kept from one position to the next.
StaleCountRestarted(m) == 1

\* The symbol's count goes up; a count past the limit acts like the limit.
StaleCount(m) == IF stale[m] = StaleLimit THEN StaleLimit ELSE stale[m] + 1

\* No fresh price: the position is skipped, and trading halts at the limit.
SkipStale(m, p) ==
    /\ p \in todo[m]
    /\ price = Stale
    /\ Checked(m, p)
    /\ stale' = [stale EXCEPT ![m] = StaleCount(m)]
    /\ status' = IF StaleCount(m) = StaleLimit THEN "HALTED" ELSE status
    /\ UNCHANGED <<database, price, keys, held, closing, reading, bounds>>

\* A fresh price between the two limits, or a close that another cycle has
\* already taken the key for.
LeaveOpen(m, p) ==
    /\ p \in todo[m]
    /\ price # Stale
    /\ ~Triggered(price) \/ p \in keys
    /\ Checked(m, p)
    /\ stale' = [stale EXCEPT ![m] = 0]
    /\ UNCHANGED <<database, redis, held, closing, reading, bounds>>

\* The closes that a cycle has flushed and not committed.
Flushed(m) == {p \in Positions : closing[m][p] # None}

\* The portfolio row is locked from a cycle's first close to its commit.
LedgerHeld(m) == \E n \in Monitors \ {m} : Flushed(n) # {}

\* _close_triggered: the key is set, the close and its settlement flushed.
CloseTriggered(m, p) ==
    /\ p \in todo[m]
    /\ price # Stale /\ Triggered(price) /\ p \notin keys
    /\ ~LedgerHeld(m)
    /\ Checked(m, p)
    /\ keys' = keys \cup {p}
    /\ closing' = [closing EXCEPT ![m][p] = price]
    /\ ledger' = Settled(ledger, price)
    /\ stale' = [stale EXCEPT ![m] = 0]
    /\ UNCHANGED <<positions, trades, portfolio, price, status, held, reading, bounds>>

\* Mutant: the cycle's commit misses the settlement.
LedgerUnsettled(m) == portfolio

\* A cycle that closed something holds the row, and commits what it made of it.
LedgerAfter(m) == IF Flushed(m) = {} THEN portfolio ELSE ledger

EndCycle(m) ==
    /\ held' = [held EXCEPT ![m] = {}]
    /\ todo' = [todo EXCEPT ![m] = {}]
    /\ closing' = [closing EXCEPT ![m] = [p \in Positions |-> None]]

\* One commit for all the closes of the cycle.
CommitCycle(m) ==
    /\ held[m] # {} /\ todo[m] = {}
    /\ positions' = [p \in Positions |->
            IF p \in Flushed(m)
            THEN Closed(TriggeredStatus(closing[m][p]), closing[m][p])
            ELSE positions[p]]
    /\ trades' = [p \in Positions |->
            IF p \in Flushed(m) THEN Append(trades[p], closing[m][p]) ELSE trades[p]]
    /\ portfolio' = LedgerAfter(m)
    /\ EndCycle(m)
    /\ UNCHANGED <<ledger, redis, stale, reading, bounds>>

\* An exception, or a restart of the process, which also forgets the count:
\* the transaction is lost and the keys stay until they expire.
LoseCycle(m) ==
    /\ held[m] # {} /\ failures < MaxFailures
    /\ failures' = failures + 1
    /\ ledger' = IF Flushed(m) = {} THEN ledger ELSE portfolio
    /\ EndCycle(m)
    /\ stale' \in {stale, [stale EXCEPT ![m] = 0]}
    /\ UNCHANGED <<positions, trades, portfolio, redis, reading, ticks>>

\* CLOSE_DEDUP_TTL.
KeyExpires(p) ==
    /\ p \in keys
    /\ keys' = keys \ {p}
    /\ UNCHANGED <<database, price, status, monitor, reading, bounds>>
-----------------------------------------------------------------------------
(* The close endpoint, the price feed and the operator.                    *)

\* The row is read, its status and the transition are checked on what was read.
ReadForClose(p, r) ==
    /\ r \notin reading[p]
    /\ positions[p].status \in {"OPEN", "PARTIALLY_CLOSED"}
    /\ "CLOSED" \in PositionTransitions(positions[p].status)
    /\ reading' = [reading EXCEPT ![p] = @ \cup {r}]
    /\ UNCHANGED <<database, redis, monitor, bounds>>

\* The UPDATE waits for a cycle that holds the row, then writes it whatever it
\* has become; the exit price is the caller's or the row's, and the status
\* follows the caller's reason.
ManualClose(p, r) ==
    /\ r \in reading[p]
    /\ ~Locked(p)
    /\ \A m \in Monitors : Flushed(m) = {}
    /\ \E exit \in Prices, result \in {"CLOSED", "STOPPED_OUT"} :
        /\ positions' = [positions EXCEPT ![p] = Closed(result, exit)]
        /\ trades' = [trades EXCEPT ![p] = Append(@, exit)]
        /\ portfolio' = Settled(portfolio, exit)
    /\ ledger' = portfolio'
    /\ reading' = [reading EXCEPT ![p] = @ \ {r}]
    /\ UNCHANGED <<redis, monitor, bounds>>

Tick ==
    /\ ticks < MaxTicks
    /\ price' \in (Prices \cup {Stale}) \ {price}
    /\ ticks' = ticks + 1
    /\ UNCHANGED <<database, keys, status, monitor, reading, failures>>

OperatorResume ==
    /\ "resume" \in OperatorActs
    /\ status' = "RUNNING"
    /\ UNCHANGED <<database, price, keys, monitor, reading, bounds>>
-----------------------------------------------------------------------------
MonitorStep(m) ==
    \/ BeginCycle(m)
    \/ \E p \in Positions :
            SkipStale(m, p) \/ LeaveOpen(m, p) \/ CloseTriggered(m, p)
    \/ CommitCycle(m)

Next ==
    \/ \E m \in Monitors : MonitorStep(m) \/ LoseCycle(m)
    \/ \E p \in Positions : KeyExpires(p)
    \/ \E p \in Positions, r \in Requests :
            ReadForClose(p, r) \/ ManualClose(p, r)
    \/ Tick
    \/ OperatorResume

Spec == Init /\ [][Next]_vars

\* A monitor's loop never ends and each of its awaits is bounded; a key has a
\* TTL.  Prices need not change, requests need not come.
Fairness ==
    /\ \A m \in Monitors : WF_vars(MonitorStep(m))
    /\ \A p \in Positions : WF_vars(KeyExpires(p))

FairSpec == Spec /\ Fairness
-----------------------------------------------------------------------------
(* Safety, with any number of closers of one position.                     *)

\* A trade is recorded exactly when its position is closed: the row, the
\* trade and the settlement are one transaction, on every path.
TradedIffClosed ==
    \A p \in Positions :
        /\ Open(p) <=> trades[p] = <<>>
        /\ ~Open(p) => positions[p].exit = trades[p][Len(trades[p])]

\* The trades explain the balance to the last unit, even those of a position
\* that was closed twice.
Profits(exits) == [i \in DOMAIN exits |-> Pnl(exits[i])]
Booked == [p \in Positions |-> Total(Profits(trades[p]), DOMAIN trades[p])]
LedgerExplained ==
    LET profit == Total(Booked, Positions)
    IN  /\ Balanced(portfolio)
        /\ portfolio.totalPnl = profit
        /\ portfolio.total
              = Available + Cardinality(Positions) * EntryValue + profit

(* Safety of the monitors alone.                                           *)

\* SKIP LOCKED and the commit give a position to one cycle.
ClosedOnce == \A p \in Positions : Len(trades[p]) <= 1

Book == INSTANCE PositionBook WITH
            Value <- EntryValue,
            open <- OpenSet,
            available <- portfolio.available,
            allocated <- portfolio.allocated

\* The monitors close positions as if one at a time, each with its money.
ImplementsBook == Book!Spec

\* A trigger that persists closes the position, although a cycle that fails
\* leaves its key behind.
TriggeredCloses ==
    \A p \in Positions :
        []<>(Open(p)) => []<>(price = Stale \/ (StopLoss < price /\ price < TakeProfit))

\* A price that stays stale while a position is open halts trading.
StaleHalts ==
    (price = Stale /\ OpenSet # {})
        ~> (status = "HALTED" \/ price # Stale \/ OpenSet = {})
=============================================================================
