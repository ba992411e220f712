------------------------ MODULE PositionClose_proofs ------------------------
(***************************************************************************)
(* A position is closed and traded together and the trades explain the     *)
(* balance, whoever closes it; and the monitors alone close it once, as    *)
(* the book promises: for any positions, monitors, requests, prices and    *)
(* lost cycles.                                                            *)
(***************************************************************************)
EXTENDS PositionClose, PortfolioLedger_proofs

Rows == [status : PositionStatuses, exit : Nat]

Typed ==
    /\ positions \in [Positions -> Rows]
    /\ trades \in [Positions -> Seq(Nat)]
    /\ portfolio \in Portfolios /\ ledger \in Portfolios
    /\ price \in Prices \cup {Stale, EntryPrice}
    /\ closing \in [Monitors -> [Positions -> Prices \cup {None}]]
    /\ held \in [Monitors -> SUBSET Positions] /\ todo \in [Monitors -> SUBSET Positions]

\* A cycle works on open positions that no other cycle holds, and flushes the
\* close of a position after having looked at it.
Exclusive ==
    /\ \A m \in Monitors : todo[m] \subseteq held[m]
    /\ \A m \in Monitors : \A p \in held[m] : Open(p)
    /\ \A m, n \in Monitors : m # n => held[m] \cap held[n] = {}
    /\ \A m \in Monitors : Flushed(m) \subseteq held[m] \ todo[m]

IInv == Typed /\ TradedIffClosed /\ Exclusive

USE CloseNumbers
USE DEF database, redis, monitor, bounds

\* A close appends a trade and writes its price to the row.
ClosedAt(p, exit) ==
    /\ \E target \in {"CLOSED", "STOPPED_OUT"} : positions'[p] = Closed(target, exit)
    /\ trades'[p] = Append(trades[p], exit)

Kept(p) == positions'[p] = positions[p] /\ trades'[p] = trades[p]

-----------------------------------------------------------------------------
\* record_close on the row: the value returns with the PnL.
LEMMA SettledRow ==
    ASSUME NEW row \in Portfolios, NEW exit \in Nat
    PROVE  /\ Settled(row, exit) \in Portfolios
           /\ EntryValue \in Nat /\ Pnl(exit) \in Int
           /\ EntryValue + Pnl(exit) = exit * Quantity
           /\ Settled(row, exit).available = row.available + exit * Quantity
           /\ Settled(row, exit).allocated = row.allocated - EntryValue
           /\ Settled(row, exit).totalPnl = row.totalPnl + Pnl(exit)
           /\ Balanced(row) =>
                /\ Balanced(Settled(row, exit))
                /\ Settled(row, exit).total = row.total + Pnl(exit)
  <1>1. EntryPrice \in Nat /\ Quantity \in Nat
    OBVIOUS
  <1>2. EntryValue \in Nat /\ Pnl(exit) \in Int
    BY <1>1 DEF EntryValue, Pnl
  <1>3. EntryValue + Pnl(exit) = exit * Quantity
    <2>1. (exit - EntryPrice) * Quantity = exit * Quantity - EntryPrice * Quantity
      BY <1>1
    <2>2. exit * Quantity \in Int /\ EntryPrice * Quantity \in Int
      BY <1>1
    <2> QED BY <2>1, <2>2 DEF EntryValue, Pnl
  <1>4. /\ Settled(row, exit) \in Portfolios
        /\ Settled(row, exit).available = row.available + EntryValue + Pnl(exit)
        /\ Settled(row, exit).allocated = row.allocated - EntryValue
        /\ Settled(row, exit).totalPnl = row.totalPnl + Pnl(exit)
        /\ Balanced(Settled(row, exit))
        /\ Balanced(row) => Settled(row, exit).total = row.total + Pnl(exit)
    BY <1>2, RecordCloseColumns, RecordCloseSound, DrawdownNeverFalls DEF Settled
  <1>5. row.available + EntryValue + Pnl(exit) = row.available + exit * Quantity
    <2>1. row.available \in Int
      BY DEF Portfolios
    <2> QED BY <1>2, <1>3, <2>1
  <1> QED BY <1>2, <1>3, <1>4, <1>5

LEMMA InitIInv == Init => IInv
  <1> SUFFICES ASSUME Init PROVE IInv
    OBVIOUS
  <1> USE DEF Init
  <1>1. Typed
    <2>1. [status |-> "OPEN", exit |-> 0] \in Rows
      BY DEF Rows, PositionStatuses
    <2>2. /\ positions \in [Positions -> Rows] /\ price \in Prices \cup {Stale, EntryPrice}
          /\ trades \in [Positions -> Seq(Nat)]
      BY <2>1
    <2>3. closing \in [Monitors -> [Positions -> Prices \cup {None}]]
      OBVIOUS
    <2>4. portfolio \in Portfolios
      <3> DEFINE cost == Cardinality(Positions) * EntryValue
      <3>1. Cardinality(Positions) \in Nat /\ EntryValue \in Nat
        BY CloseSets, FS_CardinalityType DEF EntryValue
      <3>2. cost \in Nat /\ Available + cost \in Nat
        <4>1. \A a, b \in Nat : a * b \in Nat /\ Available + a * b \in Nat
          OBVIOUS
        <4> QED BY <3>1, <4>1
      <3>3. portfolio = RecordFill(NewPortfolio(Available + cost), cost)
        OBVIOUS
      <3> HIDE DEF cost
      <3>4. NewPortfolio(Available + cost) \in Portfolios
        BY <3>2, NewPortfolioSound
      <3> QED BY <3>2, <3>3, <3>4, RecordFillSound
    <2> QED BY <2>2, <2>3, <2>4 DEF Typed
  <1>2. TradedIffClosed
    BY DEF TradedIffClosed, Open
  <1>3. Exclusive
    BY DEF Exclusive, Open, Flushed
  <1> QED BY <1>1, <1>2, <1>3 DEF IInv

\* A step that closes some positions and keeps the others.
LEMMA ClosesKeep ==
    ASSUME IInv,
           positions' = [p \in Positions |-> positions'[p]],
           trades' = [p \in Positions |-> trades'[p]],
           \A p \in Positions : Kept(p) \/ \E exit \in Nat : ClosedAt(p, exit)
    PROVE  /\ positions' \in [Positions -> Rows] /\ trades' \in [Positions -> Seq(Nat)]
           /\ TradedIffClosed'
  <1> USE DEF IInv
  <1>1. \A p \in Positions :
          /\ positions'[p] \in Rows /\ trades'[p] \in Seq(Nat)
          /\ Open(p)' <=> trades'[p] = <<>>
          /\ ~Open(p)' => positions'[p].exit = trades'[p][Len(trades'[p])]
    <2> SUFFICES ASSUME NEW p \in Positions
                 PROVE  /\ positions'[p] \in Rows /\ trades'[p] \in Seq(Nat)
                        /\ Open(p)' <=> trades'[p] = <<>>
                        /\ ~Open(p)' => positions'[p].exit = trades'[p][Len(trades'[p])]
      OBVIOUS
    <2>1. CASE Kept(p)
      BY <2>1 DEF Kept, Typed, TradedIffClosed, Open
    <2>2. ASSUME NEW exit \in Nat, ClosedAt(p, exit)
          PROVE  /\ positions'[p] \in Rows /\ trades'[p] \in Seq(Nat)
                 /\ Open(p)' <=> trades'[p] = <<>>
                 /\ ~Open(p)' => positions'[p].exit = trades'[p][Len(trades'[p])]
      <3>1. positions'[p] \in Rows /\ positions'[p].exit = exit /\ ~Open(p)'
        BY <2>2 DEF ClosedAt, Closed, Rows, PositionStatuses, Open
      <3>2. trades[p] \in Seq(Nat)
        BY DEF Typed
      <3>3. /\ trades'[p] \in Seq(Nat) /\ trades'[p] # <<>>
            /\ trades'[p][Len(trades'[p])] = exit
        BY <2>2, <3>2 DEF ClosedAt
      <3> QED BY <3>1, <3>3
    <2> QED BY <2>1, <2>2
  <1>2. positions' \in [Positions -> Rows] /\ trades' \in [Positions -> Seq(Nat)]
    <2>1. [p \in Positions |-> positions'[p]] \in [Positions -> Rows]
      BY <1>1
    <2>2. [p \in Positions |-> trades'[p]] \in [Positions -> Seq(Nat)]
      BY <1>1
    <2> QED BY <2>1, <2>2
  <1> QED BY <1>1, <1>2 DEF TradedIffClosed

\* What the end of a cycle leaves: its rows are free, the others untouched.
LEMMA CycleEnds ==
    ASSUME IInv, NEW m \in Monitors, EndCycle(m)
    PROVE  /\ closing' \in [Monitors -> [Positions -> Prices \cup {None}]]
           /\ held' \in [Monitors -> SUBSET Positions]
           /\ todo' \in [Monitors -> SUBSET Positions]
           /\ held'[m] = {} /\ todo'[m] = {} /\ Flushed(m)' = {}
           /\ \A n \in Monitors \ {m} : /\ held'[n] = held[n] /\ todo'[n] = todo[n]
                                        /\ closing'[n] = closing[n]
  <1>1. /\ held' = [held EXCEPT ![m] = {}] /\ todo' = [todo EXCEPT ![m] = {}]
        /\ closing' = [closing EXCEPT ![m] = [p \in Positions |-> None]]
    BY DEF EndCycle
  <1>2. /\ held' \in [Monitors -> SUBSET Positions] /\ todo' \in [Monitors -> SUBSET Positions]
        /\ held'[m] = {} /\ todo'[m] = {}
        /\ \A n \in Monitors \ {m} : held'[n] = held[n] /\ todo'[n] = todo[n]
    BY <1>1 DEF IInv, Typed
  <1>3. [p \in Positions |-> None] \in [Positions -> Prices \cup {None}]
    OBVIOUS
  <1>4. /\ closing' \in [Monitors -> [Positions -> Prices \cup {None}]]
        /\ closing'[m] = [p \in Positions |-> None]
        /\ \A n \in Monitors \ {m} : closing'[n] = closing[n]
    BY <1>1, <1>3 DEF IInv, Typed
  <1>5. Flushed(m)' = {}
    BY <1>4 DEF Flushed
  <1> QED BY <1>2, <1>4, <1>5

\* What a commit closes.
LEMMA CommitCloses ==
    ASSUME IInv, NEW m \in Monitors, CommitCycle(m), NEW p \in Positions
    PROVE  IF p \in Flushed(m)
           THEN closing[m][p] \in Prices /\ ClosedAt(p, closing[m][p])
           ELSE Kept(p)
  <1>1. CASE p \in Flushed(m)
    <2>1. closing[m][p] \in Prices
      BY <1>1 DEF IInv, Typed, Flushed
    <2>2. TriggeredStatus(closing[m][p]) \in {"CLOSED", "STOPPED_OUT"}
      BY DEF TriggeredStatus
    <2> QED BY <1>1, <2>1, <2>2 DEF CommitCycle, ClosedAt
  <1>2. CASE p \notin Flushed(m)
    BY <1>2 DEF CommitCycle, Kept
  <1> QED BY <1>1, <1>2

\* The end of a cycle keeps every position that it does not commit.
LEMMA EndKeeps ==
    ASSUME IInv, NEW m \in Monitors, CommitCycle(m) \/ LoseCycle(m)
    PROVE  IInv'
  <1>1. EndCycle(m) /\ price' = price
    BY DEF CommitCycle, LoseCycle
  <1>2. \A p \in Positions :
          Kept(p) \/ (p \in Flushed(m) /\ \E exit \in Nat : ClosedAt(p, exit))
    <2>1. Prices \subseteq Nat
      OBVIOUS
    <2> QED BY <2>1, CommitCloses DEF LoseCycle, Kept
  <1>3. /\ positions' = [p \in Positions |-> positions'[p]]
        /\ trades' = [p \in Positions |-> trades'[p]]
    BY DEF CommitCycle, LoseCycle, IInv, Typed
  <1>4. portfolio' \in Portfolios /\ ledger' \in Portfolios
    BY DEF CommitCycle, LoseCycle, LedgerAfter, IInv, Typed
  <1>5. /\ positions' \in [Positions -> Rows] /\ trades' \in [Positions -> Seq(Nat)]
        /\ TradedIffClosed'
    BY <1>2, <1>3, ClosesKeep
  <1>6. Typed'
    BY <1>1, <1>4, <1>5, CycleEnds DEF IInv, Typed
  <1>7. Exclusive'
    <2> USE DEF IInv, Exclusive
    <2>1. /\ held'[m] = {} /\ todo'[m] = {} /\ Flushed(m)' = {}
          /\ \A n \in Monitors \ {m} :
                held'[n] = held[n] /\ todo'[n] = todo[n] /\ Flushed(n)' = Flushed(n)
      BY <1>1, CycleEnds DEF Flushed
    <2>2. \A n \in Monitors : \A p \in held'[n] : Open(p)'
      <3> SUFFICES ASSUME NEW n \in Monitors \ {m}, NEW p \in held[n] PROVE Open(p)'
        BY <2>1
      <3>1. p \in Positions /\ p \notin Flushed(m) /\ Open(p)
        BY DEF Typed
      <3> QED BY <1>2, <3>1 DEF Kept, Open
    <2>3. \A n \in Monitors : todo'[n] \subseteq held'[n]
      BY <2>1
    <2>4. \A n, k \in Monitors : n # k => held'[n] \cap held'[k] = {}
      BY <2>1
    <2>5. \A n \in Monitors : Flushed(n)' \subseteq held'[n] \ todo'[n]
      BY <2>1
    <2> QED BY <2>2, <2>3, <2>4, <2>5
  <1> QED BY <1>5, <1>6, <1>7 DEF IInv

\* A request closes a row that no cycle holds.
LEMMA ManualKeeps ==
    ASSUME IInv, NEW p \in Positions, NEW r \in Requests, ManualClose(p, r)
    PROVE  IInv'
  <1>1. PICK exit \in Prices, result \in {"CLOSED", "STOPPED_OUT"} :
          /\ positions' = [positions EXCEPT ![p] = Closed(result, exit)]
          /\ trades' = [trades EXCEPT ![p] = Append(@, exit)]
          /\ portfolio' = Settled(portfolio, exit)
    BY DEF ManualClose
  <1>2. UNCHANGED <<price, closing, held, todo>> /\ ledger' = portfolio' /\ ~Locked(p)
    BY DEF ManualClose
  <1>3. exit \in Nat /\ ClosedAt(p, exit)
    BY <1>1 DEF ClosedAt, IInv, Typed
  <1>4. \A q \in Positions \ {p} : Kept(q)
    BY <1>1 DEF Kept, IInv, Typed
  <1>5. /\ positions' = [q \in Positions |-> positions'[q]]
        /\ trades' = [q \in Positions |-> trades'[q]]
    BY <1>1 DEF IInv, Typed
  <1>6. /\ positions' \in [Positions -> Rows] /\ trades' \in [Positions -> Seq(Nat)]
        /\ TradedIffClosed'
    BY <1>3, <1>4, <1>5, ClosesKeep
  <1>7. portfolio' \in Portfolios
    BY <1>1, <1>3, SettledRow DEF IInv, Typed
  <1>8. Exclusive'
    <2>1. \A m \in Monitors : \A q \in held[m] : q # p /\ q \in Positions
      BY <1>2 DEF Locked, IInv, Typed
    <2> QED BY <1>2, <1>4, <2>1 DEF IInv, Exclusive, Kept, Open, Flushed
  <1> QED BY <1>2, <1>6, <1>7, <1>8 DEF IInv, Typed

\* A step that leaves the rows and the trades alone.
LEMMA RowsKeep ==
    ASSUME IInv, UNCHANGED <<positions, trades>>, Typed', Exclusive'
    PROVE  IInv'
  BY DEF IInv, TradedIffClosed, Open

\* SKIP LOCKED: a cycle takes rows that nobody holds.
LEMMA BeginKeeps ==
    ASSUME IInv, NEW m \in Monitors, BeginCycle(m)
    PROVE  IInv'
  <1> USE DEF IInv, Exclusive
  <1> DEFINE rows == {p \in Positions : Selectable(p)}
  <1>1. /\ held' = [held EXCEPT ![m] = rows] /\ todo' = [todo EXCEPT ![m] = rows]
        /\ held[m] = {} /\ UNCHANGED <<database, price, closing>>
    BY DEF BeginCycle
  <1>2. \A p \in rows : Open(p) /\ \A n \in Monitors : p \notin held[n]
    BY DEF Selectable, Locked
  <1>3. held' \in [Monitors -> SUBSET Positions] /\ todo' \in [Monitors -> SUBSET Positions]
    BY <1>1 DEF Typed
  <1>4. \A n \in Monitors : held'[n] = IF n = m THEN rows ELSE held[n]
    BY <1>1 DEF Typed
  <1>5. \A n \in Monitors : todo'[n] = IF n = m THEN rows ELSE todo[n]
    BY <1>1 DEF Typed
  <1> HIDE DEF rows
  <1>6. \A n \in Monitors : todo'[n] \subseteq held'[n]
    BY <1>4, <1>5
  <1>7. \A n \in Monitors : \A p \in held'[n] : Open(p)'
    BY <1>1, <1>2, <1>4 DEF Open
  <1>8. \A n, k \in Monitors : n # k => held'[n] \cap held'[k] = {}
    BY <1>2, <1>4
  <1>9. \A n \in Monitors : Flushed(n)' \subseteq held'[n] \ todo'[n]
    BY <1>1, <1>4, <1>5 DEF Flushed
  <1>10. Typed'
    BY <1>1, <1>3 DEF Typed
  <1>11. Exclusive'
    BY <1>6, <1>7, <1>8, <1>9
  <1> QED BY <1>1, <1>10, <1>11, RowsKeep

\* A close is flushed for a position that the cycle holds and had not closed.
LEMMA FlushAdds ==
    ASSUME IInv, NEW m \in Monitors, NEW p \in Positions, CloseTriggered(m, p)
    PROVE  /\ price \in Prices /\ price \in Nat
           /\ p \in held[m] /\ p \notin Flushed(m)
           /\ closing' \in [Monitors -> [Positions -> Prices \cup {None}]]
           /\ closing'[m][p] = price
           /\ \A q \in Positions \ {p} : closing'[m][q] = closing[m][q]
           /\ \A n \in Monitors \ {m} : closing'[n] = closing[n] /\ Flushed(n) = {}
           /\ Flushed(m)' = Flushed(m) \cup {p}
  <1>1. price # EntryPrice
    BY EntryInside DEF CloseTriggered, Triggered, StopHit, TargetHit
  <1>2. price \in Prices
    BY <1>1 DEF CloseTriggered, IInv, Typed
  <1>3. p \in held[m] /\ p \notin Flushed(m)
    BY DEF CloseTriggered, IInv, Exclusive
  <1>4. closing' = [closing EXCEPT ![m][p] = price] /\ ~LedgerHeld(m)
    BY DEF CloseTriggered
  <1>5. /\ closing' \in [Monitors -> [Positions -> Prices \cup {None}]]
        /\ closing'[m][p] = price
        /\ \A q \in Positions \ {p} : closing'[m][q] = closing[m][q]
        /\ \A n \in Monitors \ {m} : closing'[n] = closing[n] /\ Flushed(n) = {}
    BY <1>2, <1>4 DEF IInv, Typed, LedgerHeld
  <1>6. price # None /\ price \in Nat
    BY <1>2 DEF None
  <1>7. Flushed(m)' = Flushed(m) \cup {p}
    BY <1>5, <1>6 DEF Flushed
  <1> QED BY <1>2, <1>3, <1>5, <1>6, <1>7

\* A position is looked at once in a cycle.
LEMMA CheckKeeps ==
    ASSUME IInv, NEW m \in Monitors, NEW p \in Positions,
           SkipStale(m, p) \/ LeaveOpen(m, p) \/ CloseTriggered(m, p)
    PROVE  IInv'
  <1> USE DEF IInv, Exclusive
  <1>1. /\ p \in todo[m] /\ todo' = [todo EXCEPT ![m] = @ \ {p}]
        /\ UNCHANGED <<positions, trades, portfolio, held, price>>
    BY DEF SkipStale, LeaveOpen, CloseTriggered, Checked
  <1>2. /\ todo' \in [Monitors -> SUBSET Positions]
        /\ \A n \in Monitors : todo'[n] = IF n = m THEN todo[m] \ {p} ELSE todo[n]
    BY <1>1 DEF Typed
  <1>3. /\ closing' \in [Monitors -> [Positions -> Prices \cup {None}]]
        /\ ledger' \in Portfolios
        /\ \A n \in Monitors :
              Flushed(n)' = Flushed(n) \/ (n = m /\ Flushed(n)' = Flushed(n) \cup {p})
    <2>1. CASE SkipStale(m, p) \/ LeaveOpen(m, p)
      BY <2>1 DEF SkipStale, LeaveOpen, Typed, Flushed
    <2>2. CASE CloseTriggered(m, p)
      <3>1. ledger' = Settled(ledger, price)
        BY <2>2 DEF CloseTriggered
      <3>2. \A n \in Monitors \ {m} : Flushed(n)' = Flushed(n)
        BY <2>2, FlushAdds DEF Flushed
      <3>3. /\ price \in Nat /\ Flushed(m)' = Flushed(m) \cup {p}
            /\ closing' \in [Monitors -> [Positions -> Prices \cup {None}]]
        BY <2>2, FlushAdds
      <3>4. ledger' \in Portfolios
        BY <3>1, <3>3, SettledRow DEF Typed
      <3> QED BY <3>2, <3>3, <3>4
    <2> QED BY <2>1, <2>2
  <1>4. Typed'
    BY <1>1, <1>2, <1>3 DEF Typed
  <1>5. Exclusive'
    <2>1. \A n \in Monitors : Flushed(n)' \subseteq held'[n] \ todo'[n]
      BY <1>1, <1>2, <1>3
    <2> QED BY <1>1, <1>2, <2>1 DEF Open
  <1> QED BY <1>1, <1>4, <1>5, RowsKeep

\* Everything else leaves the rows, the money and the cycles alone.
LEMMA RestChanges ==
    ASSUME \/ \E p \in Positions : KeyExpires(p)
           \/ \E p \in Positions, r \in Requests : ReadForClose(p, r)
           \/ Tick \/ OperatorResume \/ UNCHANGED vars
    PROVE  /\ UNCHANGED <<database, held, todo, closing>>
           /\ price' \in Prices \cup {Stale} \/ price' = price
  BY DEF KeyExpires, ReadForClose, Tick, OperatorResume, vars

LEMMA SpecIInv == Spec => []IInv
  <1>1. ASSUME IInv, [Next]_vars
        PROVE  IInv'
    <2>1. CASE \E m \in Monitors : CommitCycle(m) \/ LoseCycle(m)
      BY <1>1, <2>1, EndKeeps
    <2>2. CASE \E p \in Positions, r \in Requests : ManualClose(p, r)
      BY <1>1, <2>2, ManualKeeps
    <2>3. CASE \E m \in Monitors : BeginCycle(m)
      BY <1>1, <2>3, BeginKeeps
    <2>4. CASE \E m \in Monitors, p \in Positions :
                    SkipStale(m, p) \/ LeaveOpen(m, p) \/ CloseTriggered(m, p)
      BY <1>1, <2>4, CheckKeeps
    <2>5. CASE \/ \E p \in Positions : KeyExpires(p)
               \/ \E p \in Positions, r \in Requests : ReadForClose(p, r)
               \/ Tick \/ OperatorResume \/ UNCHANGED vars
      <3>1. /\ UNCHANGED <<database, held, todo, closing>>
            /\ price' \in Prices \cup {Stale, EntryPrice}
        BY <1>1, <2>5, RestChanges DEF IInv, Typed
      <3> QED BY <1>1, <3>1 DEF IInv, Typed, TradedIffClosed, Exclusive, Open, Flushed
    <2> QED BY <1>1, <2>1, <2>2, <2>3, <2>4, <2>5 DEF Next, MonitorStep
  <1> QED BY <1>1, InitIInv, PTL DEF Spec

-----------------------------------------------------------------------------
\* What the invariant above leaves out of the type: what only counts, or is
\* only looked at by one process.
RestTyped ==
    /\ \A p \in Positions : trades[p] \in Seq(Prices)
    /\ keys \subseteq Positions
    /\ status \in {"RUNNING", "HALTED"}
    /\ stale \in [Monitors -> 0 .. StaleLimit]
    /\ reading \in [Positions -> SUBSET Requests]
    /\ failures \in 0 .. MaxFailures
    /\ ticks \in 0 .. MaxTicks

\* The count of stale prices stops at its limit.
LEMMA StaleCounted ==
    ASSUME RestTyped, NEW m \in Monitors
    PROVE  StaleCount(m) \in 0 .. StaleLimit
  BY DEF RestTyped, StaleCount

LEMMA RestStep ==
    ASSUME IInv, RestTyped, [Next]_vars
    PROVE  RestTyped'
  <1> USE DEF RestTyped
  <1>1. ASSUME NEW m \in Monitors, BeginCycle(m) PROVE RestTyped'
    BY <1>1 DEF BeginCycle, redis
  <1>2. ASSUME NEW m \in Monitors, NEW p \in Positions, SkipStale(m, p) PROVE RestTyped'
    BY <1>2, StaleCounted DEF SkipStale
  <1>3. ASSUME NEW m \in Monitors, NEW p \in Positions, LeaveOpen(m, p) PROVE RestTyped'
    <2>1. 0 \in 0 .. StaleLimit
      OBVIOUS
    <2> QED BY <1>3, <2>1 DEF LeaveOpen, redis
  <1>4. ASSUME NEW m \in Monitors, NEW p \in Positions, CloseTriggered(m, p)
        PROVE RestTyped'
    <2>1. 0 \in 0 .. StaleLimit
      OBVIOUS
    <2> QED BY <1>4, <2>1 DEF CloseTriggered
  <1>5. ASSUME NEW m \in Monitors, CommitCycle(m) PROVE RestTyped'
    <2>1. \A p \in Positions : p \in Flushed(m) => closing[m][p] \in Prices
      BY DEF IInv, Typed, Flushed
    <2>2. \A p \in Positions : trades'[p] \in Seq(Prices)
      <3> SUFFICES ASSUME NEW p \in Positions PROVE trades'[p] \in Seq(Prices)
        OBVIOUS
      <3>1. CASE p \in Flushed(m)
        <4>1. trades'[p] = Append(trades[p], closing[m][p])
          BY <1>5, <3>1 DEF CommitCycle
        <4> QED BY <2>1, <3>1, <4>1
      <3>2. CASE p \notin Flushed(m)
        BY <1>5, <3>2 DEF CommitCycle
      <3> QED BY <3>1, <3>2
    <2> QED BY <1>5, <2>2 DEF CommitCycle, redis
  <1>6. ASSUME NEW m \in Monitors, LoseCycle(m) PROVE RestTyped'
    <2>1. 0 \in 0 .. StaleLimit /\ failures' \in 0 .. MaxFailures
      BY <1>6 DEF LoseCycle
    <2> QED BY <1>6, <2>1 DEF LoseCycle, redis
  <1>7. ASSUME NEW p \in Positions, KeyExpires(p) PROVE RestTyped'
    BY <1>7 DEF KeyExpires
  <1>8. ASSUME NEW p \in Positions, NEW r \in Requests, ReadForClose(p, r)
        PROVE RestTyped'
    BY <1>8 DEF ReadForClose, redis
  <1>9. ASSUME NEW p \in Positions, NEW r \in Requests, ManualClose(p, r)
        PROVE RestTyped'
    <2>1. PICK exit \in Prices : trades' = [trades EXCEPT ![p] = Append(@, exit)]
      BY <1>9 DEF ManualClose
    <2>2. \A q \in Positions : trades'[q] \in Seq(Prices)
      BY <2>1 DEF IInv, Typed
    <2> QED BY <1>9, <2>2 DEF ManualClose, redis
  <1>10. CASE Tick
    <2>1. ticks' \in 0 .. MaxTicks
      BY <1>10 DEF Tick
    <2> QED BY <1>10, <2>1 DEF Tick
  <1>11. CASE OperatorResume
    BY <1>11 DEF OperatorResume
  <1>12. CASE UNCHANGED vars
    BY <1>12 DEF vars, redis
  <1> QED BY <1>1, <1>2, <1>3, <1>4, <1>5, <1>6, <1>7, <1>8, <1>9, <1>10, <1>11, <1>12
          DEF Next, MonitorStep

\* Rows, trades, keys, cycles and counts keep their types; in particular a
\* trade is made at a price that somebody gave, and never at a missing one.
THEOREM TypeCorrect == Spec => []TypeOK
  <1>1. Init => RestTyped
    BY DEF Init, RestTyped
  <1>2. IInv /\ RestTyped /\ [Next]_vars => RestTyped'
    BY RestStep
  <1>3. IInv /\ RestTyped => TypeOK
    BY DEF IInv, Typed, Rows, RestTyped, TypeOK
  <1> QED BY <1>1, <1>2, <1>3, SpecIInv, PTL DEF Spec

-----------------------------------------------------------------------------
\* PositionMonitor and the close endpoint: a trade exists exactly for a closed
\* position, at the price of its row, whatever overlaps.
THEOREM TradedIffClosedHolds == Spec => []TradedIffClosed
  <1>1. IInv => TradedIffClosed
    BY DEF IInv
  <1> QED BY <1>1, SpecIInv, PTL

\* get_open_for_update: without requests to the endpoint a position is closed
\* once, by however many monitors and after however many lost cycles.
THEOREM ClosedOnceHolds ==
    ASSUME Requests = {}
    PROVE  Spec => []ClosedOnce
  <1>1. Init => ClosedOnce
    BY DEF Init, ClosedOnce
  <1>2. ASSUME IInv, ClosedOnce, [Next]_vars
        PROVE  ClosedOnce'
    <2>1. CASE UNCHANGED trades
      BY <1>2, <2>1 DEF ClosedOnce
    <2>2. ASSUME NEW m \in Monitors, CommitCycle(m) PROVE ClosedOnce'
      <3> SUFFICES ASSUME NEW p \in Positions PROVE Len(trades'[p]) <= 1
        BY DEF ClosedOnce
      <3>1. CASE p \notin Flushed(m)
        BY <1>2, <2>2, <3>1, CommitCloses DEF Kept, ClosedOnce
      <3>2. CASE p \in Flushed(m)
        <4>1. Open(p)
          BY <1>2, <3>2 DEF IInv, Exclusive
        <4>2. trades[p] = <<>>
          BY <1>2, <4>1 DEF IInv, TradedIffClosed
        <4>3. trades'[p] = Append(trades[p], closing[m][p])
          BY <1>2, <2>2, <3>2, CommitCloses DEF ClosedAt
        <4> QED BY <4>2, <4>3
      <3> QED BY <3>1, <3>2
    <2>3. CASE ~ \E m \in Monitors : CommitCycle(m)
      <3>1. UNCHANGED trades
        BY <1>2, <2>3 DEF Next, MonitorStep, BeginCycle, SkipStale, LeaveOpen, CloseTriggered,
           LoseCycle, KeyExpires, Tick, OperatorResume, vars
      <3> QED BY <2>1, <3>1
    <2> QED BY <2>2, <2>3
  <1> QED BY <1>1, <1>2, SpecIInv, PTL DEF Spec

-----------------------------------------------------------------------------
\* The money.  What a cycle's closes will add to the trades, and return to the
\* balance.
Gains(m) == [p \in Positions |-> IF p \in Flushed(m) THEN Pnl(closing[m][p]) ELSE 0]
Proceeds(m) == [p \in Positions |-> closing[m][p] * Quantity]

\* The row that a cycle with flushed closes has made.
RowOf(m) ==
    /\ ledger.totalPnl = portfolio.totalPnl + Total(Gains(m), Positions)
    /\ ledger.available = portfolio.available + Total(Proceeds(m), Flushed(m))
    /\ ledger.allocated = portfolio.allocated - Cardinality(Flushed(m)) * EntryValue

\* A row whose balance the PnL explains.
Invested == Available + Cardinality(Positions) * EntryValue
Explained(row) == Balanced(row) /\ row.total = Invested + row.totalPnl

LedgerInv ==
    /\ Explained(portfolio) /\ Explained(ledger)
    /\ portfolio.totalPnl = Total(Booked, Positions)
    /\ \A m, n \in Monitors : Flushed(m) # {} /\ Flushed(n) # {} => m = n
    /\ (\A m \in Monitors : Flushed(m) = {}) => ledger = portfolio
    /\ \A m \in Monitors : Flushed(m) # {} => RowOf(m)

LEMMA InvestedType == Invested \in Int /\ EntryValue \in Nat
  <1>1. Cardinality(Positions) \in Nat /\ EntryValue \in Nat
    BY CloseSets, FS_CardinalityType DEF EntryValue
  <1>2. \A a, b \in Nat : Available + a * b \in Int
    OBVIOUS
  <1> QED BY <1>1, <1>2 DEF Invested

LEMMA SettledExplained ==
    ASSUME NEW row \in Portfolios, NEW exit \in Nat, Explained(row)
    PROVE  Explained(Settled(row, exit))
  <1>1. /\ Pnl(exit) \in Int /\ row.total \in Int /\ row.totalPnl \in Int /\ Invested \in Int
    BY SettledRow, InvestedType DEF Portfolios
  <1>2. /\ Balanced(Settled(row, exit)) /\ Settled(row, exit).total = row.total + Pnl(exit)
        /\ Settled(row, exit).totalPnl = row.totalPnl + Pnl(exit)
        /\ row.total = Invested + row.totalPnl
    BY SettledRow DEF Explained
  <1>3. row.total + Pnl(exit) = Invested + (row.totalPnl + Pnl(exit))
    BY <1>1, <1>2
  <1> QED BY <1>2, <1>3 DEF Explained

\* The trades of a position, and one more.
LEMMA ProfitsType ==
    ASSUME NEW exits \in Seq(Nat)
    PROVE  /\ IsFiniteSet(DOMAIN exits)
           /\ \A i \in DOMAIN exits : Profits(exits)[i] \in Int
           /\ Total(Profits(exits), DOMAIN exits) \in Int
  <1>1. DOMAIN exits = 1 .. Len(exits) /\ Len(exits) \in Nat
    OBVIOUS
  <1>2. IsFiniteSet(DOMAIN exits)
    BY <1>1, FS_Interval
  <1>3. \A i \in DOMAIN exits : Profits(exits)[i] \in Int
    <2> SUFFICES ASSUME NEW i \in DOMAIN exits PROVE Pnl(exits[i]) \in Int
      BY DEF Profits
    <2>1. exits[i] \in Nat
      BY <1>1
    <2> QED BY <2>1 DEF Pnl
  <1> QED BY <1>2, <1>3, SumType

LEMMA ProfitsAppend ==
    ASSUME NEW exits \in Seq(Nat), NEW exit \in Nat
    PROVE  Total(Profits(Append(exits, exit)), DOMAIN Append(exits, exit))
            = Total(Profits(exits), DOMAIN exits) + Pnl(exit)
  <1> DEFINE longer == Append(exits, exit)
             n == Len(exits)
  <1>1. /\ n \in Nat /\ DOMAIN exits = 1 .. n /\ DOMAIN longer = 1 .. n + 1
        /\ longer \in Seq(Nat) /\ longer[n + 1] = exit
        /\ \A i \in 1 .. n : longer[i] = exits[i]
    OBVIOUS
  <1> HIDE DEF longer, n
  <1>2. DOMAIN longer = DOMAIN exits \cup {n + 1} /\ n + 1 \notin DOMAIN exits
    BY <1>1
  <1>3. /\ IsFiniteSet(DOMAIN exits)
        /\ \A i \in DOMAIN exits : Profits(exits)[i] \in Int
        /\ \A i \in DOMAIN exits \cup {n + 1} : Profits(longer)[i] \in Int
    BY <1>1, <1>2, ProfitsType
  <1>4. /\ Profits(longer)[n + 1] = Pnl(exit)
        /\ \A i \in DOMAIN exits : Profits(longer)[i] = Profits(exits)[i]
    BY <1>1, <1>2 DEF Profits
  <1>5. Total(Profits(longer), DOMAIN exits \cup {n + 1})
            = Total(Profits(longer), DOMAIN exits) + Profits(longer)[n + 1]
    BY <1>2, <1>3, SumInsert
  <1>6. Total(Profits(longer), DOMAIN exits) = Total(Profits(exits), DOMAIN exits)
    BY <1>3, <1>4, SumSame
  <1> QED BY <1>2, <1>4, <1>5, <1>6 DEF longer

LEMMA BookedType ==
    ASSUME IInv
    PROVE  /\ IsFiniteSet(Positions)
           /\ \A p \in Positions : Booked[p] \in Int
  BY CloseSets, ProfitsType DEF IInv, Typed, Booked

\* What a step does to the profit that the trades of a position show.
LEMMA BookedStep ==
    ASSUME IInv, IInv', NEW p \in Positions
    PROVE  /\ Kept(p) => Booked'[p] = Booked[p]
           /\ \A exit \in Nat : ClosedAt(p, exit) => Booked'[p] = Booked[p] + Pnl(exit)
  <1>1. /\ Booked'[p] = Total(Profits(trades'[p]), DOMAIN trades'[p])
        /\ Booked[p] = Total(Profits(trades[p]), DOMAIN trades[p])
        /\ trades[p] \in Seq(Nat)
    BY DEF Booked, Profits, IInv, Typed
  <1>2. ASSUME NEW exit \in Nat, ClosedAt(p, exit)
        PROVE  Booked'[p] = Booked[p] + Pnl(exit)
    <2>1. trades'[p] = Append(trades[p], exit)
      BY <1>2 DEF ClosedAt
    <2> QED BY <1>1, <2>1, ProfitsAppend
  <1> QED BY <1>1, <1>2 DEF Kept

\* What a cycle's closes come to.
LEMMA GainsType ==
    ASSUME IInv, NEW m \in Monitors
    PROVE  /\ IsFiniteSet(Positions) /\ IsFiniteSet(Flushed(m))
           /\ \A p \in Positions : Gains(m)[p] \in Int /\ Proceeds(m)[p] \in Nat
           /\ Total(Gains(m), Positions) \in Int
           /\ Total(Proceeds(m), Flushed(m)) \in Int
           /\ Cardinality(Flushed(m)) \in Nat
  <1>1. IsFiniteSet(Positions) /\ Flushed(m) \subseteq Positions
    BY CloseSets DEF Flushed
  <1>2. IsFiniteSet(Flushed(m)) /\ Cardinality(Flushed(m)) \in Nat
    BY <1>1, FS_Subset, FS_CardinalityType
  <1>3. \A p \in Positions : closing[m][p] \in Nat
    <2>1. Prices \cup {None} \subseteq Nat
      BY DEF None
    <2> QED BY <2>1 DEF IInv, Typed
  <1>4. \A p \in Positions : Gains(m)[p] \in Int
    <2> SUFFICES ASSUME NEW p \in Positions
                 PROVE  (IF p \in Flushed(m) THEN Pnl(closing[m][p]) ELSE 0) \in Int
      BY DEF Gains
    <2> QED BY <1>3 DEF Pnl
  <1>5. \A p \in Positions : Proceeds(m)[p] \in Nat
    <2> SUFFICES ASSUME NEW p \in Positions PROVE closing[m][p] * Quantity \in Nat
      BY DEF Proceeds
    <2> QED BY <1>3
  <1>6. \A p \in Flushed(m) : Proceeds(m)[p] \in Int
    BY <1>1, <1>5
  <1> QED BY <1>1, <1>2, <1>4, <1>5, <1>6, SumType

\* A cycle that nobody keeps from the row sees what it made of it, if anything.
LEMMA RowFree ==
    ASSUME IInv, LedgerInv, NEW m \in Monitors,
           \A n \in Monitors \ {m} : Flushed(n) = {}
    PROVE  RowOf(m)
  <1>1. CASE Flushed(m) # {}
    BY <1>1 DEF LedgerInv
  <1>2. CASE Flushed(m) = {}
    <2>1. ledger = portfolio
      BY <1>2 DEF LedgerInv
    <2>2. Total(Gains(m), Positions) = 0
      <3>1. \A p \in Positions : Gains(m)[p] = 0
        BY <1>2 DEF Gains
      <3> QED BY <3>1, CloseSets, SumZero
    <2>3. Total(Proceeds(m), Flushed(m)) = 0 /\ Cardinality(Flushed(m)) = 0
      BY <1>2, SumEmpty, FS_EmptySet
    <2>4. /\ portfolio.totalPnl \in Int /\ portfolio.available \in Int
          /\ portfolio.allocated \in Int
      BY DEF IInv, Typed, Portfolios
    <2>5. EntryValue \in Nat
      BY InvestedType
    <2>6. portfolio.allocated = portfolio.allocated - 0 * EntryValue
      BY <2>4, <2>5
    <2> QED BY <2>1, <2>2, <2>3, <2>4, <2>6 DEF RowOf
  <1> QED BY <1>1, <1>2

LEMMA InitLedger == Init => LedgerInv
  <1> SUFFICES ASSUME Init PROVE LedgerInv
    OBVIOUS
  <1> DEFINE cost == Cardinality(Positions) * EntryValue
             fresh == NewPortfolio(Available + cost)
  <1>1. \A m \in Monitors : Flushed(m) = {}
    BY DEF Init, Flushed
  <1>2. cost \in Nat /\ Available + cost \in Nat /\ Invested = Available + cost
    <2>1. Cardinality(Positions) \in Nat /\ EntryValue \in Nat
      BY CloseSets, FS_CardinalityType, InvestedType
    <2>2. \A a, b \in Nat : a * b \in Nat /\ Available + a * b \in Nat
      OBVIOUS
    <2> QED BY <2>1, <2>2 DEF Invested
  <1>3. portfolio = RecordFill(fresh, cost) /\ ledger = portfolio
    BY DEF Init
  <1> HIDE DEF cost
  <1>4. fresh \in Portfolios /\ Balanced(fresh) /\ fresh.total = Invested
    BY <1>2, NewPortfolioSound
  <1>5. fresh.totalPnl = 0
    BY DEF NewPortfolio
  <1> HIDE DEF fresh
  <1>6. Balanced(portfolio) /\ portfolio.total = Invested
    <2>1. cost \in Int
      BY <1>2
    <2>2. /\ RecordFill(fresh, cost).total = fresh.total
          /\ Balanced(RecordFill(fresh, cost))
      BY <1>4, <2>1, RecordFillSound
    <2> QED BY <1>3, <1>4, <2>2
  <1>7. portfolio.totalPnl = 0
    BY <1>3, <1>4, <1>5 DEF RecordFill, Portfolios
  <1>8. Total(Booked, Positions) = 0
    <2>1. \A p \in Positions : Booked[p] = Total(Profits(<<>>), {})
      BY DEF Init, Booked
    <2>2. \A p \in Positions : Booked[p] = 0
      BY <2>1, SumEmpty
    <2> QED BY <2>2, CloseSets, SumZero
  <1>9. Explained(portfolio)
    BY <1>2, <1>6, <1>7 DEF Explained
  <1> QED BY <1>1, <1>3, <1>7, <1>8, <1>9 DEF LedgerInv

\* A close is flushed.
LEMMA FlushLedger ==
    ASSUME IInv, LedgerInv, NEW m \in Monitors, NEW p \in Positions, CloseTriggered(m, p)
    PROVE  RowOf(m)' /\ Explained(ledger')
  <1>1. /\ price \in Nat /\ p \notin Flushed(m)
        /\ closing'[m][p] = price
        /\ \A q \in Positions \ {p} : closing'[m][q] = closing[m][q]
        /\ \A n \in Monitors \ {m} : Flushed(n) = {}
        /\ Flushed(m)' = Flushed(m) \cup {p}
    BY FlushAdds
  <1>2. ledger' = Settled(ledger, price) /\ portfolio' = portfolio
    BY DEF CloseTriggered
  <1>3. RowOf(m)
    BY <1>1, RowFree
  <1>4. /\ IsFiniteSet(Positions) /\ IsFiniteSet(Flushed(m))
        /\ \A q \in Positions : Gains(m)[q] \in Int /\ Proceeds(m)[q] \in Nat
        /\ Total(Gains(m), Positions) \in Int
        /\ Total(Proceeds(m), Flushed(m)) \in Int
        /\ Cardinality(Flushed(m)) \in Nat
    BY GainsType
  <1>5. /\ Pnl(price) \in Int /\ EntryValue \in Nat /\ price * Quantity \in Int
        /\ ledger'.available = ledger.available + price * Quantity
        /\ ledger'.allocated = ledger.allocated - EntryValue
        /\ ledger'.totalPnl = ledger.totalPnl + Pnl(price)
    <2>1. ledger \in Portfolios
      BY DEF IInv, Typed
    <2>2. /\ Pnl(price) \in Int /\ EntryValue \in Nat
          /\ Settled(ledger, price).available = ledger.available + price * Quantity
          /\ Settled(ledger, price).allocated = ledger.allocated - EntryValue
          /\ Settled(ledger, price).totalPnl = ledger.totalPnl + Pnl(price)
      BY <1>1, <2>1, SettledRow
    <2>3. price * Quantity \in Int
      BY <1>1
    <2> QED BY <1>2, <2>2, <2>3
  <1>6. Total(Gains(m)', Positions) = Total(Gains(m), Positions) + Pnl(price)
    <2>1. /\ Gains(m)'[p] = Pnl(price) /\ Gains(m)[p] = 0
          /\ \A q \in Positions : q # p => Gains(m)'[q] = Gains(m)[q]
      BY <1>1 DEF Gains
    <2>2. \A q \in Positions : Gains(m)'[q] \in Int
      BY <1>4, <1>5, <2>1
    <2>3. Total(Gains(m)', Positions)
            = Total(Gains(m), Positions) - Gains(m)[p] + Gains(m)'[p]
      BY <1>4, <2>1, <2>2, SumChange
    <2> QED BY <1>4, <1>5, <2>1, <2>3
  <1>7. Total(Proceeds(m)', Flushed(m)')
            = Total(Proceeds(m), Flushed(m)) + price * Quantity
    <2>1. /\ Proceeds(m)'[p] = price * Quantity
          /\ \A q \in Positions : q # p => Proceeds(m)'[q] = Proceeds(m)[q]
      BY <1>1 DEF Proceeds
    <2>2. \A q \in Flushed(m) : q # p /\ q \in Positions
      BY <1>1 DEF Flushed
    <2>3. \A q \in Flushed(m) :
            Proceeds(m)[q] \in Int /\ Proceeds(m)'[q] = Proceeds(m)[q]
      BY <1>4, <2>1, <2>2
    <2>4. \A q \in Flushed(m) \cup {p} : Proceeds(m)'[q] \in Int
      BY <1>5, <2>1, <2>3
    <2>5. Total(Proceeds(m)', Flushed(m)) = Total(Proceeds(m), Flushed(m))
      BY <1>4, <2>3, SumSame
    <2>6. Total(Proceeds(m)', Flushed(m) \cup {p})
            = Total(Proceeds(m)', Flushed(m)) + Proceeds(m)'[p]
      BY <1>1, <1>4, <2>4, SumInsert
    <2> QED BY <1>1, <2>1, <2>5, <2>6
  <1>8. Cardinality(Flushed(m)') = Cardinality(Flushed(m)) + 1
    BY <1>1, <1>4, FS_AddElement
  <1>9. /\ ledger.totalPnl = portfolio.totalPnl + Total(Gains(m), Positions)
        /\ ledger.available = portfolio.available + Total(Proceeds(m), Flushed(m))
        /\ ledger.allocated = portfolio.allocated - Cardinality(Flushed(m)) * EntryValue
    BY <1>3 DEF RowOf
  <1>10. /\ portfolio.totalPnl \in Int /\ portfolio.available \in Int
         /\ portfolio.allocated \in Int
    BY DEF IInv, Typed, Portfolios
  <1>11. ledger'.totalPnl = portfolio.totalPnl + Total(Gains(m)', Positions)
    BY <1>4, <1>5, <1>6, <1>9, <1>10
  <1>12. ledger'.available = portfolio.available + Total(Proceeds(m)', Flushed(m)')
    BY <1>4, <1>5, <1>7, <1>9, <1>10
  <1>13. ledger'.allocated = portfolio.allocated - Cardinality(Flushed(m)') * EntryValue
    <2>1. \A n, v \in Nat : (n + 1) * v = n * v + v /\ n * v \in Nat
      OBVIOUS
    <2> QED BY <1>4, <1>5, <1>8, <1>9, <1>10, <2>1
  <1>14. Explained(ledger')
    BY <1>1, <1>2, SettledExplained DEF LedgerInv, IInv, Typed
  <1> QED BY <1>2, <1>11, <1>12, <1>13, <1>14 DEF RowOf

\* A cycle ends.
LEMMA EndLedger ==
    ASSUME IInv, IInv', LedgerInv, NEW m \in Monitors, CommitCycle(m) \/ LoseCycle(m)
    PROVE  LedgerInv'
  <1>1. /\ Flushed(m)' = {}
        /\ \A n \in Monitors \ {m} : closing'[n] = closing[n] /\ Flushed(n)' = Flushed(n)
    BY CycleEnds DEF CommitCycle, LoseCycle, Flushed
  <1>2. CASE Flushed(m) = {}
    <2>1. portfolio' = portfolio /\ ledger' = ledger
      BY <1>2 DEF CommitCycle, LoseCycle, LedgerAfter
    <2>2. \A p \in Positions : Kept(p)
      BY <1>2, CommitCloses DEF LoseCycle, Kept
    <2>3. Total(Booked', Positions) = Total(Booked, Positions)
      BY <2>2, BookedStep, BookedType, SumSame
    <2>4. \A n \in Monitors \ {m} : RowOf(n) => RowOf(n)'
      BY <1>1, <2>1 DEF RowOf, Gains, Proceeds
    <2>5. \A n \in Monitors : Flushed(n)' = Flushed(n)
      BY <1>1, <1>2
    <2> QED BY <1>2, <2>1, <2>3, <2>4, <2>5 DEF LedgerInv, Explained, Balanced
  <1>3. CASE Flushed(m) # {}
    <2>1. \A n \in Monitors : Flushed(n)' = {}
      BY <1>1, <1>3 DEF LedgerInv
    <2>2. CASE LoseCycle(m)
      <3>1. portfolio' = portfolio /\ ledger' = portfolio /\ UNCHANGED <<positions, trades>>
        BY <1>3, <2>2 DEF LoseCycle
      <3>2. Booked' = Booked
        BY <3>1 DEF Booked
      <3> QED BY <2>1, <3>1, <3>2 DEF LedgerInv, Explained, Balanced
    <2>3. CASE CommitCycle(m)
      <3>1. portfolio' = ledger /\ ledger' = ledger
        BY <1>3, <2>3 DEF CommitCycle, LedgerAfter
      <3>2. /\ ledger.totalPnl = portfolio.totalPnl + Total(Gains(m), Positions)
            /\ portfolio.totalPnl = Total(Booked, Positions)
        BY <1>3 DEF LedgerInv, RowOf
      <3>3. \A p \in Positions : Booked'[p] = Booked[p] + Gains(m)[p]
        <4> SUFFICES ASSUME NEW p \in Positions PROVE Booked'[p] = Booked[p] + Gains(m)[p]
          OBVIOUS
        <4>1. CASE p \in Flushed(m)
          <5>1. closing[m][p] \in Prices /\ ClosedAt(p, closing[m][p])
            BY <2>3, <4>1, CommitCloses
          <5>2. closing[m][p] \in Nat
            BY <5>1
          <5>3. Gains(m)[p] = Pnl(closing[m][p])
            BY <4>1 DEF Gains
          <5> QED BY <5>1, <5>2, <5>3, BookedStep
        <4>2. CASE p \notin Flushed(m)
          <5>1. Kept(p)
            BY <2>3, <4>2, CommitCloses
          <5>2. Gains(m)[p] = 0 /\ Booked[p] \in Int
            BY <4>2, BookedType DEF Gains
          <5>3. Booked'[p] = Booked[p]
            BY <5>1, BookedStep
          <5> QED BY <5>2, <5>3
        <4> QED BY <4>1, <4>2
      <3>4. \A p \in Positions : Booked[p] \in Int /\ Gains(m)[p] \in Int
        BY BookedType, GainsType
      <3>5. Total(Booked', Positions) = Total(Booked, Positions) + Total(Gains(m), Positions)
        BY <3>3, <3>4, CloseSets, SumPlus
      <3>6. portfolio'.totalPnl = Total(Booked', Positions)
        BY <3>1, <3>2, <3>5
      <3> QED BY <2>1, <3>1, <3>6 DEF LedgerInv, Explained, Balanced
    <2> QED BY <2>2, <2>3
  <1> QED BY <1>2, <1>3

\* A request settles on the row that nobody holds.
LEMMA ManualLedger ==
    ASSUME IInv, IInv', LedgerInv, NEW p \in Positions, NEW r \in Requests, ManualClose(p, r)
    PROVE  LedgerInv'
  <1>1. PICK exit \in Prices, result \in {"CLOSED", "STOPPED_OUT"} :
          /\ positions' = [positions EXCEPT ![p] = Closed(result, exit)]
          /\ trades' = [trades EXCEPT ![p] = Append(@, exit)]
          /\ portfolio' = Settled(portfolio, exit)
    BY DEF ManualClose
  <1>2. ledger' = portfolio' /\ closing' = closing /\ \A m \in Monitors : Flushed(m) = {}
    BY DEF ManualClose
  <1>3. \A m \in Monitors : Flushed(m)' = {}
    BY <1>2 DEF Flushed
  <1>4. exit \in Nat /\ ClosedAt(p, exit) /\ \A q \in Positions \ {p} : Kept(q)
    BY <1>1 DEF ClosedAt, Kept, IInv, Typed
  <1>5. /\ Booked'[p] = Booked[p] + Pnl(exit)
        /\ \A q \in Positions : q # p => Booked'[q] = Booked[q]
    BY <1>4, BookedStep
  <1>6. \A q \in Positions : Booked[q] \in Int /\ Booked'[q] \in Int
    <2>1. Pnl(exit) \in Int /\ \A q \in Positions : Booked[q] \in Int
      BY <1>4, BookedType, SettledRow DEF IInv, Typed
    <2> QED BY <1>5, <2>1
  <1>7. Total(Booked', Positions) = Total(Booked, Positions) - Booked[p] + Booked'[p]
    BY <1>5, <1>6, CloseSets, SumChange
  <1>8. /\ portfolio'.totalPnl = portfolio.totalPnl + Pnl(exit)
        /\ Pnl(exit) \in Int /\ Explained(portfolio')
    BY <1>1, <1>4, SettledRow, SettledExplained DEF IInv, Typed, LedgerInv
  <1>9. Total(Booked, Positions) \in Int
    BY <1>6, CloseSets, SumType
  <1>10. portfolio'.totalPnl = Total(Booked', Positions)
    BY <1>5, <1>6, <1>7, <1>8, <1>9 DEF LedgerInv
  <1> QED BY <1>2, <1>3, <1>8, <1>10 DEF LedgerInv

\* A step that leaves the rows, the trades and the closes alone.
LEMMA LedgerKeeps ==
    ASSUME LedgerInv, UNCHANGED <<database, closing>>
    PROVE  LedgerInv'
  BY DEF LedgerInv, Explained, Balanced, Booked, RowOf, Gains, Proceeds, Flushed

LEMMA LedgerStep ==
    ASSUME IInv, IInv', LedgerInv, [Next]_vars
    PROVE  LedgerInv'
  <1>1. ASSUME NEW m \in Monitors, NEW p \in Positions, CloseTriggered(m, p)
        PROVE  LedgerInv'
    <2>1. RowOf(m)' /\ Explained(ledger')
      BY <1>1, FlushLedger
    <2>2. /\ \A n \in Monitors \ {m} : Flushed(n)' = {}
          /\ Flushed(m)' # {}
      BY <1>1, FlushAdds DEF Flushed
    <2>3. UNCHANGED <<positions, trades, portfolio>>
      BY <1>1 DEF CloseTriggered
    <2>4. Booked' = Booked
      BY <2>3 DEF Booked
    <2> QED BY <2>1, <2>2, <2>3, <2>4 DEF LedgerInv, Explained, Balanced
  <1>2. CASE \E m \in Monitors : CommitCycle(m) \/ LoseCycle(m)
    BY <1>2, EndLedger
  <1>3. CASE \E p \in Positions, r \in Requests : ManualClose(p, r)
    BY <1>3, ManualLedger
  <1>4. CASE \/ \E m \in Monitors : BeginCycle(m)
             \/ \E m \in Monitors, p \in Positions : SkipStale(m, p) \/ LeaveOpen(m, p)
             \/ \E p \in Positions : KeyExpires(p)
             \/ \E p \in Positions, r \in Requests : ReadForClose(p, r)
             \/ Tick \/ OperatorResume \/ UNCHANGED vars
    <2>1. UNCHANGED <<database, closing>>
      BY <1>4, RestChanges DEF BeginCycle, SkipStale, LeaveOpen
    <2> QED BY <2>1, LedgerKeeps
  <1> QED BY <1>1, <1>2, <1>3, <1>4 DEF Next, MonitorStep

LEMMA SpecLedger == Spec => [](IInv /\ LedgerInv)
  <1>1. IInv /\ IInv' /\ LedgerInv /\ [Next]_vars => LedgerInv'
    BY LedgerStep
  <1> QED BY <1>1, InitLedger, SpecIInv, PTL DEF Spec

\* record_close, in a cycle of several closes or from the endpoint: the trades
\* explain the balance, those of a position closed twice included.
THEOREM LedgerExplainedHolds == Spec => []LedgerExplained
  <1>1. LedgerInv => LedgerExplained
    BY DEF LedgerInv, Explained, LedgerExplained, Invested
  <1> QED BY <1>1, SpecLedger, PTL

-----------------------------------------------------------------------------
\* The refinement.  The sums of the abstract book are the ledger's.
LEMMA BookTotal == ASSUME NEW f, NEW S PROVE Book!Total(f, S) = Total(f, S)
  BY DEF Total, Book!Total, SumFunctionOnSet, Book!SumFunctionOnSet,
         FoldFunctionOnSet, Book!FoldFunctionOnSet, MapThenFoldSet, Book!MapThenFoldSet

LEMMA BookCount == ASSUME NEW S PROVE Book!Cardinality(S) = Cardinality(S)
  BY DEF Cardinality, Book!Cardinality, IsFiniteSet, Book!IsFiniteSet

LEMMA BookInit == Init => Book!Init
  <1> SUFFICES ASSUME Init PROVE Book!Init
    OBVIOUS
  <1> DEFINE cost == Cardinality(Positions) * EntryValue
             fresh == NewPortfolio(Available + cost)
  <1>1. cost \in Nat /\ Available + cost \in Nat
    <2>1. Cardinality(Positions) \in Nat /\ EntryValue \in Nat
      BY CloseSets, FS_CardinalityType, InvestedType
    <2>2. \A a, b \in Nat : a * b \in Nat /\ Available + a * b \in Nat
      OBVIOUS
    <2> QED BY <2>1, <2>2
  <1>2. portfolio = RecordFill(fresh, cost)
    BY DEF Init
  <1> HIDE DEF cost
  <1>3. fresh.available = Available + cost /\ fresh.allocated = 0 /\ fresh \in Portfolios
    BY <1>1, NewPortfolioSound DEF NewPortfolio
  <1> HIDE DEF fresh
  <1>4. portfolio.available = (Available + cost) - cost /\ portfolio.allocated = 0 + cost
    BY <1>2, <1>3 DEF RecordFill, Portfolios
  <1>5. portfolio.available = Available /\ portfolio.allocated = cost
    BY <1>1, <1>4
  <1>6. OpenSet = Positions
    BY DEF Init, OpenSet, Open
  <1> QED BY <1>5, <1>6, BookCount DEF Book!Init, cost

\* A commit takes the positions of the cycle out of the book, with their money.
LEMMA CommitBook ==
    ASSUME IInv, LedgerInv, NEW m \in Monitors, CommitCycle(m), Flushed(m) # {}
    PROVE  Book!Close(Flushed(m))
  <1> DEFINE S == Flushed(m)
             paid == [p \in S |-> closing[m][p]]
             amount == [p \in S |-> paid[p] * Quantity]
  <1>1. S \subseteq Positions /\ \A p \in S : Open(p)
    BY DEF IInv, Exclusive, Flushed
  <1>2. S \subseteq OpenSet
    BY <1>1 DEF OpenSet
  <1>3. OpenSet' = OpenSet \ S
    <2>1. ASSUME NEW p \in Positions PROVE Open(p)' <=> Open(p) /\ p \notin S
      <3>1. CASE p \in S
        <4>1. ClosedAt(p, closing[m][p])
          BY <3>1, CommitCloses
        <4>2. positions'[p].status \in {"CLOSED", "STOPPED_OUT"}
          BY <4>1 DEF ClosedAt, Closed
        <4> QED BY <3>1, <4>2 DEF Open
      <3>2. CASE p \notin S
        BY <3>2, CommitCloses DEF Kept, Open
      <3> QED BY <3>1, <3>2
    <2> QED BY <2>1 DEF OpenSet
  <1>4. paid \in [S -> Prices]
    BY <1>1, CommitCloses
  <1>5. portfolio' = ledger /\ RowOf(m)
    BY DEF CommitCycle, LedgerAfter, LedgerInv
  <1>6. Total(amount, S) = Total(Proceeds(m), S)
    <2>1. \A p \in S : Proceeds(m)[p] \in Int
      BY <1>1, GainsType
    <2>2. \A p \in S : amount[p] = Proceeds(m)[p]
      BY <1>1 DEF Proceeds
    <2>3. IsFiniteSet(S)
      BY GainsType
    <2> HIDE DEF S, amount
    <2> QED BY <2>1, <2>2, <2>3, SumSame
  <1>7. Book!Total(amount, S) = Total(Proceeds(m), S)
    BY <1>6, BookTotal
  <1>8. portfolio'.available = portfolio.available + Book!Total(amount, S)
    BY <1>5, <1>7 DEF RowOf
  <1>9. portfolio'.allocated = portfolio.allocated - Cardinality(S) * EntryValue
    BY <1>5 DEF RowOf
  <1>10. \E q \in [S -> Prices] :
            portfolio'.available
                = portfolio.available + Book!Total([p \in S |-> q[p] * Quantity], S)
    <2>1. portfolio'.available
            = portfolio.available + Book!Total([p \in S |-> paid[p] * Quantity], S)
      BY <1>8
    <2> HIDE DEF S, paid
    <2> QED BY <1>4, <2>1
  <1> QED BY <1>2, <1>3, <1>9, <1>10, BookCount DEF Book!Close

LEMMA BookStep ==
    ASSUME Requests = {}, IInv, LedgerInv, [Next]_vars
    PROVE  [Book!Next]_(Book!book)
  <1>1. ASSUME UNCHANGED <<positions, portfolio>> PROVE [Book!Next]_(Book!book)
    BY <1>1 DEF OpenSet, Open, Book!book
  <1>2. ASSUME NEW m \in Monitors, CommitCycle(m) PROVE [Book!Next]_(Book!book)
    <2>1. CASE Flushed(m) = {}
      <3>1. portfolio' = portfolio
        BY <1>2, <2>1 DEF CommitCycle, LedgerAfter
      <3>2. positions' = positions
        BY <1>2, <2>1 DEF CommitCycle, IInv, Typed
      <3> QED BY <1>1, <3>1, <3>2
    <2>2. CASE Flushed(m) # {}
      <3>1. Book!Close(Flushed(m)) /\ Flushed(m) \in SUBSET Positions
        BY <1>2, <2>2, CommitBook DEF Flushed
      <3> QED BY <3>1 DEF Book!Next
    <2> QED BY <2>1, <2>2
  <1>3. CASE ~ \E m \in Monitors : CommitCycle(m)
    <2>1. UNCHANGED <<positions, portfolio>>
      BY <1>3 DEF Next, MonitorStep, BeginCycle, SkipStale, LeaveOpen, CloseTriggered,
         LoseCycle, KeyExpires, Tick, OperatorResume, vars
    <2> QED BY <1>1, <2>1
  <1> QED BY <1>2, <1>3

\* The monitors, however many and whatever cycles they lose, close positions as
\* the book promises: each once, together with its money.
THEOREM Refinement ==
    ASSUME Requests = {}
    PROVE  Spec => ImplementsBook
  <1>1. IInv /\ LedgerInv /\ [Next]_vars => [Book!Next]_(Book!book)
    BY BookStep
  <1> QED BY <1>1, BookInit, SpecLedger, PTL DEF Spec, ImplementsBook, Book!Spec
=============================================================================
