-------------------------- MODULE PortfolioLedger --------------------------
(***************************************************************************)
(* The portfolio row of one execution mode and the UPDATE statements of    *)
(* PortfolioService on it.  Amounts are integers (the columns are          *)
(* NUMERIC(20,8); one unit stands for a multiple of 10^-8).  Every update  *)
(* is one SQL statement on a row that is locked, so each is one operator   *)
(* from a row to a row.  The CHECK constraints of the migrations decide    *)
(* whether the database accepts the row.                                   *)
(***************************************************************************)
EXTENDS Integers, Functions

\* The sum of the amounts of some keys: a SUM of the database, or what a loop
\* over rows adds up.
Total(amount, keys) == SumFunctionOnSet(amount, keys)

\* The columns of models/portfolio.py that the statements read or write.
Portfolios ==
    [available : Int, allocated : Int, total : Int,
     totalPnl : Int, dailyPnl : Int, maxDrawdown : Nat]

\* get_or_create: the row a mode starts from.
NewPortfolio(balance) ==
    [available |-> balance, allocated |-> 0, total |-> balance,
     totalPnl |-> 0, dailyPnl |-> 0, maxDrawdown |-> 0]

\* record_fill: the value of a fill moves from available to allocated.
RecordFill(p, value) ==
    [p EXCEPT !.available = @ - value, !.allocated = @ + value]

\* max_drawdown is NUMERIC(8,4): a ratio is stored in ten-thousandths.
DrawdownUnit == 10000

\* Mutant: the drawdown is not compared with the one on record.
CurrentDrawdown(p) ==
    IF p.totalPnl < 0 /\ p.total > 0
    THEN (-p.totalPnl * DrawdownUnit) \div (p.total - p.totalPnl)
    ELSE p.maxDrawdown

\* record_close: the drawdown after a close.  The comparison is made on the
\* exact ratio, the stored value is rounded to the column's four decimals.
Drawdown(p) ==
    LET loss == -p.totalPnl
        initial == p.total - p.totalPnl
    IN  IF /\ p.totalPnl < 0
           /\ p.total > 0
           /\ loss * DrawdownUnit > p.maxDrawdown * initial
        THEN (2 * loss * DrawdownUnit + initial) \div (2 * initial)
        ELSE p.maxDrawdown

\* record_close: the statement that returns a position's value and its PnL.
\* SQL evaluates every right-hand side on the old row.
SettleClose(p, value, pnl) ==
    [p EXCEPT !.available = @ + value + pnl,
              !.allocated = @ - value,
              !.totalPnl = @ + pnl,
              !.dailyPnl = @ + pnl,
              !.total = (p.available + value + pnl) + (p.allocated - value)]

RecordClose(p, value, pnl) ==
    LET settled == SettleClose(p, value, pnl)
    IN  [settled EXCEPT !.maxDrawdown = Drawdown(settled)]

\* reset_daily_pnl: a new trading day.
ResetDailyPnl(p) == [p EXCEPT !.dailyPnl = 0]

-----------------------------------------------------------------------------
\* The CHECK constraints on portfolios: 003 (total_balance >= 0), 004
\* (available_balance >= 0) and 006 (allocated_balance <= total_balance).
SatisfiesChecks(p) ==
    /\ p.total >= 0
    /\ p.available >= 0
    /\ p.allocated <= p.total

\* What every statement above keeps: the balance is split, never created.
Balanced(p) == p.available + p.allocated = p.total
=============================================================================
