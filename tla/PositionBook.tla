---------------------------- MODULE PositionBook ----------------------------
(***************************************************************************)
(* What closing promises: a position leaves the book once, and in the same *)
(* step its value and its profit or loss return to the available balance.  *)
(* Several positions may leave in one step.                                *)
(***************************************************************************)
EXTENDS Integers, FiniteSets, PortfolioLedger

CONSTANTS
    Positions,      \* the positions that are open at the start
    Value,          \* what each of them cost
    Quantity,
    Prices,         \* prices a position may be closed at
    Available       \* the balance that is not allocated at the start

VARIABLES open, available, allocated

book == <<open, available, allocated>>

Init ==
    /\ open = Positions
    /\ available = Available
    /\ allocated = Cardinality(Positions) * Value

Close(S) ==
    /\ S # {} /\ S \subseteq open
    /\ open' = open \ S
    /\ allocated' = allocated - Cardinality(S) * Value
    /\ \E price \in [S -> Prices] :
            available' = available + Total([p \in S |-> price[p] * Quantity], S)

Next == \E S \in SUBSET Positions : Close(S)

Spec == Init /\ [][Next]_book
=============================================================================
