----------------------- MODULE PortfolioLedger_proofs -----------------------
(***************************************************************************)
(* What the UPDATE statements of PortfolioService keep, for every amount,  *)
(* and the facts about sums that the proofs of the other modules need.     *)
(***************************************************************************)
EXTENDS PortfolioLedger, FiniteSets, FiniteSetTheorems, TLAPS

\* A new portfolio is a balanced row, and acceptable to the database.
THEOREM NewPortfolioSound ==
  ASSUME NEW balance \in Nat
  PROVE  /\ NewPortfolio(balance) \in Portfolios
         /\ Balanced(NewPortfolio(balance))
         /\ SatisfiesChecks(NewPortfolio(balance))
         /\ NewPortfolio(balance).total = balance
  BY DEF NewPortfolio, Portfolios, Balanced, SatisfiesChecks

\* record_fill moves money inside the row: the split stays exact and the total
\* is untouched, whatever the value.
THEOREM RecordFillSound ==
  ASSUME NEW p \in Portfolios, NEW value \in Int
  PROVE  /\ RecordFill(p, value) \in Portfolios
         /\ RecordFill(p, value).total = p.total
         /\ Balanced(p) => Balanced(RecordFill(p, value))
  <1> DEFINE q == RecordFill(p, value)
  <1>1. /\ p.available \in Int /\ p.allocated \in Int /\ p.total \in Int
        /\ p.totalPnl \in Int /\ p.dailyPnl \in Int /\ p.maxDrawdown \in Nat
    BY DEF Portfolios
  <1>2. /\ q.available = p.available - value
        /\ q.allocated = p.allocated + value
        /\ q.total = p.total
    BY DEF RecordFill, Portfolios
  <1>3. q \in Portfolios
    <2> DEFINE debited == [p EXCEPT !.available = @ - value]
    <2>1. p.available - value \in Int /\ p.allocated + value \in Int
      BY <1>1
    <2>2. debited \in Portfolios /\ debited.allocated = p.allocated
      BY <2>1 DEF Portfolios
    <2>3. q = [debited EXCEPT !.allocated = p.allocated + value]
      BY <2>2 DEF RecordFill, Portfolios
    <2> HIDE DEF debited, q
    <2> QED BY <2>1, <2>2, <2>3 DEF Portfolios
  <1> HIDE DEF q
  <1>4. Balanced(p) => Balanced(q)
    BY <1>1, <1>2 DEF Balanced
  <1> QED BY <1>2, <1>3, <1>4 DEF q

\* record_close: max_drawdown is the only column that Drawdown changes.
LEMMA RecordCloseColumns ==
  ASSUME NEW p \in Portfolios, NEW value \in Int, NEW pnl \in Int
  PROVE  /\ RecordClose(p, value, pnl).available = p.available + value + pnl
         /\ RecordClose(p, value, pnl).allocated = p.allocated - value
         /\ RecordClose(p, value, pnl).total
              = (p.available + value + pnl) + (p.allocated - value)
         /\ RecordClose(p, value, pnl).totalPnl = p.totalPnl + pnl
         /\ RecordClose(p, value, pnl).dailyPnl = p.dailyPnl + pnl
  <1> DEFINE settled == SettleClose(p, value, pnl)
  <1>1. /\ settled.available = p.available + value + pnl
        /\ settled.allocated = p.allocated - value
        /\ settled.total = (p.available + value + pnl) + (p.allocated - value)
        /\ settled.totalPnl = p.totalPnl + pnl
        /\ settled.dailyPnl = p.dailyPnl + pnl
    BY DEF SettleClose, Portfolios
  <1>2. RecordClose(p, value, pnl)
          = [settled EXCEPT !.maxDrawdown = Drawdown(settled)]
    BY DEF RecordClose
  <1> HIDE DEF settled
  <1> QED BY <1>1, <1>2

\* record_close recomputes the total, so the split is exact after it even if it
\* was not before; the total moves by the PnL when it was.
THEOREM RecordCloseSound ==
  ASSUME NEW p \in Portfolios, NEW value \in Int, NEW pnl \in Int
  PROVE  /\ Balanced(RecordClose(p, value, pnl))
         /\ Balanced(p) => RecordClose(p, value, pnl).total = p.total + pnl
  BY RecordCloseColumns DEF Balanced, Portfolios

\* Opening and closing a position leaves the row as it was but for the PnL.
THEOREM RoundTrip ==
  ASSUME NEW p \in Portfolios, NEW value \in Int, NEW pnl \in Int,
         Balanced(p)
  PROVE  LET closed == RecordClose(RecordFill(p, value), value, pnl)
         IN  /\ closed.available = p.available + pnl
             /\ closed.allocated = p.allocated
             /\ closed.total = p.total + pnl
  <1>1. RecordFill(p, value) \in Portfolios
    BY RecordFillSound
  <1>2. /\ RecordFill(p, value).available = p.available - value
        /\ RecordFill(p, value).allocated = p.allocated + value
    BY DEF RecordFill, Portfolios
  <1>3. /\ p.available \in Int /\ p.allocated \in Int /\ p.total \in Int
        /\ p.available + p.allocated = p.total
    BY DEF Balanced, Portfolios
  <1> QED BY <1>1, <1>2, <1>3, RecordCloseColumns

LEMMA QuotientAtLeast ==
  ASSUME NEW a \in Nat, NEW b \in Nat \ {0}, NEW k \in Nat, a >= k * b
  PROVE  a \div b \in Nat /\ a \div b >= k
  <1> DEFINE q == a \div b
             r == a % b
  <1>1. q \in Int /\ r \in Int /\ 0 <= r /\ r < b /\ a = b * q + r
    OBVIOUS
  <1> HIDE DEF q, r
  <1>2. ASSUME q < k PROVE FALSE
    <2>1. q + 1 <= k /\ b > 0
      BY <1>1, <1>2
    <2>2. b * (q + 1) <= b * k
      BY <2>1, <1>1
    <2>3. b * (q + 1) = b * q + b /\ b * k = k * b
      BY <1>1
    <2> QED BY <1>1, <2>2, <2>3
  <1>3. q >= k
    BY <1>1, <1>2
  <1> QED BY <1>1, <1>3 DEF q

\* record_close: the drawdown on record never falls, although it is compared
\* exactly and stored rounded.
THEOREM DrawdownNeverFalls ==
  ASSUME NEW p \in Portfolios, NEW value \in Int, NEW pnl \in Int
  PROVE  /\ RecordClose(p, value, pnl) \in Portfolios
         /\ RecordClose(p, value, pnl).maxDrawdown >= p.maxDrawdown
  <1> DEFINE s == SettleClose(p, value, pnl)
  <1>1. s \in Portfolios /\ s.maxDrawdown = p.maxDrawdown
    <2> DEFINE total == (p.available + value + pnl) + (p.allocated - value)
    <2>1. /\ p.available + value + pnl \in Int /\ p.allocated - value \in Int
          /\ p.totalPnl + pnl \in Int /\ p.dailyPnl + pnl \in Int /\ total \in Int
          /\ p.maxDrawdown \in Nat
      BY DEF Portfolios
    <2>2. s = [p EXCEPT !.available = p.available + value + pnl,
                        !.allocated = p.allocated - value,
                        !.totalPnl = p.totalPnl + pnl,
                        !.dailyPnl = p.dailyPnl + pnl, !.total = total]
      BY DEF SettleClose, Portfolios
    <2> DEFINE p1 == [p EXCEPT !.available = p.available + value + pnl]
               p2 == [p1 EXCEPT !.allocated = p.allocated - value]
               p3 == [p2 EXCEPT !.totalPnl = p.totalPnl + pnl]
               p4 == [p3 EXCEPT !.dailyPnl = p.dailyPnl + pnl]
               p5 == [p4 EXCEPT !.total = total]
    <2>3. s = p5
      BY <2>2
    <2>4. p1 \in Portfolios /\ p1.maxDrawdown = p.maxDrawdown
      BY <2>1 DEF Portfolios
    <2>5. p2 \in Portfolios /\ p2.maxDrawdown = p.maxDrawdown
      <3> HIDE DEF p1
      <3> QED BY <2>1, <2>4 DEF Portfolios
    <2>6. p3 \in Portfolios /\ p3.maxDrawdown = p.maxDrawdown
      <3> HIDE DEF p2
      <3> QED BY <2>1, <2>5 DEF Portfolios
    <2>7. p4 \in Portfolios /\ p4.maxDrawdown = p.maxDrawdown
      <3> HIDE DEF p3
      <3> QED BY <2>1, <2>6 DEF Portfolios
    <2>8. p5 \in Portfolios /\ p5.maxDrawdown = p.maxDrawdown
      <3> HIDE DEF p4, total
      <3> QED BY <2>1, <2>7 DEF Portfolios
    <2> HIDE DEF s, p5
    <2> QED BY <2>3, <2>8
  <1>2. RecordClose(p, value, pnl) = [s EXCEPT !.maxDrawdown = Drawdown(s)]
    BY DEF RecordClose
  <1> HIDE DEF s
  <1>3. Drawdown(s) \in Nat /\ Drawdown(s) >= s.maxDrawdown
    <2> DEFINE loss == -s.totalPnl
               initial == s.total - s.totalPnl
               scaled == 2 * loss * DrawdownUnit + initial
    <2>1. /\ s.totalPnl \in Int /\ s.total \in Int /\ s.maxDrawdown \in Nat
      BY <1>1 DEF Portfolios
    <2>2. Drawdown(s) = IF /\ s.totalPnl < 0 /\ s.total > 0
                           /\ loss * DrawdownUnit > s.maxDrawdown * initial
                        THEN scaled \div (2 * initial) ELSE s.maxDrawdown
      BY DEF Drawdown
    <2>3. ASSUME s.totalPnl < 0, s.total > 0,
                 loss * DrawdownUnit > s.maxDrawdown * initial
          PROVE  scaled \div (2 * initial) \in Nat
                 /\ scaled \div (2 * initial) >= s.maxDrawdown
      <3>1. loss \in Nat /\ initial \in Nat \ {0} /\ 2 * initial \in Nat \ {0}
            /\ scaled \in Nat
        BY <2>1, <2>3 DEF DrawdownUnit
      <3>2. s.maxDrawdown * (2 * initial) = 2 * (s.maxDrawdown * initial)
            /\ s.maxDrawdown * initial \in Nat
            /\ scaled = 2 * (loss * DrawdownUnit) + initial
        <4> HIDE DEF loss, initial
        <4> QED BY <2>1, <3>1 DEF DrawdownUnit
      <3>3. scaled >= s.maxDrawdown * (2 * initial)
        <4>1. loss * DrawdownUnit \in Int
          BY <3>1 DEF DrawdownUnit
        <4> HIDE DEF loss, initial, scaled
        <4> QED BY <2>3, <3>1, <3>2, <4>1
      <3> HIDE DEF scaled, initial
      <3> QED BY <2>1, <3>1, <3>3, QuotientAtLeast
    <2> HIDE DEF scaled, initial, loss
    <2> QED BY <2>1, <2>2, <2>3
  <1>4. [s EXCEPT !.maxDrawdown = Drawdown(s)] \in Portfolios
    BY <1>1, <1>3 DEF Portfolios
  <1>5. [s EXCEPT !.maxDrawdown = Drawdown(s)].maxDrawdown = Drawdown(s)
    BY <1>1 DEF Portfolios
  <1> QED BY <1>1, <1>2, <1>3, <1>4, <1>5
-----------------------------------------------------------------------------
(* Sums.  Total is a fold: a recursive function over the subsets of its     *)
(* keys that takes out one key after the other.  That strict inclusion is   *)
(* well founded on finite sets gives the induction, as a smallest           *)
(* counterexample, for a formula that is written as a set.                  *)

\* The key that a fold takes out of a set next, and the fold itself.
Pick(s) == CHOOSE x \in s : TRUE
IsFold(g, f, S) ==
    g = [s \in SUBSET S |-> IF s = {} THEN 0
                            ELSE f[Pick(s)] + g[s \ {Pick(s)}]]

\* The total is the value of such a function.
LEMMA SumUnfold ==
  ASSUME NEW f, NEW S
  PROVE  Total(f, S) = (CHOOSE g : IsFold(g, f, S))[S]
  BY DEF Total, SumFunctionOnSet, FoldFunctionOnSet, MapThenFoldSet, IsFold, Pick

LEMMA PickIn == ASSUME NEW s, s # {} PROVE Pick(s) \in s
  BY DEF Pick

\* Among subsets of a finite set there is a smallest: the induction.
LEMMA SmallestSubset ==
  ASSUME NEW S, IsFiniteSet(S), NEW Bad \in SUBSET SUBSET S, Bad # {}
  PROVE  \E T \in Bad : \A U \in Bad : U \subseteq T => U = T
  <1>1. IsWellFoundedOn(StrictSubsetOrdering(S), FiniteSubsetsOf(S))
    BY FS_StrictSubsetOrderingWellFounded
  <1>2. FiniteSubsetsOf(S) = SUBSET S
    BY FS_FiniteSubsetsOfFinite
  <1>3. \E T \in Bad : \A U \in Bad : ~(<<U, T>> \in StrictSubsetOrdering(S))
    BY <1>1, <1>2, WFMin, Zenon
  <1>4. PICK T \in Bad : \A U \in Bad : ~(<<U, T>> \in StrictSubsetOrdering(S))
    BY <1>3
  <1>5. ASSUME NEW U \in Bad, U \subseteq T PROVE U = T
    <2>1. <<U, T>> \in (SUBSET S) \X (SUBSET S)
      OBVIOUS
    <2> QED BY <1>4, <1>5, <2>1 DEF StrictSubsetOrdering
  <1> QED BY <1>4, <1>5

\* What a fold is on the empty set and on any other.
LEMMA FoldValue ==
  ASSUME NEW f, NEW S, NEW g, IsFold(g, f, S)
  PROVE  /\ g[{}] = 0
         /\ \A s \in SUBSET S : s # {} => g[s] = f[Pick(s)] + g[s \ {Pick(s)}]
  BY DEF IsFold

\* Folds over two sets agree on the subsets that they share.
LEMMA FoldUnique ==
  ASSUME NEW f, NEW S, IsFiniteSet(S), NEW T \in SUBSET S,
         NEW g, IsFold(g, f, S), NEW h, IsFold(h, f, T)
  PROVE  \A s \in SUBSET T : g[s] = h[s]
  <1> DEFINE Bad == {s \in SUBSET T : g[s] # h[s]}
  <1> SUFFICES ASSUME Bad # {} PROVE FALSE
    OBVIOUS
  <1>1. IsFiniteSet(T)
    BY FS_Subset
  <1>2. PICK s \in Bad : \A u \in Bad : u \subseteq s => u = s
    <2>1. Bad \in SUBSET SUBSET T
      OBVIOUS
    <2> HIDE DEF Bad
    <2> QED BY <1>1, <2>1, SmallestSubset
  <1>3. s \in SUBSET T /\ s \in SUBSET S /\ g[s] # h[s]
    OBVIOUS
  <1>4. s # {}
    BY <1>3, FoldValue
  <1>5. Pick(s) \in s /\ s \ {Pick(s)} \in SUBSET T /\ s \ {Pick(s)} # s
    BY <1>3, <1>4, PickIn
  <1>6. g[s \ {Pick(s)}] = h[s \ {Pick(s)}]
    BY <1>2, <1>5
  <1> QED BY <1>3, <1>4, <1>6, FoldValue

\* The equation of a fold has a solution.
LEMMA FoldExists ==
  ASSUME NEW f, NEW S, IsFiniteSet(S)
  PROVE  \E g : IsFold(g, f, S)
  <1> DEFINE fold(T) == CHOOSE g : IsFold(g, f, T)
             Bad == {T \in SUBSET S : ~ \E g : IsFold(g, f, T)}
  <1> SUFFICES ASSUME Bad # {} PROVE FALSE
    OBVIOUS
  <1>1. PICK T \in Bad : \A U \in Bad : U \subseteq T => U = T
    <2>1. Bad \in SUBSET SUBSET S
      OBVIOUS
    <2> HIDE DEF Bad
    <2> QED BY <2>1, SmallestSubset
  <1>2. \A U \in SUBSET T : U # T => IsFold(fold(U), f, U)
    BY <1>1
  <1>t. IsFiniteSet(T)
    BY FS_Subset
  <1> DEFINE value(s) == IF s = {} THEN 0
                         ELSE f[Pick(s)] + fold(s \ {Pick(s)})[s \ {Pick(s)}]
             G == [s \in SUBSET T |-> value(s)]
  <1>3. ASSUME NEW u \in SUBSET T, u # T PROVE fold(u)[u] = value(u)
    <2>1. IsFold(fold(u), f, u)
      BY <1>2, <1>3
    <2>2. CASE u = {}
      <3>1. fold(u)[{}] = 0
        BY <2>1, FoldValue
      <3> QED BY <2>2, <3>1
    <2>3. CASE u # {}
      <3> DEFINE r == u \ {Pick(u)}
      <3>1. r \in SUBSET u /\ r \in SUBSET T /\ r # T /\ IsFiniteSet(u)
        BY <1>t, <2>3, PickIn, FS_Subset
      <3>2. IsFold(fold(r), f, r)
        BY <1>2, <3>1
      <3> HIDE DEF fold, r
      <3>3. fold(u)[r] = fold(r)[r]
        BY <2>1, <3>1, <3>2, FoldUnique
      <3> USE DEF r
      <3>4. fold(u)[u] = f[Pick(u)] + fold(u)[r]
        BY <2>1, <2>3, FoldValue
      <3> QED BY <2>3, <3>3, <3>4
    <2> QED BY <2>2, <2>3
  <1>4. ASSUME NEW s \in SUBSET T, s # {}
        PROVE  value(s) = f[Pick(s)] + G[s \ {Pick(s)}]
    <2> DEFINE r == s \ {Pick(s)}
    <2>1. r \in SUBSET T /\ r # T
      BY <1>4, PickIn
    <2>2. fold(r)[r] = value(r)
      BY <1>3, <2>1
    <2>3. G[r] = value(r)
      BY <2>1
    <2> HIDE DEF fold, G
    <2> QED BY <1>4, <2>2, <2>3
  <1>5. value({}) = 0
    OBVIOUS
  <1> HIDE DEF fold, value
  <1>6. G = [s \in SUBSET T |-> IF s = {} THEN 0
                                ELSE f[Pick(s)] + G[s \ {Pick(s)}]]
    BY <1>4, <1>5
  <1> HIDE DEF G
  <1>7. IsFold(G, f, T)
    BY <1>6 DEF IsFold
  <1> QED BY <1>7

\* Nothing adds up to 0.
LEMMA SumEmpty == ASSUME NEW f PROVE Total(f, {}) = 0
  <1>1. IsFold(CHOOSE g : IsFold(g, f, {}), f, {})
    BY FoldExists, FS_EmptySet
  <1> QED BY <1>1, SumUnfold, FoldValue

\* The equation of the fold, for totals.
LEMMA SumPick ==
  ASSUME NEW f, NEW S, IsFiniteSet(S), S # {}
  PROVE  Total(f, S) = f[Pick(S)] + Total(f, S \ {Pick(S)})
  <1> DEFINE fold(T) == CHOOSE g : IsFold(g, f, T)
             R == S \ {Pick(S)}
  <1>1. R \in SUBSET S /\ IsFiniteSet(R)
    BY FS_Subset
  <1>2. IsFold(fold(S), f, S) /\ IsFold(fold(R), f, R)
    BY <1>1, FoldExists
  <1>3. Total(f, S) = fold(S)[S] /\ Total(f, R) = fold(R)[R]
    BY SumUnfold
  <1> HIDE DEF fold, R
  <1>4. fold(S)[R] = fold(R)[R]
    BY <1>1, <1>2, FoldUnique
  <1>5. fold(S)[S] = f[Pick(S)] + fold(S)[R]
    BY <1>2, FoldValue DEF R
  <1> QED BY <1>3, <1>4, <1>5 DEF R

\* Integers add up to an integer.
LEMMA SumType ==
  ASSUME NEW f, NEW S, IsFiniteSet(S), \A x \in S : f[x] \in Int
  PROVE  Total(f, S) \in Int
  <1> DEFINE Bad == {T \in SUBSET S : Total(f, T) \notin Int}
  <1> SUFFICES ASSUME Bad # {} PROVE FALSE
    OBVIOUS
  <1>1. PICK T \in Bad : \A U \in Bad : U \subseteq T => U = T
    <2>1. Bad \in SUBSET SUBSET S
      OBVIOUS
    <2> HIDE DEF Bad
    <2> QED BY <2>1, SmallestSubset
  <1>2. T \in SUBSET S /\ IsFiniteSet(T) /\ Total(f, T) \notin Int
    BY FS_Subset
  <1>3. T # {}
    BY <1>2, SumEmpty
  <1>4. Pick(T) \in T /\ T \ {Pick(T)} # T
    BY <1>3, PickIn
  <1>5. Total(f, T \ {Pick(T)}) \in Int
    BY <1>1, <1>2, <1>4
  <1>6. f[Pick(T)] \in Int
    BY <1>2, <1>4
  <1>7. Total(f, T) = f[Pick(T)] + Total(f, T \ {Pick(T)})
    BY <1>2, <1>3, SumPick
  <1> HIDE DEF Bad
  <1> QED BY <1>2, <1>5, <1>6, <1>7

\* The order does not matter: any key may be taken out first.
LEMMA SumRemove ==
  ASSUME NEW f, NEW S, IsFiniteSet(S), \A y \in S : f[y] \in Int,
         NEW x \in S
  PROVE  Total(f, S) = f[x] + Total(f, S \ {x})
  <1> DEFINE Bad == {T \in SUBSET S :
                        \E y \in T : Total(f, T) # f[y] + Total(f, T \ {y})}
  <1> SUFFICES ASSUME Bad # {} PROVE FALSE
    OBVIOUS
  <1>1. PICK T \in Bad : \A U \in Bad : U \subseteq T => U = T
    <2>1. Bad \in SUBSET SUBSET S
      OBVIOUS
    <2> HIDE DEF Bad
    <2> QED BY <2>1, SmallestSubset
  <1>2. PICK y \in T : Total(f, T) # f[y] + Total(f, T \ {y})
    OBVIOUS
  <1>3. T \in SUBSET S /\ IsFiniteSet(T)
    BY FS_Subset
  <1> DEFINE p == Pick(T)
             P == T \ {p}
             Y == T \ {y}
             B == P \ {y}
  <1>4. p \in T /\ p # y
    <2>1. p \in T /\ Total(f, T) = f[p] + Total(f, P)
      BY <1>2, <1>3, SumPick, PickIn
    <2> QED BY <1>2, <2>1
  <1>5. /\ P \in SUBSET S /\ P \subseteq T /\ P # T /\ y \in P
        /\ Y \in SUBSET S /\ Y \subseteq T /\ Y # T /\ p \in Y
        /\ B = Y \ {p} /\ B \in SUBSET S
    BY <1>2, <1>3, <1>4
  <1>6. Total(f, P) = f[y] + Total(f, B)
    BY <1>1, <1>5
  <1>7. Total(f, Y) = f[p] + Total(f, B)
    BY <1>1, <1>5
  <1>8. Total(f, T) = f[p] + Total(f, P)
    BY <1>2, <1>3, SumPick
  <1>9. f[p] \in Int /\ f[y] \in Int
    BY <1>3, <1>4
  <1>10. Total(f, B) \in Int
    <2>1. IsFiniteSet(B) /\ \A z \in B : f[z] \in Int
      BY <1>5, FS_Subset
    <2> QED BY <2>1, SumType
  <1> HIDE DEF Bad, p, P, Y, B
  <1>11. Total(f, T) = f[y] + Total(f, Y)
    BY <1>6, <1>7, <1>8, <1>9, <1>10
  <1> QED BY <1>2, <1>11 DEF Y

\* One more key adds its amount.
LEMMA SumInsert ==
  ASSUME NEW f, NEW S, IsFiniteSet(S), NEW x, x \notin S,
         \A y \in S \cup {x} : f[y] \in Int
  PROVE  Total(f, S \cup {x}) = Total(f, S) + f[x]
  <1> DEFINE T == S \cup {x}
  <1>1. IsFiniteSet(T) /\ T \ {x} = S /\ x \in T /\ \A y \in T : f[y] \in Int
    BY FS_AddElement
  <1>3. Total(f, S) \in Int /\ f[x] \in Int
    BY SumType
  <1> HIDE DEF T
  <1>2. Total(f, T) = f[x] + Total(f, T \ {x})
    BY <1>1, SumRemove
  <1>4. Total(f, T) = f[x] + Total(f, S)
    BY <1>1, <1>2
  <1> QED BY <1>3, <1>4 DEF T

\* A total grows with the amounts.
LEMMA SumAtMost ==
  ASSUME NEW f, NEW g, NEW S, IsFiniteSet(S),
         \A x \in S : f[x] \in Int /\ g[x] \in Int /\ f[x] <= g[x]
  PROVE  Total(f, S) <= Total(g, S)
  <1> DEFINE Bad == {T \in SUBSET S : ~(Total(f, T) <= Total(g, T))}
  <1> SUFFICES ASSUME Bad # {} PROVE FALSE
    OBVIOUS
  <1>1. PICK T \in Bad : \A U \in Bad : U \subseteq T => U = T
    <2>1. Bad \in SUBSET SUBSET S
      OBVIOUS
    <2> HIDE DEF Bad
    <2> QED BY <2>1, SmallestSubset
  <1>2. T \in SUBSET S /\ IsFiniteSet(T) /\ ~(Total(f, T) <= Total(g, T))
    BY FS_Subset
  <1>3. T # {}
    BY <1>2, SumEmpty
  <1> DEFINE p == Pick(T)
             R == T \ {p}
  <1>4. p \in T /\ R # T /\ R \in SUBSET S /\ R \subseteq T /\ IsFiniteSet(R)
    BY <1>2, <1>3, PickIn, FS_Subset
  <1>5. Total(f, R) <= Total(g, R)
    BY <1>1, <1>4
  <1>6. Total(f, R) \in Int /\ Total(g, R) \in Int
    BY <1>4, SumType
  <1>7. /\ Total(f, T) = f[p] + Total(f, R)
        /\ Total(g, T) = g[p] + Total(g, R)
    BY <1>2, <1>3, SumPick
  <1>8. f[p] \in Int /\ g[p] \in Int /\ f[p] <= g[p]
    BY <1>2, <1>4
  <1> HIDE DEF Bad, p, R
  <1> QED BY <1>2, <1>5, <1>6, <1>7, <1>8

\* A total depends on the amounts of its keys only.
LEMMA SumSame ==
  ASSUME NEW f, NEW g, NEW S, IsFiniteSet(S),
         \A x \in S : f[x] \in Int /\ g[x] = f[x]
  PROVE  Total(g, S) = Total(f, S)
  <1>1. Total(f, S) <= Total(g, S) /\ Total(g, S) <= Total(f, S)
    BY SumAtMost
  <1>2. Total(f, S) \in Int /\ Total(g, S) \in Int
    BY SumType
  <1> QED BY <1>1, <1>2

\* When one amount changes, the total changes by as much.
LEMMA SumChange ==
  ASSUME NEW f, NEW g, NEW S, IsFiniteSet(S), NEW x \in S,
         \A y \in S : f[y] \in Int /\ g[y] \in Int,
         \A y \in S : y # x => g[y] = f[y]
  PROVE  Total(g, S) = Total(f, S) - f[x] + g[x]
  <1> DEFINE R == S \ {x}
  <1>1. IsFiniteSet(R) /\ \A y \in R : f[y] \in Int /\ g[y] = f[y]
    BY FS_Subset
  <1>2. Total(g, R) = Total(f, R) /\ Total(f, R) \in Int
    BY <1>1, SumSame, SumType
  <1>3. Total(f, S) = f[x] + Total(f, R) /\ Total(g, S) = g[x] + Total(g, R)
    BY SumRemove
  <1>4. f[x] \in Int /\ g[x] \in Int
    OBVIOUS
  <1> HIDE DEF R
  <1> QED BY <1>2, <1>3, <1>4

\* Zeros add up to 0.
LEMMA SumZero ==
  ASSUME NEW f, NEW S, IsFiniteSet(S), \A x \in S : f[x] = 0
  PROVE  Total(f, S) = 0
  <1> DEFINE Bad == {T \in SUBSET S : Total(f, T) # 0}
  <1> SUFFICES ASSUME Bad # {} PROVE FALSE
    OBVIOUS
  <1>1. PICK T \in Bad : \A U \in Bad : U \subseteq T => U = T
    <2>1. Bad \in SUBSET SUBSET S
      OBVIOUS
    <2> HIDE DEF Bad
    <2> QED BY <2>1, SmallestSubset
  <1>2. T \in SUBSET S /\ IsFiniteSet(T) /\ Total(f, T) # 0
    BY FS_Subset
  <1>3. T # {}
    BY <1>2, SumEmpty
  <1>4. Pick(T) \in T /\ T \ {Pick(T)} # T
    BY <1>3, PickIn
  <1>5. Total(f, T \ {Pick(T)}) = 0 /\ f[Pick(T)] = 0
    BY <1>1, <1>2, <1>4
  <1>6. Total(f, T) = f[Pick(T)] + Total(f, T \ {Pick(T)})
    BY <1>2, <1>3, SumPick
  <1> HIDE DEF Bad
  <1> QED BY <1>2, <1>5, <1>6

\* Natural numbers add up to one.
LEMMA SumNonnegative ==
  ASSUME NEW f, NEW S, IsFiniteSet(S), \A x \in S : f[x] \in Nat
  PROVE  Total(f, S) \in Nat
  <1> DEFINE zero == [x \in S |-> 0]
  <1>1. \A x \in S : zero[x] = 0
    OBVIOUS
  <1> HIDE DEF zero
  <1>2. Total(zero, S) = 0
    BY <1>1, SumZero
  <1>3. Total(zero, S) <= Total(f, S)
    BY <1>1, SumAtMost
  <1>4. Total(f, S) \in Int
    BY SumType
  <1> QED BY <1>2, <1>3, <1>4

\* Amounts that a bound caps add up to at most the bound for each of them.
LEMMA SumBounded ==
  ASSUME NEW f, NEW S, IsFiniteSet(S), NEW bound \in Int,
         \A x \in S : f[x] \in Int /\ f[x] <= bound
  PROVE  Total(f, S) <= bound * Cardinality(S)
  <1> DEFINE Bad == {T \in SUBSET S : ~(Total(f, T) <= bound * Cardinality(T))}
  <1> SUFFICES ASSUME Bad # {} PROVE FALSE
    OBVIOUS
  <1>1. PICK T \in Bad : \A U \in Bad : U \subseteq T => U = T
    <2>1. Bad \in SUBSET SUBSET S
      OBVIOUS
    <2> HIDE DEF Bad
    <2> QED BY <2>1, SmallestSubset
  <1>2. T \in SUBSET S /\ IsFiniteSet(T) /\ ~(Total(f, T) <= bound * Cardinality(T))
    BY FS_Subset
  <1>3. T # {}
    BY <1>2, SumEmpty, FS_EmptySet
  <1> DEFINE R == T \ {Pick(T)}
  <1>4. Pick(T) \in T /\ R # T /\ R \in SUBSET S
    BY <1>2, <1>3, PickIn
  <1>5. Total(f, R) <= bound * Cardinality(R)
    BY <1>1, <1>2, <1>4
  <1>6. Cardinality(R) \in Int /\ Cardinality(T) = Cardinality(R) + 1
    <2>1. /\ IsFiniteSet(R) /\ Cardinality(R) = Cardinality(T) - 1
          /\ Cardinality(T) \in Nat /\ Cardinality(R) \in Nat
      BY <1>2, <1>4, FS_RemoveElement, FS_CardinalityType
    <2> QED BY <2>1
  <1>7. /\ Total(f, T) = f[Pick(T)] + Total(f, R)
        /\ f[Pick(T)] \in Int /\ f[Pick(T)] <= bound
    BY <1>2, <1>3, <1>4, SumPick
  <1>8. Total(f, R) \in Int
    <2>1. IsFiniteSet(R) /\ \A x \in R : f[x] \in Int
      BY <1>2, <1>4, FS_Subset
    <2> QED BY <2>1, SumType
  <1> DEFINE n == Cardinality(R)
  <1>9. bound * (n + 1) = bound * n + bound /\ bound * n \in Int
    BY <1>6
  <1> HIDE DEF Bad, R
  <1> QED BY <1>2, <1>5, <1>6, <1>7, <1>8, <1>9

\* Adding key by key adds the sums.
LEMMA SumPlus ==
  ASSUME NEW f, NEW g, NEW h, NEW S, IsFiniteSet(S),
         \A x \in S : f[x] \in Int /\ g[x] \in Int /\ h[x] = f[x] + g[x]
  PROVE  Total(h, S) = Total(f, S) + Total(g, S)
  <1> DEFINE Bad == {T \in SUBSET S : Total(h, T) # Total(f, T) + Total(g, T)}
  <1> SUFFICES ASSUME Bad # {} PROVE FALSE
    OBVIOUS
  <1>1. PICK T \in Bad : \A U \in Bad : U \subseteq T => U = T
    <2>1. Bad \in SUBSET SUBSET S
      OBVIOUS
    <2> HIDE DEF Bad
    <2> QED BY <2>1, SmallestSubset
  <1>2. /\ T \in SUBSET S /\ IsFiniteSet(T)
        /\ Total(h, T) # Total(f, T) + Total(g, T)
    BY FS_Subset
  <1>3. T # {}
    <2>1. Total(f, {}) = 0 /\ Total(g, {}) = 0 /\ Total(h, {}) = 0
      BY SumEmpty
    <2>2. ASSUME T = {} PROVE Total(h, T) = Total(f, T) + Total(g, T)
      <3>1. Total(f, T) = 0 /\ Total(g, T) = 0 /\ Total(h, T) = 0
        BY <2>1, <2>2
      <3> QED BY <3>1
    <2> QED BY <1>2, <2>2
  <1> DEFINE R == T \ {Pick(T)}
  <1>4. Pick(T) \in T /\ R # T /\ R \in SUBSET S
    BY <1>2, <1>3, PickIn
  <1>5. Total(h, R) = Total(f, R) + Total(g, R)
    <2>1. R \subseteq T
      OBVIOUS
    <2>2. R \notin Bad
      <3> HIDE DEF Bad, R
      <3> QED BY <1>1, <1>4, <2>1
    <2> QED BY <1>4, <2>2
  <1>6. /\ Total(f, T) = f[Pick(T)] + Total(f, R)
        /\ Total(g, T) = g[Pick(T)] + Total(g, R)
        /\ Total(h, T) = h[Pick(T)] + Total(h, R)
    BY <1>2, <1>3, SumPick
  <1>7. /\ f[Pick(T)] \in Int /\ g[Pick(T)] \in Int
        /\ h[Pick(T)] = f[Pick(T)] + g[Pick(T)]
    BY <1>2, <1>4
  <1>8. Total(f, R) \in Int /\ Total(g, R) \in Int
    <2>1. IsFiniteSet(R) /\ \A x \in R : f[x] \in Int /\ g[x] \in Int
      BY <1>2, <1>4, FS_Subset
    <2> QED BY <2>1, SumType
  <1>9. ASSUME NEW a \in Int, NEW b \in Int, NEW c \in Int, NEW d \in Int
        PROVE  (a + b) + (c + d) = (a + c) + (b + d)
    BY <1>9
  <1> HIDE DEF Bad, R
  <1>10. Total(h, T)
           = (f[Pick(T)] + g[Pick(T)]) + (Total(f, R) + Total(g, R))
    BY <1>5, <1>6, <1>7
  <1> QED BY <1>2, <1>6, <1>7, <1>8, <1>9, <1>10

\* What is common to all amounts goes before the sum.
LEMMA SumScale ==
  ASSUME NEW f, NEW h, NEW c \in Int, NEW S, IsFiniteSet(S),
         \A x \in S : f[x] \in Int /\ h[x] = c * f[x]
  PROVE  Total(h, S) = c * Total(f, S)
  <1> DEFINE Bad == {T \in SUBSET S : Total(h, T) # c * Total(f, T)}
  <1> SUFFICES ASSUME Bad # {} PROVE FALSE
    OBVIOUS
  <1>1. PICK T \in Bad : \A U \in Bad : U \subseteq T => U = T
    <2>1. Bad \in SUBSET SUBSET S
      OBVIOUS
    <2> HIDE DEF Bad
    <2> QED BY <2>1, SmallestSubset
  <1>2. T \in SUBSET S /\ IsFiniteSet(T) /\ Total(h, T) # c * Total(f, T)
    BY FS_Subset
  <1>3. T # {}
    <2>1. Total(h, {}) = 0 /\ Total(f, {}) = 0
      BY SumEmpty
    <2>2. c * 0 = 0
      OBVIOUS
    <2>3. CASE T = {}
      BY <1>2, <2>1, <2>2, <2>3, Zenon
    <2> QED BY <2>3
  <1> DEFINE p == Pick(T)
             R == T \ {p}
  <1>4. p \in T /\ R # T /\ R \in SUBSET S /\ R \subseteq T /\ IsFiniteSet(R)
    BY <1>2, <1>3, PickIn, FS_Subset
  <1>5. Total(h, R) = c * Total(f, R)
    BY <1>1, <1>4
  <1>6. Total(f, R) \in Int
    BY <1>4, SumType
  <1>7. /\ Total(f, T) = f[p] + Total(f, R)
        /\ Total(h, T) = h[p] + Total(h, R)
    BY <1>2, <1>3, SumPick
  <1>8. f[p] \in Int /\ h[p] = c * f[p]
    BY <1>2, <1>4
  <1> HIDE DEF Bad, p, R
  <1>9. c * (f[p] + Total(f, R)) = c * f[p] + c * Total(f, R)
    BY <1>6, <1>8
  <1> QED BY <1>2, <1>5, <1>7, <1>8, <1>9

LEMMA SumPositive ==
  ASSUME NEW f, NEW S, IsFiniteSet(S), S # {}, \A x \in S : f[x] \in Nat \ {0}
  PROVE  Total(f, S) \in Nat \ {0}
  <1>1. Pick(S) \in S
    BY PickIn
  <1> DEFINE R == S \ {Pick(S)}
  <1>2. IsFiniteSet(R) /\ \A x \in R : f[x] \in Nat
    BY FS_Subset
  <1>3. Total(f, R) \in Nat
    BY <1>2, SumNonnegative
  <1>4. Total(f, S) = f[Pick(S)] + Total(f, R)
    BY SumPick
  <1> QED BY <1>1, <1>3, <1>4

\* A finite set has a member whose value is least, and one whose is greatest.
LEMMA LeastExists ==
  ASSUME NEW S, IsFiniteSet(S), S # {}, NEW f, \A x \in S : f[x] \in Int
  PROVE  \E m \in S : \A x \in S : f[m] <= f[x]
  <1> DEFINE Bad == {T \in SUBSET S : T # {} /\ ~ \E m \in T : \A x \in T : f[m] <= f[x]}
  <1> SUFFICES ASSUME Bad # {} PROVE FALSE
    OBVIOUS
  <1>1. PICK T \in Bad : \A U \in Bad : U \subseteq T => U = T
    <2>1. Bad \in SUBSET SUBSET S
      OBVIOUS
    <2> HIDE DEF Bad
    <2> QED BY <2>1, SmallestSubset
  <1>2. PICK y \in T : TRUE
    OBVIOUS
  <1> DEFINE R == T \ {y}
  <1>3. R \subseteq S /\ R # T /\ y \in S /\ R \subseteq T
    OBVIOUS
  <1>4. CASE R = {}
    <2>1. T = {y} /\ f[y] \in Int
      BY <1>3, <1>4
    <2>2. \A x \in T : f[y] <= f[x]
      BY <2>1
    <2> QED BY <2>1, <2>2
  <1>5. CASE R # {}
    <2>1. PICK m \in R : \A x \in R : f[m] <= f[x]
      BY <1>1, <1>3, <1>5
    <2>2. f[m] \in Int /\ f[y] \in Int /\ \A x \in R : f[x] \in Int
      BY <1>3, <2>1
    <2>3. CASE f[m] <= f[y]
      <3>1. \A x \in T : f[m] <= f[x]
        BY <2>1, <2>3
      <3> QED BY <2>1, <3>1
    <2>4. CASE f[y] <= f[m]
      <3>1. \A x \in R : f[y] <= f[x]
        BY <2>1, <2>2, <2>4
      <3>2. \A x \in T : f[y] <= f[x]
        BY <2>2, <3>1
      <3> QED BY <3>2
    <2> QED BY <2>2, <2>3, <2>4
  <1> QED BY <1>4, <1>5

LEMMA GreatestExists ==
  ASSUME NEW S, IsFiniteSet(S), S # {}, NEW f, \A x \in S : f[x] \in Int
  PROVE  \E m \in S : \A x \in S : f[x] <= f[m]
  <1> DEFINE g == [x \in S |-> 0 - f[x]]
  <1>1. \A x \in S : g[x] \in Int /\ g[x] = 0 - f[x]
    OBVIOUS
  <1> HIDE DEF g
  <1>2. PICK m \in S : \A x \in S : g[m] <= g[x]
    BY <1>1, LeastExists
  <1> QED BY <1>1, <1>2
============================================================================
