-------------------------- MODULE TradingDay_proofs --------------------------
(***************************************************************************)
(* The bound on held positions, the bounds of an order and the drawdown    *)
(* that latches, for every set of runs, every overlap and every value of   *)
(* the limits.                                                             *)
(***************************************************************************)
EXTENDS TradingDay, PortfolioLedger_proofs, FiniteSetTheorems, TLAPS

\* A set of positions in the list of rules has a first element.
LEMMA FirstRule ==
    ASSUME NEW S, S \subseteq 1..5, S # {}
    PROVE  \E k \in S : \A j \in S : k <= j
<1>1. CASE 1 \in S BY <1>1
<1>2. CASE 1 \notin S /\ 2 \in S BY <1>2
<1>3. CASE 1 \notin S /\ 2 \notin S /\ 3 \in S BY <1>3
<1>4. CASE 1 \notin S /\ 2 \notin S /\ 3 \notin S /\ 4 \in S BY <1>4
<1>5. CASE 1 \notin S /\ 2 \notin S /\ 3 \notin S /\ 4 \notin S
    <2>1. S \subseteq {5}
        <3> SUFFICES ASSUME NEW k \in S PROVE k \in {5}
            OBVIOUS
        <3>1. k \in 1..5 /\ k # 1 /\ k # 2 /\ k # 3 /\ k # 4
            BY <1>5
        <3> QED BY <3>1
    <2>2. PICK k : k \in S
        OBVIOUS
    <2> QED BY <2>1, <2>2
<1> QED BY <1>1, <1>2, <1>3, <1>4, <1>5

\* RiskManager.validate approves only what every rule approves; of the five
\* the day's loss, the drawdown and the limit on positions are needed here.
LEMMA ApprovedByRules ==
    ASSUME NEW c, NEW i, Validate(c, i) = "APPROVE"
    PROVE  /\ DailyLossRule(c, i) = "APPROVE"
           /\ DrawdownRule(c, i) = "APPROVE"
           /\ PositionsRule(c, i) = "APPROVE"
<1> DEFINE decisions == << MinConfidenceRule(c, i), DailyLossRule(c, i),
                           DrawdownRule(c, i), PositionsRule(c, i), ExposureRule(c, i) >>
           refusals == {k \in DOMAIN decisions : decisions[k] # "APPROVE"}
<1>1. refusals \subseteq 1..5
    OBVIOUS
<1>2. CASE refusals = {}
    <2>1. {2, 3, 4} \subseteq DOMAIN decisions
        OBVIOUS
    <2> QED BY <1>2, <2>1
<1>3. CASE refusals # {}
    <2>1. \E k \in refusals : \A j \in refusals : k <= j
        <3> HIDE DEF refusals
        <3> QED BY <1>1, <1>3, FirstRule
    <2>2. Min(refusals) \in refusals
        <3> HIDE DEF refusals
        <3> QED BY <2>1 DEF Min
    <2>3. decisions[Min(refusals)] = "APPROVE"
        BY <1>3 DEF Validate
    <2> QED BY <2>2, <2>3
<1> QED BY <1>2, <1>3
-----------------------------------------------------------------------------
States == {"idle", "submitting", "holding", "over"}
RunsTyped == pc \in [Runs -> States]

\* The numbers of holding and of submitting runs: when one run moves, one
\* number falls and another grows.
LEMMA Counting ==
    ASSUME RunsTyped, NEW r \in Runs, NEW s \in States,
           pc' = [pc EXCEPT ![r] = s], NEW t \in States
    PROVE  /\ Cardinality(At(t)) \in Nat /\ Cardinality(At(t)') \in Nat
           /\ t # s /\ t # pc[r] => At(t)' = At(t)
           /\ t = s /\ t # pc[r] => Cardinality(At(t)') = Cardinality(At(t)) + 1
           /\ t # s /\ t = pc[r] => Cardinality(At(t)') = Cardinality(At(t)) - 1
<1>1. IsFiniteSet(At(t)) /\ IsFiniteSet(At(t)')
    <2>1. At(t) \subseteq Runs /\ At(t)' \subseteq Runs
        BY DEF At
    <2> QED BY <2>1, DayAssumption, FS_Subset
<1>2. Cardinality(At(t)) \in Nat /\ Cardinality(At(t)') \in Nat
    BY <1>1, FS_CardinalityType
<1>3. t # s /\ t # pc[r] => At(t)' = At(t)
    BY DEF At, RunsTyped
<1>4. ASSUME t = s, t # pc[r]
      PROVE  Cardinality(At(t)') = Cardinality(At(t)) + 1
    <2>1. At(t)' = At(t) \cup {r} /\ r \notin At(t)
        BY <1>4 DEF At, RunsTyped
    <2> QED BY <2>1, <1>1, FS_AddElement
<1>5. ASSUME t # s, t = pc[r]
      PROVE  Cardinality(At(t)') = Cardinality(At(t)) - 1
    <2>1. At(t)' = At(t) \ {r} /\ r \in At(t)
        BY <1>5 DEF At, RunsTyped
    <2> QED BY <2>1, <1>1, FS_RemoveElement
<1> QED BY <1>2, <1>3, <1>4, <1>5

\* However many runs there are and however they overlap, held positions and
\* submitted orders together exceed the limit by at most the overlap less one.
THEOREM HeldPositionsBounded == Spec => []PositionsBounded
<1> DEFINE Inv == RunsTyped /\ PositionsBounded
<1>1. Init => Inv
    <2> SUFFICES ASSUME Init PROVE Inv
        OBVIOUS
    <2>1. RunsTyped
        BY DEF Init, RunsTyped, States
    <2>2. At("holding") = {} /\ At("submitting") = {}
        BY DEF Init, At
    <2> QED BY <2>1, <2>2, FS_EmptySet, LimitsAssumption, DayAssumption DEF PositionsBounded
<1>2. Inv /\ [Next]_vars => Inv'
    <2> SUFFICES ASSUME Inv, [Next]_vars PROVE Inv'
        OBVIOUS
    <2> DEFINE H == Cardinality(At("holding"))
               S == Cardinality(At("submitting"))
    <2>0. MaxPositions \in Nat /\ Overlap \in Nat
        BY LimitsAssumption, DayAssumption
    <2>1. ASSUME UNCHANGED pc PROVE Inv'
        BY <2>1 DEF RunsTyped, PositionsBounded, At
    <2>2. ASSUME NEW r \in Runs, NEW s \in States, pc' = [pc EXCEPT ![r] = s],
                 pc[r] = "idle" => s = "submitting" /\ H < MaxPositions /\ S < Overlap,
                 pc[r] = "submitting" => s \in {"holding", "over"},
                 pc[r] = "holding" => s = "over",
                 pc[r] # "over"
          PROVE  Inv'
        <3>1. RunsTyped'
            BY <2>2 DEF RunsTyped
        <3>2. pc[r] \in States
            BY DEF RunsTyped
        <3>3. /\ H \in Nat /\ H' \in Nat
              /\ "holding" # s /\ "holding" # pc[r] => H' = H
              /\ "holding" = s /\ "holding" # pc[r] => H' = H + 1
              /\ "holding" # s /\ "holding" = pc[r] => H' = H - 1
            BY <2>2, Counting DEF States
        <3>4. /\ S \in Nat /\ S' \in Nat
              /\ "submitting" # s /\ "submitting" # pc[r] => S' = S
              /\ "submitting" = s /\ "submitting" # pc[r] => S' = S + 1
              /\ "submitting" # s /\ "submitting" = pc[r] => S' = S - 1
            BY <2>2, Counting DEF States
        <3>5. H + S <= MaxPositions + Overlap - 1
            BY DEF PositionsBounded
        <3>6. H' + S' <= MaxPositions + Overlap - 1
            <4> HIDE DEF H, S
            <4>1. CASE pc[r] = "idle"
                BY <4>1, <2>0, <2>2, <3>3, <3>4
            <4>2. CASE pc[r] = "submitting"
                <5>1. S' = S - 1 /\ S \in Nat
                    BY <4>2, <2>2, <3>4
                <5>2. H' = H \/ H' = H + 1
                    BY <4>2, <2>2, <3>3
                <5>3. H \in Nat
                    BY <3>3
                <5> QED BY <5>1, <5>2, <5>3, <2>0, <3>5
            <4>3. CASE pc[r] = "holding"
                BY <4>3, <2>0, <2>2, <3>3, <3>4, <3>5
            <4> QED BY <4>1, <4>2, <4>3, <3>2, <2>2 DEF States
        <3> QED BY <3>1, <3>6 DEF PositionsBounded
    <2>3. ASSUME NEW r \in Runs, Submit(r) PROVE Inv'
        <3>1. PICK i \in Intents, m \in Markets : Accepts(i, m)
            BY <2>3 DEF Submit
        <3>2. Validate(Context(i), i) = "APPROVE"
            BY <3>1 DEF Accepts
        <3>3. PositionsRule(Context(i), i) = "APPROVE"
            BY <3>2, ApprovedByRules
        <3>4. ~(H >= MaxPositions)
            BY <3>3 DEF PositionsRule, Context
        <3>5. H \in Nat
            <4>1. At("holding") \subseteq Runs
                BY DEF At
            <4> QED BY <4>1, DayAssumption, FS_Subset, FS_CardinalityType
        <3>6. pc[r] = "idle" /\ S < Overlap /\ pc' = [pc EXCEPT ![r] = "submitting"]
            BY <2>3 DEF Submit
        <3>7. H < MaxPositions
            <4> HIDE DEF H
            <4> QED BY <3>4, <3>5, <2>0
        <3> QED BY <3>6, <3>7, <2>2 DEF States
    <2>4. ASSUME NEW r \in Runs, Fill(r) PROVE Inv'
        BY <2>4, <2>2 DEF Fill, States
    <2>5. ASSUME NEW r \in Runs, LoseFill(r) PROVE Inv'
        BY <2>5, <2>2 DEF LoseFill, States
    <2>6. ASSUME NEW r \in Runs, Close(r) PROVE Inv'
        BY <2>6, <2>2 DEF Close, States
    <2>7. CASE Refuse \/ NewDay \/ Reset \/ ResetFails \/ RestartTask
        <3>1. UNCHANGED pc
            BY <2>7 DEF Refuse, NewDay, Reset, ResetFails, RestartTask, runVars
        <3> QED BY <3>1, <2>1
    <2>8. CASE RestartApplication
        <3>1. RunsTyped'
            BY <2>8 DEF RestartApplication, RunsTyped, States
        <3>2. At("holding")' = At("holding") /\ At("submitting")' = {}
            BY <2>8 DEF RestartApplication, At
        <3>3. S \in Nat /\ H \in Nat
            <4>1. At("submitting") \subseteq Runs /\ At("holding") \subseteq Runs
                BY DEF At
            <4> QED BY <4>1, DayAssumption, FS_Subset, FS_CardinalityType
        <3>4. H' = H /\ S' = 0
            BY <3>2, FS_EmptySet
        <3>5. H + S <= MaxPositions + Overlap - 1
            BY DEF PositionsBounded
        <3>6. H' + S' <= MaxPositions + Overlap - 1
            <4> HIDE DEF H, S
            <4> QED BY <2>0, <3>3, <3>4, <3>5
        <3> QED BY <3>1, <3>6 DEF PositionsBounded
    <2>9. CASE UNCHANGED vars
        BY <2>9, <2>1 DEF vars, runVars
    <2> QED BY <2>3, <2>4, <2>5, <2>6, <2>7, <2>8, <2>9 DEF Next
<1> QED BY <1>1, <1>2, PTL DEF Spec

-----------------------------------------------------------------------------
\* Decimal.quantize misses the exact quotient by half a quantum at most.
LEMMA HalfEvenRounds ==
    ASSUME NEW n \in Nat, NEW d \in Nat \ {0}
    PROVE  /\ HalfEven(n, d) \in Int
           /\ 2 * (d * HalfEven(n, d)) <= 2 * n + d
           /\ 2 * (d * HalfEven(n, d)) + d >= 2 * n
<1> DEFINE q == n \div d
           r == n % d
<1>1. q \in Int /\ r \in Int /\ 0 <= r /\ r < d /\ n = d * q + r
    OBVIOUS
<1>2. HalfEven(n, d) = IF 2 * r > d \/ (2 * r = d /\ q % 2 = 1) THEN q + 1 ELSE q
    BY DEF HalfEven
<1> HIDE DEF q, r
<1>3. d * (q + 1) = d * q + d /\ d * q \in Int
    BY <1>1
<1>4. CASE HalfEven(n, d) = q /\ 2 * r <= d
    BY <1>1, <1>3, <1>4
<1>5. CASE HalfEven(n, d) = q + 1 /\ 2 * r >= d
    BY <1>1, <1>3, <1>5
<1>6. (2 * r > d) \/ 2 * r = d \/ 2 * r < d
    BY <1>1
<1> QED BY <1>1, <1>2, <1>4, <1>5, <1>6

LEMMA LeastOfThree ==
    ASSUME NEW a \in Int, NEW b \in Int, NEW c \in Int
    PROVE  Min({a, b, c}) \in {a, b, c} /\ \A x \in {a, b, c} : Min({a, b, c}) <= x
<1>1. \E x \in {a, b, c} : \A y \in {a, b, c} : x <= y
    <2>1. CASE a <= b /\ a <= c BY <2>1
    <2>2. CASE b <= a /\ b <= c BY <2>2
    <2>3. CASE c <= a /\ c <= b BY <2>3
    <2> QED BY <2>1, <2>2, <2>3
<1> QED BY <1>1 DEF Min

\* A quotient of the sizing, n over 100-fold or more of the entry, gives a
\* value within half a quantum of n over that multiple.
LEMMA ValueRounds ==
    ASSUME NEW n \in Nat, NEW k \in Nat \ {0}, NEW e \in Nat \ {0}
    PROVE  /\ HalfEven(n, k * e) \in Int
           /\ k * (2 * (HalfEven(n, k * e) * e) - e) <= 2 * n
           /\ k * (2 * (HalfEven(n, k * e) * e) + e) >= 2 * n
<1> DEFINE h == HalfEven(n, k * e)
<1>1. k * e \in Nat \ {0}
    OBVIOUS
<1>2. h \in Int /\ 2 * ((k * e) * h) <= 2 * n + k * e /\ 2 * ((k * e) * h) + k * e >= 2 * n
    BY <1>1, HalfEvenRounds
<1> HIDE DEF h
<1>3. /\ k * (2 * (h * e) - e) = 2 * ((k * e) * h) - k * e
      /\ k * (2 * (h * e) + e) = 2 * ((k * e) * h) + k * e
    BY <1>2
<1> QED BY <1>1, <1>2, <1>3 DEF h

\* CapitalManager.calculate_size and step 5 of execute: the limits are checked
\* on exact values before the quantity is rounded, and the rounded order still
\* fits the balance, and misses the minimum notional and what its symbol may
\* take by half a quantum at most.
THEOREM SizingInBounds ==
    ASSUME NEW c, NEW i, Sizeable(c, i), Affordable(c, i),
           {c.total, c.available, c.exposure} \subseteq Int,
           {i.entry, i.stop, i.confidence} \subseteq Nat
    PROVE  LET value == Quantity(c, i) * i.entry
           IN  /\ Quantity(c, i) \in Int /\ value \in Int /\ value <= c.available
               /\ 2 * value + i.entry >= 2 * MinNotional
               /\ 100 * (2 * value - i.entry) <= 2 * RemainingExposure(c)
<1> DEFINE e == i.entry
           room == RemainingExposure(c)
           n1 == c.available * RiskPerTrade * i.confidence
           k1 == 1000 * Magnitude(i.entry - i.stop)
           h1 == HalfEven(n1 * e, k1 * e)
           h2 == HalfEven(room, 100 * e)
           h3 == HalfEven(c.available, 1 * e)
           q == Quantity(c, i)
<1>1. /\ e \in Nat \ {0} /\ room \in Nat \ {0} /\ c.available \in Nat \ {0}
      /\ MinNotional \in Nat /\ RiskPerTrade \in Nat /\ i.confidence \in Nat
    BY LimitsAssumption DEF Sizeable, RemainingExposure
<1>2. k1 \in Nat \ {0}
    <2>1. i.entry \in Nat /\ i.stop \in Nat /\ i.entry # i.stop
        BY DEF Sizeable
    <2> QED BY <2>1 DEF Magnitude
<1>3. n1 \in Nat /\ n1 * e \in Nat
    BY <1>1
<1>4. /\ n1 * e >= MinNotional * k1 /\ room >= MinNotional * 100
      /\ c.available >= MinNotional * 1
    BY DEF Sizeable, PositionValues
<1>5. q = Min({h1, h2, h3})
    <2> DEFINE v1 == << n1 * e, k1 >>
               v2 == << room, 100 >>
               v3 == << c.available, 1 >>
               H(v) == HalfEven(v[1], v[2] * e)
    <2>1. PositionValues(c, i) = {v1, v2, v3}
        BY DEF PositionValues
    <2>2. q = Min({H(v) : v \in PositionValues(c, i)})
        BY DEF Quantity
    <2>3. H(v1) = h1 /\ H(v2) = h2 /\ H(v3) = h3
        OBVIOUS
    <2> HIDE DEF v1, v2, v3, H, h1, h2, h3, q
    <2>4. {H(v) : v \in {v1, v2, v3}} = {H(v1), H(v2), H(v3)}
        OBVIOUS
    <2> QED BY <2>1, <2>2, <2>3, <2>4
<1>6. c.available >= q * e
    BY DEF Affordable
<1> HIDE DEF n1, k1, room, q, e
<1>7. /\ h1 \in Int /\ k1 * (2 * (h1 * e) + e) >= 2 * (n1 * e)
      /\ h2 \in Int /\ 100 * (2 * (h2 * e) + e) >= 2 * room
      /\ 100 * (2 * (h2 * e) - e) <= 2 * room
      /\ h3 \in Int /\ 1 * (2 * (h3 * e) + e) >= 2 * c.available
    <2>1. h1 \in Int /\ k1 * (2 * (h1 * e) + e) >= 2 * (n1 * e)
        BY <1>1, <1>2, <1>3, ValueRounds
    <2>2. 100 \in Nat \ {0} /\ 1 \in Nat \ {0} /\ room \in Nat /\ c.available \in Nat
        BY <1>1
    <2>3. /\ h2 \in Int /\ 100 * (2 * (h2 * e) + e) >= 2 * room
          /\ 100 * (2 * (h2 * e) - e) <= 2 * room
        BY <1>1, <2>2, ValueRounds
    <2>4. h3 \in Int /\ 1 * (2 * (h3 * e) + e) >= 2 * c.available
        BY <1>1, <2>2, ValueRounds
    <2> QED BY <2>1, <2>3, <2>4
<1> HIDE DEF h1, h2, h3
<1>8. q \in {h1, h2, h3} /\ q \in Int /\ q <= h2
    BY <1>5, <1>7, LeastOfThree
<1>9. q * e \in Int /\ h2 * e \in Int /\ q * e <= h2 * e
    BY <1>1, <1>7, <1>8
<1>10. ASSUME NEW h \in Int, NEW k \in Nat \ {0}, NEW n \in Int,
              k * (2 * (h * e) + e) >= 2 * n, n >= MinNotional * k
       PROVE  2 * (h * e) + e >= 2 * MinNotional
    <2> DEFINE x == 2 * (h * e) + e
    <2>1. x \in Int
        BY <1>1
    <2>2. k * x >= k * (2 * MinNotional)
        BY <1>10, <1>1
    <2> HIDE DEF x
    <2>3. ASSUME x < 2 * MinNotional PROVE FALSE
        <3>1. x + 1 <= 2 * MinNotional /\ 2 * MinNotional \in Int
            BY <1>1, <2>1, <2>3
        <3>2. k * (x + 1) <= k * (2 * MinNotional) /\ k * (x + 1) = k * x + k
            BY <2>1, <3>1
        <3> QED BY <1>1, <2>1, <2>2, <3>2
    <2> QED BY <1>1, <2>1, <2>3 DEF x
<1>11. /\ 2 * (h1 * e) + e >= 2 * MinNotional
       /\ 2 * (h2 * e) + e >= 2 * MinNotional
       /\ 2 * (h3 * e) + e >= 2 * MinNotional
    BY <1>1, <1>2, <1>3, <1>4, <1>7, <1>10
<1>12. 2 * (q * e) + e >= 2 * MinNotional
    BY <1>8, <1>11
<1>13. 100 * (2 * (q * e) - e) <= 2 * room
    BY <1>1, <1>7, <1>9
<1> QED BY <1>6, <1>8, <1>9, <1>12, <1>13 DEF q, e, room

-----------------------------------------------------------------------------
Typed ==
    /\ RunsTyped
    /\ portfolio \in Portfolios
    /\ order = [r \in Runs |-> order[r]] /\ position = [r \in Runs |-> position[r]]
    /\ \A r \in Runs : pc[r] = "submitting" =>
            order[r].quantity \in Int /\ order[r].intent.entry \in Nat
    /\ \A r \in Runs : pc[r] = "holding" =>
            position[r].quantity \in Int /\ position[r].entry \in Int

LEMMA HoldingFinite ==
    ASSUME NEW S, S \subseteq At("holding")
    PROVE  IsFiniteSet(S)
<1>1. S \subseteq Runs
    BY DEF At
<1> QED BY <1>1, DayAssumption, FS_Subset

\* get_total_exposure_by_symbol returns a number.
LEMMA ExposureTyped ==
    ASSUME Typed, NEW symbol
    PROVE  Exposure(symbol) \in Int
<1> DEFINE S == {r \in At("holding") : position[r].symbol = symbol}
<1>1. \A r \in S : EntryValue[r] \in Int
    BY DEF Typed, EntryValue, At
<1>2. IsFiniteSet(S)
    BY HoldingFinite
<1> QED BY <1>1, <1>2, SumType DEF Exposure

\* What is accepted is sized with numbers.
LEMMA AcceptedSized ==
    ASSUME Typed, NEW i \in Intents, NEW m, Accepts(i, m)
    PROVE  LET value == Quantity(Context(i), i) * i.entry
           IN  /\ i.entry \in Nat /\ Quantity(Context(i), i) \in Int
               /\ value \in Int /\ value <= portfolio.available
               /\ 2 * value + i.entry >= 2 * MinNotional
               /\ 100 * (2 * value - i.entry) <= 2 * RemainingExposure(Context(i))
<1> DEFINE c == Context(i)
<1>1. {c.total, c.available, c.exposure} \subseteq Int /\ c.available = portfolio.available
    BY ExposureTyped DEF Context, Typed, Portfolios
<1>2. {i.entry, i.stop, i.confidence} \subseteq Nat
    BY IntentsAssumption DEF Accepts, StopsSound
<1>3. Sizeable(c, i) /\ Affordable(c, i)
    BY DEF Accepts
<1>4. c.available = portfolio.available /\ c = Context(i)
    BY <1>1
<1> HIDE DEF c
<1> QED BY <1>1, <1>2, <1>3, <1>4, SizingInBounds

\* A fill's price is a number.
LEMMA FillPriceTyped ==
    ASSUME NEW o, o.intent.entry \in Nat, NEW price \in FillPrices(o)
    PROVE  price \in Int
<1>1. PICK cached \in CachedPrices \cup {o.intent.entry} :
        price \in {cached + HalfEven(cached * Slippage, 10000),
                  cached - HalfEven(cached * Slippage, 10000)}
    BY DEF FillPrices
<1>2. cached \in Nat /\ cached * Slippage \in Nat /\ 10000 \in Nat \ {0}
    BY IntentsAssumption, DayAssumption
<1>3. HalfEven(cached * Slippage, 10000) \in Int
    BY <1>2, HalfEvenRounds
<1> HIDE DEF HalfEven
<1> QED BY <1>1, <1>2, <1>3

\* A step of one run leaves the numbers numbers, and never lowers the drawdown.
LEMMA StepTyped ==
    ASSUME Typed, [Next]_vars
    PROVE  Typed' /\ portfolio'.maxDrawdown >= portfolio.maxDrawdown
<1>0. portfolio.maxDrawdown \in Nat
    BY DEF Typed, Portfolios
<1>1. ASSUME NEW r \in Runs, Submit(r)
      PROVE  Typed' /\ portfolio'.maxDrawdown >= portfolio.maxDrawdown
    <2>1. PICK i \in Intents, m \in Markets :
            /\ Accepts(i, m)
            /\ order' = [order EXCEPT ![r] =
                    [intent |-> i, quantity |-> Quantity(Context(i), i),
                     seen |-> portfolio.available]]
        BY <1>1 DEF Submit
    <2>2. i.entry \in Nat /\ Quantity(Context(i), i) \in Int
        BY <2>1, AcceptedSized
    <2>3. pc' = [pc EXCEPT ![r] = "submitting"] /\ UNCHANGED <<position, portfolio>>
        BY <1>1 DEF Submit
    <2>4. /\ order'[r].quantity \in Int /\ order'[r].intent.entry \in Nat
          /\ \A t \in Runs \ {r} : order'[t] = order[t] /\ pc'[t] = pc[t]
          /\ pc'[r] = "submitting" /\ order' = [t \in Runs |-> order'[t]]
        BY <2>1, <2>2, <2>3 DEF Typed, RunsTyped
    <2>5. RunsTyped'
        BY <2>3 DEF Typed, RunsTyped, States
    <2> QED BY <1>0, <2>3, <2>4, <2>5 DEF Typed
<1>2. ASSUME NEW r \in Runs, Fill(r)
      PROVE  Typed' /\ portfolio'.maxDrawdown >= portfolio.maxDrawdown
    <2>1. PICK price \in FillPrices(order[r]) :
            /\ position' = [position EXCEPT ![r] = Opened(order[r], price)]
            /\ portfolio' = Booked(order[r], price)
        BY <1>2 DEF Fill
    <2>2. order[r].quantity \in Int /\ order[r].intent.entry \in Nat
        BY <1>2 DEF Fill, Typed
    <2>3. price \in Int
        BY <2>2, FillPriceTyped
    <2>4. price * order[r].quantity \in Int
        BY <2>2, <2>3
    <2>5. portfolio' \in Portfolios /\ portfolio'.maxDrawdown = portfolio.maxDrawdown
        <3>1. CASE portfolio' = portfolio
            BY <3>1 DEF Typed
        <3>2. CASE portfolio' = RecordFill(portfolio, price * order[r].quantity)
            <4>1. portfolio' \in Portfolios
                BY <2>4, <3>2, RecordFillSound DEF Typed
            <4>2. portfolio'.maxDrawdown = portfolio.maxDrawdown
                BY <3>2 DEF RecordFill, Typed, Portfolios
            <4> QED BY <4>1, <4>2
        <3> QED BY <2>1, <3>1, <3>2 DEF Booked
    <2>6. /\ position'[r].quantity \in Int /\ position'[r].entry \in Int
          /\ \A t \in Runs \ {r} : position'[t] = position[t]
          /\ position' = [t \in Runs |-> position'[t]]
        BY <2>1, <2>2, <2>3 DEF Opened, Typed
    <2>7. /\ pc' = [pc EXCEPT ![r] = "holding"]
          /\ order' = [order EXCEPT ![r] = NoOrder]
        BY <1>2 DEF Fill
    <2>8. /\ RunsTyped' /\ order' = [t \in Runs |-> order'[t]]
          /\ pc'[r] = "holding"
          /\ \A t \in Runs \ {r} : order'[t] = order[t] /\ pc'[t] = pc[t]
        BY <2>7 DEF Typed, RunsTyped, States
    <2> QED BY <1>0, <2>5, <2>6, <2>8 DEF Typed
<1>3. ASSUME NEW r \in Runs, LoseFill(r) \/ Close(r)
      PROVE  Typed' /\ portfolio'.maxDrawdown >= portfolio.maxDrawdown
    <2>1. /\ pc' = [pc EXCEPT ![r] = "over"]
          /\ order' = order \/ order' = [order EXCEPT ![r] = NoOrder]
          /\ position' = position \/ position' = [position EXCEPT ![r] = NoPosition]
        BY <1>3 DEF LoseFill, Close
    <2>2. /\ RunsTyped' /\ pc'[r] = "over"
          /\ order' = [t \in Runs |-> order'[t]] /\ position' = [t \in Runs |-> position'[t]]
          /\ \A t \in Runs \ {r} :
                order'[t] = order[t] /\ position'[t] = position[t] /\ pc'[t] = pc[t]
        BY <2>1 DEF Typed, RunsTyped, States
    <2>3. portfolio' \in Portfolios /\ portfolio'.maxDrawdown >= portfolio.maxDrawdown
        <3>1. CASE LoseFill(r)
            BY <1>0, <3>1 DEF LoseFill, Typed
        <3>2. CASE Close(r)
            <4>1. PICK price \in ExitPrices :
                    portfolio' = RecordClose(portfolio, EntryValue[r],
                                    (price - position[r].entry) * position[r].quantity)
                BY <3>2 DEF Close
            <4>2. price \in Int /\ position[r].quantity \in Int /\ position[r].entry \in Int
                BY <3>2, IntentsAssumption DEF Close, Typed
            <4>3. /\ EntryValue[r] \in Int
                  /\ (price - position[r].entry) * position[r].quantity \in Int
                BY <3>2, <4>2 DEF EntryValue, Close, At
            <4> QED BY <4>1, <4>3, DrawdownNeverFalls DEF Typed
        <3> QED BY <1>3, <3>1, <3>2
    <2> QED BY <2>2, <2>3 DEF Typed
<1>4. CASE Refuse \/ NewDay \/ Reset \/ ResetFails \/ RestartTask \/ UNCHANGED vars
    <2>1. UNCHANGED runVars /\ (portfolio' = portfolio \/ portfolio' = ResetDailyPnl(portfolio))
        BY <1>4 DEF Refuse, NewDay, Reset, ResetFails, RestartTask, vars
    <2>2. portfolio' \in Portfolios /\ portfolio'.maxDrawdown = portfolio.maxDrawdown
        BY <2>1 DEF ResetDailyPnl, Typed, Portfolios
    <2> QED BY <1>0, <2>1, <2>2 DEF Typed, RunsTyped, runVars
<1>5. CASE RestartApplication
    <2>1. /\ pc' = [r \in Runs |-> IF pc[r] = "submitting" THEN "over" ELSE pc[r]]
          /\ order' = [r \in Runs |-> NoOrder]
          /\ UNCHANGED <<position, portfolio>>
        BY <1>5 DEF RestartApplication
    <2>2. RunsTyped' /\ \A r \in Runs : pc'[r] # "submitting"
        BY <2>1 DEF Typed, RunsTyped, States
    <2>3. \A r \in Runs : pc'[r] = "holding" => pc[r] = "holding"
        BY <2>1
    <2> QED BY <1>0, <2>1, <2>2, <2>3 DEF Typed
<1> QED BY <1>1, <1>2, <1>3, <1>4, <1>5 DEF Next

LEMMA SpecTyped == Spec => []Typed
<1>1. Init => Typed
    <2> SUFFICES ASSUME Init PROVE Typed
        OBVIOUS
    <2>1. portfolio \in Portfolios
        BY NewPortfolioSound, DayAssumption DEF Init
    <2> QED BY <2>1 DEF Init, Typed, RunsTyped, States
<1>2. Typed /\ [Next]_vars => Typed'
    BY StepTyped
<1> QED BY <1>1, <1>2, PTL DEF Spec

\* MaxDrawdownRule and record_close: once the drawdown on record is near its
\* limit no order is submitted any more, whatever is earned, reset or restarted.
THEOREM DrawdownLatchesHolds == Spec => DrawdownLatches
<1>1. ASSUME Typed, [Next]_vars
      PROVE  [NearMaxDrawdown(portfolio.maxDrawdown) =>
                /\ NearMaxDrawdown(portfolio'.maxDrawdown)
                /\ \A r \in Runs : pc'[r] = "submitting" => pc[r] = "submitting"]_vars
    <2> SUFFICES ASSUME NearMaxDrawdown(portfolio.maxDrawdown), Next
                 PROVE  /\ NearMaxDrawdown(portfolio'.maxDrawdown)
                        /\ \A r \in Runs : pc'[r] = "submitting" => pc[r] = "submitting"
        BY <1>1
    <2>1. NearMaxDrawdown(portfolio'.maxDrawdown)
        <3>1. portfolio'.maxDrawdown >= portfolio.maxDrawdown /\ Typed'
            BY <1>1, StepTyped
        <3>2. portfolio'.maxDrawdown \in Nat /\ portfolio.maxDrawdown \in Nat
              /\ MaxDrawdown \in Nat
            BY <1>1, <3>1, LimitsAssumption DEF Typed, Portfolios
        <3> QED BY <3>1, <3>2 DEF NearMaxDrawdown
    <2>2. ASSUME NEW r \in Runs PROVE ~Submit(r)
        <3> SUFFICES ASSUME Submit(r) PROVE FALSE
            OBVIOUS
        <3>1. PICK i \in Intents, m \in Markets : Accepts(i, m)
            BY DEF Submit
        <3>2. DrawdownRule(Context(i), i) = "APPROVE"
            BY <3>1, ApprovedByRules DEF Accepts
        <3> QED BY <3>2 DEF DrawdownRule, Context
    <2>3. \A r \in Runs : pc'[r] = "submitting" => pc[r] = "submitting"
        BY <1>1, <2>2 DEF Next, Fill, LoseFill, Close, Refuse, RestartApplication, NewDay, Reset,
           ResetFails, RestartTask, runVars, Typed, RunsTyped
    <2> QED BY <2>1, <2>3
<1> QED BY <1>1, SpecTyped, PTL DEF Spec, DrawdownLatches

\* The days, the daily task and the breaker.
DayTyped ==
    /\ breaker \in BOOLEAN /\ turned \in BOOLEAN
    /\ task \in {"running", "dead"} /\ lastReset \in {"never", "today", "earlier"}
    /\ dayPnl \in Int
    /\ restartsToday \in Nat /\ days \in Nat /\ restarts \in Nat

LEMMA DayTypedStep ==
    ASSUME Typed, DayTyped, [Next]_vars
    PROVE  DayTyped'
<1> USE DEF DayTyped, dayVars
<1>1. CASE \E r \in Runs : Submit(r) \/ Fill(r) \/ LoseFill(r)
    BY <1>1 DEF Submit, Fill, LoseFill
<1>2. ASSUME NEW r \in Runs, Close(r) PROVE DayTyped'
    <2>1. PICK price \in ExitPrices :
            dayPnl' = dayPnl + (price - position[r].entry) * position[r].quantity
        BY <1>2 DEF Close
    <2>2. price \in Int /\ position[r].entry \in Int /\ position[r].quantity \in Int
        BY <1>2, IntentsAssumption DEF Close, Typed
    <2>3. (price - position[r].entry) * position[r].quantity \in Int
        BY <2>2
    <2>4. dayPnl' \in Int
        BY <2>1, <2>3
    <2> QED BY <1>2, <2>4 DEF Close
<1>3. CASE Refuse
    BY <1>3 DEF Refuse
<1>4. CASE RestartApplication
    BY <1>4 DEF RestartApplication
<1>5. CASE NewDay
    BY <1>5 DEF NewDay
<1>6. CASE Reset
    <2>1. dayPnl' \in Int /\ restartsToday' \in Nat
        BY <1>6 DEF Reset
    <2>2. lastReset' = "today" /\ turned' = FALSE /\ UNCHANGED <<breaker, task, days, restarts>>
        BY <1>6 DEF Reset
    <2> QED BY <2>1, <2>2
<1>7. CASE ResetFails \/ RestartTask
    BY <1>7 DEF ResetFails, RestartTask
<1>8. CASE UNCHANGED vars
    BY <1>8 DEF vars
<1> QED BY <1>1, <1>2, <1>3, <1>4, <1>5, <1>6, <1>7, <1>8 DEF Next

\* Runs, row, breaker, days and the daily task keep their types; in particular no
\* number of a row is undefined, whatever is filled, closed or reset.
THEOREM TypeCorrect == Spec => []TypeOK
<1>1. Init => DayTyped
    <2>1. Init => dayPnl \in Int /\ restartsToday \in Nat /\ days \in Nat /\ restarts \in Nat
        BY DEF Init
    <2>2. Init => /\ breaker = FALSE /\ turned = FALSE
                  /\ task = "running" /\ lastReset = "today"
        BY DEF Init
    <2> QED BY <2>1, <2>2, Zenon DEF DayTyped
<1>2. Typed /\ DayTyped /\ [Next]_vars => DayTyped'
    BY DayTypedStep
<1>3. Typed /\ DayTyped => TypeOK
    BY DEF Typed, RunsTyped, States, DayTyped, TypeOK
<1> QED BY <1>1, <1>2, <1>3, SpecTyped, PTL DEF Spec

\* Every order that is submitted fits the balance, and the other limits of
\* the sizing up to half a quantum.
THEOREM OrdersInBoundsHolds == Spec => OrdersInBounds
<1>1. ASSUME Typed, [Next]_vars
      PROVE  [\A r \in Runs : pc[r] # pc'[r] /\ pc'[r] = "submitting"
                                => SubmitsInBounds(r)]_vars
    <2> SUFFICES ASSUME Next, NEW r \in Runs, pc[r] # pc'[r], pc'[r] = "submitting"
                 PROVE  SubmitsInBounds(r)
        BY <1>1
    <2>1. Submit(r)
        <3>1. \E t \in Runs : Submit(t)
            BY <1>1 DEF Next, Fill, LoseFill, Close, Refuse, RestartApplication, NewDay, Reset,
               ResetFails, RestartTask, runVars, Typed, RunsTyped
        <3> QED BY <1>1, <3>1 DEF Submit, Typed, RunsTyped
    <2>2. PICK i \in Intents, m \in Markets :
            /\ Accepts(i, m)
            /\ order' = [order EXCEPT ![r] =
                    [intent |-> i, quantity |-> Quantity(Context(i), i),
                     seen |-> portfolio.available]]
        BY <2>1 DEF Submit
    <2>3. order'[r].intent = i /\ order'[r].quantity = Quantity(Context(i), i)
        BY <1>1, <2>2 DEF Typed
    <2> QED BY <1>1, <2>2, <2>3, AcceptedSized DEF SubmitsInBounds
<1> QED BY <1>1, SpecTyped, PTL DEF Spec, OrdersInBounds

-----------------------------------------------------------------------------
\* The loss of a day.  Two facts about the outside world are needed: positions
\* are closed at their stops at worst, and WorstRisk is what its comment says.
ExitsAtStops ==
    \A i \in Intents, price \in ExitPrices : i.stop < i.target => i.stop <= price
RisksBounded == \A r \in At("holding") : StopRisk[r] <= WorstRisk

\* The row is balanced, and the numbers of an order or a position fit.
Sound ==
    /\ Balanced(portfolio) /\ portfolio.total >= 0
    /\ \A r \in Runs : pc[r] = "submitting" =>
            order[r].quantity >= 0 /\ order[r].intent \in Intents
    /\ \A r \in Runs : pc[r] = "holding" =>
            /\ position[r].quantity >= 0
            /\ position[r].stop \in Int /\ position[r].stop < position[r].entry
            /\ \A price \in ExitPrices : position[r].stop <= price

\* A quantity that is accepted is not negative.
LEMMA QuantityNonnegative ==
    ASSUME Typed, NEW i \in Intents, NEW m, Accepts(i, m)
    PROVE  Quantity(Context(i), i) \in Nat
<1> DEFINE q == Quantity(Context(i), i)
           e == i.entry
<1>1. /\ e \in Nat /\ q \in Int /\ q * e \in Int
      /\ 2 * (q * e) + e >= 2 * MinNotional
    BY AcceptedSized
<1>2. e > 0 /\ MinNotional \in Nat
    BY LimitsAssumption DEF Accepts, StopsSound
<1> HIDE DEF q, e
<1>3. ASSUME q <= -1 PROVE FALSE
    <2>1. q * e <= (-1) * e
        BY <1>1, <1>2, <1>3
    <2> QED BY <1>1, <1>2, <2>1
<1>4. q \in Nat
    BY <1>1, <1>3
<1> QED BY <1>4 DEF q

LEMMA SoundStep ==
    ASSUME ExitsAtStops, Typed, Sound, [Next]_vars
    PROVE  Sound'
<1> USE DEF Typed, RunsTyped
<1>1. ASSUME NEW r \in Runs, Submit(r) PROVE Sound'
    <2>1. PICK i \in Intents, m \in Markets :
            /\ Accepts(i, m)
            /\ order' = [order EXCEPT ![r] =
                    [intent |-> i, quantity |-> Quantity(Context(i), i),
                     seen |-> portfolio.available]]
        BY <1>1 DEF Submit
    <2>2. Quantity(Context(i), i) \in Nat
        BY <2>1, QuantityNonnegative
    <2>3. /\ order'[r].quantity >= 0 /\ order'[r].intent \in Intents
          /\ \A t \in Runs \ {r} : order'[t] = order[t] /\ pc'[t] = pc[t]
          /\ pc'[r] = "submitting"
        BY <1>1, <2>1, <2>2 DEF Submit
    <2>4. UNCHANGED <<position, portfolio>>
        BY <1>1 DEF Submit
    <2> QED BY <2>3, <2>4 DEF Sound
<1>2. ASSUME NEW r \in Runs, Fill(r) PROVE Sound'
    <2>1. PICK price \in FillPrices(order[r]) :
            /\ RowAccepted(Opened(order[r], price))
            /\ SatisfiesChecks(Booked(order[r], price))
            /\ position' = [position EXCEPT ![r] = Opened(order[r], price)]
            /\ portfolio' = Booked(order[r], price)
        BY <1>2 DEF Fill
    <2>2. /\ order[r].quantity \in Int /\ order[r].quantity >= 0
          /\ order[r].intent.entry \in Nat /\ order[r].intent \in Intents
        BY <1>2 DEF Fill, Sound
    <2>3. price \in Int /\ price * order[r].quantity \in Int
        BY <2>2, FillPriceTyped
    <2>4. Balanced(portfolio') /\ portfolio'.total >= 0
        <3>1. Balanced(portfolio')
            BY <2>1, <2>3, RecordFillSound DEF Booked, Sound
        <3> QED BY <2>1, <3>1 DEF SatisfiesChecks
    <2>5. position'[r] = Opened(order[r], price)
        BY <2>1
    <2>6. /\ position'[r].quantity >= 0
          /\ position'[r].stop \in Int /\ position'[r].stop < position'[r].entry
          /\ \A exit \in ExitPrices : position'[r].stop <= exit
        <3>1. order[r].intent.stop \in Int /\ order[r].intent.target \in Int
            BY <2>2, IntentsAssumption
        <3>2. order[r].intent.stop < price /\ price < order[r].intent.target
            BY <2>1 DEF RowAccepted, Opened
        <3>3. order[r].intent.stop < order[r].intent.target
            BY <2>3, <3>1, <3>2
        <3> QED BY <2>2, <2>5, <3>1, <3>2, <3>3 DEF Opened, ExitsAtStops
    <2>7. /\ pc'[r] = "holding"
          /\ \A t \in Runs \ {r} :
                order'[t] = order[t] /\ position'[t] = position[t] /\ pc'[t] = pc[t]
        BY <1>2, <2>1 DEF Fill
    <2> QED BY <2>4, <2>6, <2>7 DEF Sound
<1>3. ASSUME NEW r \in Runs, LoseFill(r) PROVE Sound'
    <2>1. /\ pc'[r] = "over" /\ UNCHANGED <<position, portfolio>>
          /\ \A t \in Runs \ {r} : order'[t] = order[t] /\ pc'[t] = pc[t]
        BY <1>3 DEF LoseFill
    <2> QED BY <2>1 DEF Sound
<1>4. ASSUME NEW r \in Runs, Close(r) PROVE Sound'
    <2>1. PICK price \in ExitPrices :
            LET pnl == (price - position[r].entry) * position[r].quantity
                closed == RecordClose(portfolio, EntryValue[r], pnl)
            IN  SatisfiesChecks(closed) /\ portfolio' = closed
        BY <1>4 DEF Close
    <2>2. /\ EntryValue[r] \in Int
          /\ (price - position[r].entry) * position[r].quantity \in Int
        <3>1. /\ price \in Int /\ position[r].quantity \in Int
              /\ position[r].entry \in Int /\ r \in At("holding")
            BY <1>4, IntentsAssumption DEF Close, At
        <3> QED BY <3>1 DEF EntryValue
    <2>3. Balanced(portfolio') /\ portfolio'.total >= 0
        BY <2>1, <2>2, RecordCloseSound DEF SatisfiesChecks
    <2>4. /\ pc'[r] = "over" /\ UNCHANGED order
          /\ \A t \in Runs \ {r} : position'[t] = position[t] /\ pc'[t] = pc[t]
        BY <1>4 DEF Close
    <2> QED BY <2>3, <2>4 DEF Sound
<1>5. CASE RestartApplication
    BY <1>5 DEF RestartApplication, Sound
<1>6. CASE Reset
    <2>1. /\ Balanced(portfolio') /\ portfolio'.total = portfolio.total
        BY <1>6 DEF Reset, ResetDailyPnl, Balanced, Portfolios, Sound
    <2> QED BY <1>6, <2>1 DEF Reset, runVars, Sound
<1>7. CASE Refuse \/ NewDay \/ ResetFails \/ RestartTask \/ UNCHANGED vars
    BY <1>7 DEF Refuse, NewDay, ResetFails, RestartTask, vars, runVars, Sound
<1> QED BY <1>1, <1>2, <1>3, <1>4, <1>5, <1>6, <1>7 DEF Next

\* What the held positions can lose, and what the submitted orders add to it.
Carried == OpenRisk + WorstRisk * Cardinality(At("submitting"))
MostCarried == (MaxPositions + Overlap - 1) * WorstRisk

\* The starts of the daily task since the calendar reset whose first look has
\* happened, and the profit that they took out of the counted one.
Starts == restartsToday - (IF lastReset = "never" THEN 1 ELSE 0)
Past == dayPnl - portfolio.dailyPnl

DayInv ==
    /\ dayPnl \in Int /\ restartsToday \in Nat /\ Starts \in Nat
    /\ lastReset \in {"never", "today", "earlier"}
    /\ lastReset = "earlier" => turned
    /\ dayPnl <= portfolio.total
    /\ -100 * Past <= Starts * DayAllowance
    /\ 100 * (Carried - dayPnl) <= (1 + Starts) * DayAllowance

LEMMA RisksAddUp ==
    ASSUME NEW worst \in Nat, NEW open \in Nat, NEW held \in Nat, NEW sent \in Nat,
           NEW most \in Nat, open <= worst * held, held + sent <= most
    PROVE  /\ open + worst * sent \in Nat /\ open <= open + worst * sent
           /\ open + worst * sent <= most * worst /\ most * worst \in Nat
<1>1. worst * (held + sent) <= worst * most
    OBVIOUS
<1>2. /\ worst * (held + sent) = worst * held + worst * sent
      /\ worst * held \in Nat /\ worst * sent \in Nat
      /\ worst * most = most * worst /\ most * worst \in Nat
    OBVIOUS
<1> QED BY <1>1, <1>2

LEMMA CarriedBounded ==
    ASSUME Typed, Sound, RisksBounded, PositionsBounded
    PROVE  /\ OpenRisk \in Nat /\ Cardinality(At("submitting")) \in Nat
           /\ Carried \in Nat /\ OpenRisk <= Carried
           /\ Carried <= MostCarried /\ MostCarried \in Nat
<1> DEFINE H == Cardinality(At("holding"))
           S == Cardinality(At("submitting"))
           K == MaxPositions + Overlap - 1
<1>1. IsFiniteSet(At("holding")) /\ IsFiniteSet(At("submitting"))
    <2>1. At("holding") \subseteq Runs /\ At("submitting") \subseteq Runs
        BY DEF At
    <2> QED BY <2>1, DayAssumption, FS_Subset
<1>2. H \in Nat /\ S \in Nat /\ H + S <= K /\ K \in Nat /\ WorstRisk \in Nat
    BY <1>1, FS_CardinalityType, DayAssumption, LimitsAssumption DEF PositionsBounded
<1>3. \A r \in At("holding") : StopRisk[r] \in Nat /\ StopRisk[r] <= WorstRisk
    <2> SUFFICES ASSUME NEW r \in At("holding") PROVE StopRisk[r] \in Nat
        BY DEF RisksBounded
    <2>1. /\ position[r].entry - position[r].stop \in Nat /\ position[r].quantity \in Nat
          /\ StopRisk[r] = (position[r].entry - position[r].stop) * position[r].quantity
        BY DEF Typed, Sound, At, StopRisk
    <2> QED BY <2>1
<1>4. OpenRisk \in Nat /\ OpenRisk <= WorstRisk * H
    BY <1>1, <1>2, <1>3, SumNonnegative, SumBounded DEF OpenRisk
<1>5. /\ Carried = OpenRisk + WorstRisk * S
      /\ MostCarried = K * WorstRisk
    BY DEF Carried, MostCarried
<1> QED BY <1>2, <1>4, <1>5, RisksAddUp

\* The allowance as one number.
LEMMA AllowanceTyped ==
    ASSUME DayInv, portfolio.total \in Int
    PROVE  /\ DayAllowance = MaxDailyLoss * (portfolio.total - dayPnl) + 100 * MostCarried
           /\ DayAllowance \in Nat /\ MostCarried \in Nat
           /\ MaxDailyLoss * (portfolio.total - dayPnl) \in Nat
<1>1. /\ portfolio.total - dayPnl \in Nat /\ MaxDailyLoss \in Nat /\ WorstRisk \in Nat
      /\ MaxPositions + Overlap - 1 \in Nat
    BY LimitsAssumption, DayAssumption DEF DayInv
<1> DEFINE K == MaxPositions + Overlap - 1
           rest == portfolio.total - dayPnl
<1>2. DayAllowance = MaxDailyLoss * rest + 100 * K * WorstRisk /\ MostCarried = K * WorstRisk
    BY DEF DayAllowance, MostCarried
<1> HIDE DEF K, rest
<1>3. K * WorstRisk \in Nat /\ 100 * K * WorstRisk = 100 * (K * WorstRisk)
      /\ MaxDailyLoss * rest \in Nat
    BY <1>1 DEF K, rest
<1> QED BY <1>2, <1>3 DEF rest

\* The arithmetic of an admitted order: the day's loss before it was within
\* the limit, counted from the last start of the task.
LEMMA LossAdmitted ==
    ASSUME NEW M \in Nat, NEW total \in Int, NEW day \in Int, NEW daily \in Int,
           NEW C \in Nat, NEW X \in Nat, NEW N \in Nat, NEW D \in Nat,
           day <= total, X <= C, D = M * (total - day) + 100 * C,
           -100 * (day - daily) <= N * D,
           daily < 0 => -100 * daily <= M * total
    PROVE  100 * (X - day) <= (1 + N) * D
<1> DEFINE P == M * (total - day)
           Q == N * D
<1>1. P \in Nat /\ Q \in Nat /\ (1 + N) * D = D + Q
    <2>1. total - day \in Nat
        OBVIOUS
    <2> QED BY <2>1
<1>2. CASE day >= 0
    BY <1>1, <1>2
<1>3. CASE day < 0
    <2>1. M * total = P + M * day
        OBVIOUS
    <2>2. M * day <= 0
        BY <1>3
    <2>3. M * total \in Int /\ M * day \in Int
        OBVIOUS
    <2>4. -100 * daily <= P
        BY <1>1, <2>1, <2>2, <2>3
    <2> HIDE DEF P, Q
    <2> QED BY <1>1, <1>3, <2>4 DEF P, Q
<1> QED BY <1>2, <1>3

LEMMA NetRisk ==
    ASSUME NEW carried \in Int, NEW before \in Int, NEW earned \in Int,
           carried <= before
    PROVE  carried - earned <= before - earned
OBVIOUS

LEMMA BoundedRisk ==
    ASSUME NEW net \in Int, NEW before \in Int, NEW allowed \in Int,
           net <= before, 100 * before <= allowed
    PROVE  100 * net <= allowed
OBVIOUS

\* While the day and its starts stay, less risk carried or more earned keeps
\* the bound.
LEMMA SameDay ==
    ASSUME DayInv, Typed, Sound,
           dayPnl' \in Int, Carried \in Int, Carried' \in Int,
           portfolio' \in Portfolios,
           portfolio'.total - dayPnl' = portfolio.total - dayPnl,
           Past' = Past,
           Carried' - dayPnl' <= Carried - dayPnl,
           UNCHANGED <<restartsToday, lastReset, turned>>
    PROVE  DayInv'
<1>1. DayAllowance' = DayAllowance
    BY DEF DayAllowance
<1>2. Starts' = Starts
    BY DEF Starts
<1>3. dayPnl' <= portfolio'.total
    BY DEF Typed, Portfolios, DayInv
<1>4. DayAllowance \in Nat
    BY AllowanceTyped DEF Typed, Portfolios
<1>5. dayPnl \in Int /\ 100 * (Carried - dayPnl) <= (1 + Starts) * DayAllowance
    BY DEF DayInv
<1>6. (1 + Starts) * DayAllowance \in Int
    BY <1>4 DEF DayInv
<1>7. 100 * (Carried' - dayPnl') <= (1 + Starts') * DayAllowance'
    <2>1. Carried' - dayPnl' \in Int /\ Carried - dayPnl \in Int
        BY <1>5
    <2> QED BY <1>1, <1>2, <1>5, <1>6, <2>1, BoundedRisk
<1> QED BY <1>1, <1>2, <1>3, <1>7 DEF DayInv

\* The steps of a run.
LEMMA SubmitKeepsDay ==
    ASSUME DayInv, Typed, Sound, PositionsBounded, RisksBounded,
           NEW r \in Runs, Submit(r), PositionsBounded'
    PROVE  DayInv'
<1> DEFINE S == Cardinality(At("submitting"))
<1>1. /\ pc' = [pc EXCEPT ![r] = "submitting"] /\ pc[r] = "idle"
      /\ UNCHANGED <<position, portfolio, breaker, dayPnl, dayVars>>
    BY DEF Submit
<1>2. /\ At("holding")' = At("holding") /\ S' = S + 1
      /\ Cardinality(At("holding")) \in Nat /\ S \in Nat
    BY <1>1, Counting DEF Typed, States
<1>3. OpenRisk' = OpenRisk
    BY <1>1, <1>2 DEF OpenRisk, StopRisk
<1>4. Carried' \in Nat /\ Carried' <= MostCarried
    <2>1. /\ IsFiniteSet(At("holding"))
          /\ \A t \in At("holding") : StopRisk[t] \in Int /\ StopRisk[t] <= WorstRisk
        BY HoldingFinite DEF Typed, Sound, At, StopRisk, RisksBounded
    <2> DEFINE H == Cardinality(At("holding"))
               K == MaxPositions + Overlap - 1
    <2>2. WorstRisk \in Nat /\ K \in Nat
        BY DayAssumption, LimitsAssumption
    <2>3. OpenRisk \in Nat /\ OpenRisk <= WorstRisk * H
        BY <2>1, <2>2, SumBounded, CarriedBounded DEF OpenRisk
    <2>4. H + S' <= K
        BY <1>2 DEF PositionsBounded
    <2>5. Carried' = OpenRisk + WorstRisk * S' /\ MostCarried = K * WorstRisk
        BY <1>3 DEF Carried, MostCarried
    <2>6. S' \in Nat /\ H \in Nat
        BY <1>2
    <2> QED BY <2>2, <2>3, <2>4, <2>5, <2>6, RisksAddUp
<1>5. portfolio.dailyPnl < 0 => -100 * portfolio.dailyPnl <= MaxDailyLoss * portfolio.total
    <2>1. PICK i \in Intents, m \in Markets : Accepts(i, m)
        BY DEF Submit
    <2>2. DailyLossRule(Context(i), i) = "APPROVE"
        BY <2>1, ApprovedByRules DEF Accepts
    <2>3. /\ Context(i).dailyPnl = portfolio.dailyPnl
          /\ Context(i).total = portfolio.total
        BY DEF Context
    <2>4. portfolio.dailyPnl \in Int /\ MaxDailyLoss * portfolio.total \in Int
        BY LimitsAssumption DEF Typed, Portfolios
    <2>5. portfolio.dailyPnl < 0
            => ~((-portfolio.dailyPnl) * 100 >= MaxDailyLoss * portfolio.total)
        BY <2>2, <2>3 DEF DailyLossRule
    <2> QED BY <2>4, <2>5
<1>6. /\ portfolio.total \in Int /\ portfolio.dailyPnl \in Int /\ MaxDailyLoss \in Nat
      /\ dayPnl \in Int /\ dayPnl <= portfolio.total /\ Starts \in Nat
      /\ -100 * (dayPnl - portfolio.dailyPnl) <= Starts * DayAllowance
    BY LimitsAssumption DEF Typed, Portfolios, DayInv, Past
<1>7. /\ DayAllowance = MaxDailyLoss * (portfolio.total - dayPnl) + 100 * MostCarried
      /\ DayAllowance \in Nat /\ MostCarried \in Nat
    BY <1>6, AllowanceTyped
<1>8. 100 * (Carried' - dayPnl) <= (1 + Starts) * DayAllowance
    BY <1>4, <1>5, <1>6, <1>7, LossAdmitted
<1>9. UNCHANGED <<dayPnl, portfolio, restartsToday, lastReset, turned>>
    BY <1>1 DEF dayVars
<1>10. DayAllowance' = DayAllowance /\ Starts' = Starts /\ Past' = Past
    BY <1>9 DEF DayAllowance, Starts, Past
<1> QED BY <1>8, <1>9, <1>10 DEF DayInv

LEMMA FillKeepsDay ==
    ASSUME DayInv, Typed, Sound, PositionsBounded, RisksBounded,
           Typed', RisksBounded', NEW r \in Runs, Fill(r)
    PROVE  DayInv'
<1> DEFINE S == Cardinality(At("submitting"))
           H == At("holding")
<1>1. /\ pc' = [pc EXCEPT ![r] = "holding"] /\ pc[r] = "submitting"
      /\ \A t \in Runs \ {r} : position'[t] = position[t]
      /\ UNCHANGED <<breaker, dayPnl, dayVars>>
    BY DEF Fill, Typed
<1>2. H' = H \cup {r} /\ r \notin H /\ IsFiniteSet(H) /\ H \subseteq Runs
    BY <1>1, HoldingFinite DEF At, Typed, RunsTyped
<1>3. S' = S - 1 /\ S \in Nat
    BY <1>1, Counting DEF Typed, States
<1>4. \A t \in H : StopRisk[t] \in Int /\ StopRisk'[t] = StopRisk[t]
    BY <1>1, <1>2 DEF StopRisk, Typed, Sound, At
<1>5. StopRisk'[r] \in Int /\ StopRisk'[r] <= WorstRisk
    <2>1. r \in At("holding")'
        BY <1>2
    <2>2. PICK price \in FillPrices(order[r]) :
            position' = [position EXCEPT ![r] = Opened(order[r], price)]
        BY DEF Fill
    <2>3. position'[r].stop = order[r].intent.stop /\ order[r].intent.stop \in Int
        BY <1>1, <2>2, IntentsAssumption DEF Opened, Typed, Sound
    <2>4. position'[r].entry \in Int /\ position'[r].quantity \in Int
        BY <2>1 DEF Typed, At
    <2>5. StopRisk'[r] = (position'[r].entry - position'[r].stop) * position'[r].quantity
        BY <2>1 DEF StopRisk
    <2> QED BY <2>1, <2>3, <2>4, <2>5 DEF RisksBounded
<1>6. OpenRisk \in Int /\ OpenRisk' = OpenRisk + StopRisk'[r]
    <2>1. Total(StopRisk', H \cup {r}) = Total(StopRisk', H) + StopRisk'[r]
        BY <1>2, <1>4, <1>5, SumInsert
    <2>2. Total(StopRisk', H) = Total(StopRisk, H)
        BY <1>2, <1>4, SumSame
    <2> QED BY <1>2, <1>4, <2>1, <2>2, SumType DEF OpenRisk
<1>7. Carried \in Int /\ Carried' \in Int /\ Carried' <= Carried
    <2>1. WorstRisk \in Nat /\ Carried = OpenRisk + WorstRisk * S
          /\ Carried' = OpenRisk' + WorstRisk * S'
        BY DayAssumption DEF Carried
    <2> HIDE DEF S, H
    <2>2. WorstRisk * S' = WorstRisk * S - WorstRisk /\ WorstRisk * S \in Int
        BY <1>3, <2>1
    <2> QED BY <1>5, <1>6, <2>1, <2>2
<1>8. portfolio' \in Portfolios
    BY DEF Typed
<1>9. portfolio'.total = portfolio.total /\ portfolio'.dailyPnl = portfolio.dailyPnl
    BY DEF Fill, Booked, RecordFill, Typed, Portfolios
<1>10. UNCHANGED <<dayPnl, restartsToday, lastReset, turned>>
    BY <1>1 DEF dayVars
<1>11. Past' = Past /\ portfolio'.total - dayPnl' = portfolio.total - dayPnl
    BY <1>9, <1>10 DEF Past
<1>12. dayPnl \in Int
    BY DEF DayInv
<1>13. dayPnl' \in Int /\ Carried' - dayPnl' <= Carried - dayPnl
    BY <1>7, <1>10, <1>12, NetRisk
<1> QED BY <1>7, <1>8, <1>10, <1>11, <1>13, SameDay

LEMMA CloseKeepsDay ==
    ASSUME DayInv, Typed, Sound, PositionsBounded, RisksBounded,
           Typed', NEW r \in Runs, Close(r)
    PROVE  DayInv'
<1> DEFINE S == Cardinality(At("submitting"))
           H == At("holding")
<1>1. /\ pc' = [pc EXCEPT ![r] = "over"] /\ pc[r] = "holding"
      /\ \A t \in Runs \ {r} : position'[t] = position[t]
      /\ UNCHANGED <<order, breaker, dayVars>>
    BY DEF Close, Typed
<1>2. H' = H \ {r} /\ r \in H /\ IsFiniteSet(H) /\ H \subseteq Runs
    BY <1>1, HoldingFinite DEF At, Typed, RunsTyped
<1>3. At("submitting")' = At("submitting")
    BY <1>1, Counting DEF Typed, States
<1>4. \A t \in H : StopRisk[t] \in Int
    BY <1>2 DEF StopRisk, Typed, Sound, At
<1>5. \A t \in H' : StopRisk'[t] = StopRisk[t]
    BY <1>1, <1>2 DEF StopRisk, At
<1>6. OpenRisk \in Int /\ OpenRisk' = OpenRisk - StopRisk[r]
    <2>1. Total(StopRisk, H) = StopRisk[r] + Total(StopRisk, H \ {r})
        BY <1>2, <1>4, SumRemove
    <2>2. IsFiniteSet(H \ {r})
        BY <1>2, FS_Subset
    <2>3. Total(StopRisk', H \ {r}) = Total(StopRisk, H \ {r}) /\ Total(StopRisk, H \ {r}) \in Int
        BY <1>2, <1>4, <1>5, <2>2, SumSame, SumType
    <2>4. OpenRisk = Total(StopRisk, H) /\ OpenRisk' = Total(StopRisk', H \ {r})
        BY <1>2 DEF OpenRisk
    <2>5. StopRisk[r] \in Int
        BY <1>2, <1>4
    <2> QED BY <2>1, <2>3, <2>4, <2>5
<1>7. PICK price \in ExitPrices :
        LET pnl == (price - position[r].entry) * position[r].quantity
        IN  /\ portfolio' = RecordClose(portfolio, EntryValue[r], pnl)
            /\ dayPnl' = dayPnl + pnl
    BY DEF Close
<1> DEFINE pnl == (price - position[r].entry) * position[r].quantity
<1>8. /\ price \in Int /\ position[r].entry \in Int /\ position[r].stop \in Int
      /\ position[r].quantity \in Nat /\ position[r].stop <= price
      /\ StopRisk[r] = (position[r].entry - position[r].stop) * position[r].quantity
      /\ EntryValue[r] = position[r].entry * position[r].quantity
    BY <1>1, <1>2, IntentsAssumption DEF Typed, Sound, StopRisk, EntryValue
<1>9. pnl \in Int /\ EntryValue[r] \in Int /\ StopRisk[r] \in Int /\ pnl + StopRisk[r] >= 0
    <2> DEFINE a == price - position[r].stop
               q == position[r].quantity
    <2>1. a \in Nat /\ q \in Nat /\ a * q \in Nat
        BY <1>8
    <2>2. pnl + StopRisk[r] = a * q
        BY <1>8
    <2>3. pnl \in Int /\ EntryValue[r] \in Int /\ StopRisk[r] \in Int
        BY <1>8
    <2> HIDE DEF pnl, a, q
    <2> QED BY <2>1, <2>2, <2>3
<1>10. dayPnl' = dayPnl + pnl /\ portfolio' = RecordClose(portfolio, EntryValue[r], pnl)
    BY <1>7
<1> HIDE DEF pnl
<1>11. portfolio \in Portfolios /\ Balanced(portfolio) /\ portfolio.total \in Int
       /\ portfolio.dailyPnl \in Int /\ dayPnl \in Int /\ portfolio' \in Portfolios
    BY DEF Typed, Sound, DayInv, Portfolios
<1>12. /\ portfolio'.total = portfolio.total + pnl
       /\ portfolio'.dailyPnl = portfolio.dailyPnl + pnl
    BY <1>9, <1>10, <1>11, RecordCloseSound, RecordCloseColumns
<1>13. /\ dayPnl' \in Int /\ Past' = Past
       /\ portfolio'.total - dayPnl' = portfolio.total - dayPnl
    BY <1>9, <1>10, <1>11, <1>12 DEF Past
<1>14. Carried \in Int /\ Carried' = Carried - StopRisk[r] /\ Carried' \in Int
    <2>1. S \in Nat /\ WorstRisk \in Nat /\ WorstRisk * S \in Int
        BY CarriedBounded, DayAssumption
    <2>2. Carried = OpenRisk + WorstRisk * S /\ Carried' = OpenRisk' + WorstRisk * S
        BY <1>3 DEF Carried
    <2> HIDE DEF S
    <2> QED BY <1>6, <1>9, <2>1, <2>2
<1>15. Carried' - dayPnl' <= Carried - dayPnl
    BY <1>9, <1>10, <1>11, <1>14
<1>16. UNCHANGED <<restartsToday, lastReset, turned>>
    BY <1>1 DEF dayVars
<1> QED BY <1>11, <1>13, <1>14, <1>15, <1>16, SameDay

\* The task and the calendar.
LEMMA ResetKeepsDay ==
    ASSUME DayInv, Typed, Sound, PositionsBounded, RisksBounded, Reset
    PROVE  DayInv'
<1>1. /\ UNCHANGED runVars /\ portfolio' = ResetDailyPnl(portfolio)
      /\ lastReset # "today" /\ lastReset' = "today" /\ turned' = FALSE
      /\ dayPnl' = IF turned THEN 0 ELSE dayPnl
      /\ restartsToday' = IF turned THEN 0 ELSE restartsToday
    BY DEF Reset
<1>2. /\ portfolio'.total = portfolio.total /\ portfolio'.dailyPnl = 0
      /\ portfolio.total \in Nat
    BY <1>1 DEF ResetDailyPnl, Typed, Sound, Portfolios
<1>3. Carried' = Carried
    <2>1. At("holding")' = At("holding") /\ At("submitting")' = At("submitting")
        BY <1>1 DEF At, runVars
    <2>2. StopRisk' = StopRisk
        BY <1>1, <2>1 DEF StopRisk, runVars
    <2> QED BY <2>1, <2>2 DEF Carried, OpenRisk
<1>4. /\ Carried \in Nat /\ Carried <= MostCarried /\ MostCarried \in Nat
    BY CarriedBounded
<1>5. /\ DayAllowance = MaxDailyLoss * (portfolio.total - dayPnl) + 100 * MostCarried
      /\ DayAllowance \in Nat
    BY <1>2, AllowanceTyped
<1>6. /\ dayPnl \in Int /\ restartsToday \in Nat /\ Starts \in Nat
      /\ 100 * (Carried - dayPnl) <= (1 + Starts) * DayAllowance
    BY DEF DayInv
<1>7. CASE turned
    <2>1. dayPnl' = 0 /\ restartsToday' = 0 /\ Starts' = 0 /\ Past' = 0
        BY <1>1, <1>2, <1>7 DEF Starts, Past
    <2>2. /\ DayAllowance' = MaxDailyLoss * portfolio.total + 100 * MostCarried
          /\ DayAllowance' \in Nat
        <3>1. DayAllowance' = MaxDailyLoss * (portfolio.total - 0)
                    + 100 * (MaxPositions + Overlap - 1) * WorstRisk
            BY <1>2, <2>1 DEF DayAllowance
        <3>2. MostCarried = (MaxPositions + Overlap - 1) * WorstRisk
            BY DEF MostCarried
        <3> DEFINE K == MaxPositions + Overlap - 1
        <3>3. K \in Int /\ WorstRisk \in Int /\ MaxDailyLoss \in Nat
            BY LimitsAssumption, DayAssumption
        <3> HIDE DEF K
        <3>4. 100 * K * WorstRisk = 100 * (K * WorstRisk)
              /\ portfolio.total - 0 = portfolio.total
              /\ MaxDailyLoss * portfolio.total \in Nat
            BY <1>2, <3>3
        <3> QED BY <1>4, <3>1, <3>2, <3>4 DEF K
    <2>3. MaxDailyLoss * portfolio.total \in Nat
        BY <1>2, LimitsAssumption
    <2>4. 100 * (Carried' - dayPnl') <= (1 + Starts') * DayAllowance'
        <3>1. 100 * Carried <= DayAllowance'
            BY <1>4, <2>2, <2>3
        <3>2. (1 + Starts') * DayAllowance' = DayAllowance'
            BY <2>1, <2>2
        <3>3. Carried' - dayPnl' = Carried
            BY <1>3, <1>4, <2>1
        <3> QED BY <3>1, <3>2, <3>3
    <2>5. -100 * Past' <= Starts' * DayAllowance'
        BY <2>1, <2>2
    <2> QED BY <1>1, <1>2, <2>1, <2>4, <2>5 DEF DayInv
<1>8. CASE ~turned
    <2>1. lastReset = "never" /\ dayPnl' = dayPnl /\ restartsToday' = restartsToday
        BY <1>1, <1>8 DEF DayInv
    <2>2. Starts' = Starts + 1
        BY <1>1, <1>6, <2>1 DEF Starts
    <2>3. DayAllowance' = DayAllowance
        BY <1>2, <2>1 DEF DayAllowance
    <2>4. Past' = dayPnl
        BY <1>2, <1>6, <2>1 DEF Past
    <2> DEFINE A == DayAllowance
               N == Starts
    <2>5. (1 + (N + 1)) * A = (1 + N) * A + A /\ (N + 1) * A = (1 + N) * A
          /\ (1 + N) * A \in Int
        BY <1>5, <1>6
    <2>6. -100 * Past' <= Starts' * DayAllowance'
        <3>1. -100 * dayPnl <= (1 + N) * A
            BY <1>4, <1>6, <2>5
        <3> QED BY <2>2, <2>3, <2>4, <2>5, <3>1
    <2>7. 100 * (Carried' - dayPnl') <= (1 + Starts') * DayAllowance'
        <3>1. 100 * (Carried - dayPnl) <= (1 + N) * A + A
            BY <1>4, <1>5, <1>6, <2>5
        <3> QED BY <1>3, <2>1, <2>2, <2>3, <2>5, <3>1
    <2>8. dayPnl' <= portfolio'.total
        BY <1>2, <2>1 DEF DayInv
    <2>9. dayPnl' \in Int /\ restartsToday' \in Nat /\ Starts' \in Nat
        BY <1>6, <2>1, <2>2
    <2> QED BY <1>1, <2>6, <2>7, <2>8, <2>9 DEF DayInv
<1> QED BY <1>7, <1>8

LEMMA CalendarKeepsDay ==
    ASSUME DayInv, Typed, Sound, PositionsBounded, RisksBounded,
           Refuse \/ NewDay \/ ResetFails \/ RestartTask \/ UNCHANGED vars
    PROVE  DayInv'
<1>1. UNCHANGED <<runVars, portfolio, dayPnl>>
    BY DEF Refuse, NewDay, ResetFails, RestartTask, vars
<1>2. Carried' = Carried
    <2>1. At("holding")' = At("holding") /\ At("submitting")' = At("submitting")
        BY <1>1 DEF At, runVars
    <2>2. StopRisk' = StopRisk
        BY <1>1, <2>1 DEF StopRisk, runVars
    <2> QED BY <2>1, <2>2 DEF Carried, OpenRisk
<1>3. DayAllowance' = DayAllowance /\ Past' = Past
    BY <1>1 DEF DayAllowance, Past
<1>4. /\ restartsToday \in Nat /\ Starts \in Nat /\ lastReset \in {"never", "today", "earlier"}
      /\ lastReset = "earlier" => turned
      /\ -100 * Past <= Starts * DayAllowance
      /\ 100 * (Carried - dayPnl) <= (1 + Starts) * DayAllowance
      /\ dayPnl \in Int /\ dayPnl <= portfolio.total
    BY DEF DayInv
<1>5. /\ lastReset' \in {"never", "today", "earlier"}
      /\ lastReset' = "earlier" => turned'
      /\ restartsToday' \in Nat /\ Starts' \in Nat
      /\ Starts' = Starts \/ Starts' = Starts + 1
    <2>1. CASE RestartTask
        <3>1. restartsToday' = restartsToday + 1 /\ lastReset' = "never"
            BY <2>1 DEF RestartTask
        <3>2. Starts' = restartsToday
            BY <1>4, <3>1 DEF Starts
        <3>3. Starts' = Starts \/ Starts' = Starts + 1
            BY <1>4, <3>2 DEF Starts
        <3> QED BY <1>4, <3>1, <3>2, <3>3
    <2>2. CASE NewDay
        <3>1. /\ restartsToday' = restartsToday /\ turned'
              /\ lastReset' = IF lastReset = "today" THEN "earlier" ELSE lastReset
            BY <2>2 DEF NewDay
        <3> QED BY <1>4, <3>1 DEF Starts
    <2>3. CASE Refuse \/ ResetFails \/ UNCHANGED vars
        BY <1>4, <2>3 DEF Refuse, ResetFails, vars, dayVars, Starts
    <2> QED BY <2>1, <2>2, <2>3
<1>6. DayAllowance \in Nat /\ Carried \in Nat
    BY AllowanceTyped, CarriedBounded DEF Typed, Portfolios
<1>7. /\ -100 * Past' <= Starts' * DayAllowance'
      /\ 100 * (Carried' - dayPnl') <= (1 + Starts') * DayAllowance'
    <2>1. CASE Starts' = Starts
        BY <1>1, <1>2, <1>3, <1>4, <2>1
    <2>2. CASE Starts' = Starts + 1
        <3> DEFINE A == DayAllowance
                   N == Starts
        <3>1. /\ (N + 1) * A = N * A + A /\ (1 + (N + 1)) * A = (1 + N) * A + A
              /\ N * A \in Int /\ (1 + N) * A \in Int
            BY <1>4, <1>6
        <3>2. Past \in Int
            BY <1>4 DEF Past, Typed, Portfolios
        <3>3. -100 * Past <= (N + 1) * A
            BY <1>4, <1>6, <3>1, <3>2
        <3>4. 100 * (Carried - dayPnl) <= (1 + (N + 1)) * A
            BY <1>4, <1>6, <3>1
        <3> QED BY <1>1, <1>2, <1>3, <2>2, <3>3, <3>4
    <2> QED BY <1>5, <2>1, <2>2
<1>8. dayPnl' \in Int /\ dayPnl' <= portfolio'.total
    BY <1>1, <1>4
<1> QED BY <1>5, <1>7, <1>8 DEF DayInv

\* An order that is refused by the table, or that a start of the application
\* gives up, only takes risk away.
LEMMA LossKeepsDay ==
    ASSUME DayInv, Typed, Sound, PositionsBounded, RisksBounded,
           RestartApplication \/ \E r \in Runs : LoseFill(r)
    PROVE  DayInv'
<1>1. UNCHANGED <<position, portfolio, dayPnl, dayVars>>
    BY DEF RestartApplication, LoseFill
<1>2. /\ At("holding")' = At("holding")
      /\ At("submitting")' \subseteq At("submitting")
    BY DEF RestartApplication, LoseFill, At, Typed, RunsTyped
<1>3. Cardinality(At("submitting")') \in Nat
      /\ Cardinality(At("submitting")') <= Cardinality(At("submitting"))
    <2>1. At("submitting") \subseteq Runs
        BY DEF At
    <2>2. IsFiniteSet(At("submitting"))
        BY <2>1, DayAssumption, FS_Subset
    <2> QED BY <1>2, <2>2, FS_Subset, FS_CardinalityType
<1>4. OpenRisk' = OpenRisk
    BY <1>1, <1>2 DEF OpenRisk, StopRisk
<1>5. Carried \in Int /\ Carried' \in Int /\ Carried' <= Carried
    <2>1. /\ OpenRisk \in Nat /\ Cardinality(At("submitting")) \in Nat
          /\ Carried \in Nat /\ WorstRisk \in Nat
        BY CarriedBounded, DayAssumption
    <2>2. ASSUME NEW o \in Nat, NEW w \in Nat, NEW a \in Nat, NEW b \in Nat, a <= b
          PROVE  o + w * a \in Int /\ o + w * a <= o + w * b
        BY <2>2
    <2>3. Carried' = OpenRisk + WorstRisk * Cardinality(At("submitting")')
        BY <1>4 DEF Carried
    <2> QED BY <1>3, <2>1, <2>2, <2>3 DEF Carried
<1>6. dayPnl \in Int /\ dayPnl' = dayPnl
    BY <1>1 DEF DayInv
<1>7. Carried' - dayPnl' <= Carried - dayPnl
    BY <1>5, <1>6, NetRisk
<1>8. /\ UNCHANGED <<restartsToday, lastReset, turned>>
      /\ portfolio' \in Portfolios /\ Past' = Past
      /\ portfolio'.total - dayPnl' = portfolio.total - dayPnl
    BY <1>1 DEF dayVars, Typed, Past
<1> QED BY <1>5, <1>6, <1>7, <1>8, SameDay

LEMMA DayStep ==
    ASSUME DayInv, Typed, Sound, PositionsBounded, RisksBounded, [Next]_vars,
           Typed', PositionsBounded', RisksBounded'
    PROVE  DayInv'
BY SubmitKeepsDay, FillKeepsDay, CloseKeepsDay, ResetKeepsDay, CalendarKeepsDay,
   LossKeepsDay DEF Next

LEMMA DayInit == ASSUME Init PROVE Sound /\ DayInv
<1>1. /\ Balanced(portfolio) /\ portfolio.total = Balance /\ portfolio.dailyPnl = 0
    BY NewPortfolioSound, DayAssumption DEF Init, NewPortfolio
<1>2. At("holding") = {} /\ At("submitting") = {}
    BY DEF Init, At
<1>3. OpenRisk = 0 /\ Cardinality(At("submitting")) = 0 /\ Carried = 0
    <2>1. OpenRisk = 0
        BY <1>2, SumEmpty DEF OpenRisk
    <2>2. Cardinality(At("submitting")) = 0 /\ WorstRisk \in Nat
        BY <1>2, FS_EmptySet, DayAssumption
    <2> QED BY <2>1, <2>2 DEF Carried
<1>4. dayPnl = 0 /\ restartsToday = 0 /\ Starts = 0 /\ Past = 0 /\ lastReset = "today"
    BY <1>1 DEF Init, Starts, Past
<1>5. Sound
    BY <1>1, DayAssumption DEF Init, Sound
<1>6. DayAllowance \in Nat
    <2>1. /\ Balance \in Nat /\ MaxDailyLoss \in Nat /\ WorstRisk \in Nat
          /\ MaxPositions + Overlap - 1 \in Nat
        BY LimitsAssumption, DayAssumption
    <2> DEFINE K == MaxPositions + Overlap - 1
    <2>2. DayAllowance = MaxDailyLoss * Balance + 100 * K * WorstRisk
        BY <1>1, <1>4, <2>1 DEF DayAllowance
    <2> HIDE DEF K
    <2>3. MaxDailyLoss * Balance \in Nat /\ 100 * K * WorstRisk \in Nat
        BY <2>1 DEF K
    <2> QED BY <2>2, <2>3
<1>7. DayInv
    BY <1>1, <1>3, <1>4, <1>6, DayAssumption DEF DayInv
<1> QED BY <1>5, <1>7

\* What the daily loss limit guarantees: with what the held positions can
\* still lose, a day loses no more than the limit and one stop per position
\* that may be held, once for each start of the daily task.  It holds as long
\* as no position is closed below its stop.
THEOREM DayLossBoundedHolds ==
    ASSUME ExitsAtStops
    PROVE  Spec /\ []RisksBounded => []DayLossBounded
<1>1. Typed /\ Sound /\ [Next]_vars => Sound'
    BY SoundStep
<1>2. DayInv /\ Typed /\ Sound /\ PositionsBounded /\ RisksBounded /\ [Next]_vars
        /\ Typed' /\ PositionsBounded' /\ RisksBounded' => DayInv'
    BY DayStep
<1>3. Typed /\ Sound /\ DayInv /\ PositionsBounded /\ RisksBounded => DayLossBounded
    <2> SUFFICES ASSUME Typed, Sound, DayInv, PositionsBounded, RisksBounded
                 PROVE  DayLossBounded
        OBVIOUS
    <2>1. OpenRisk \in Nat /\ Carried \in Nat /\ OpenRisk <= Carried
        BY CarriedBounded
    <2>2. DayAllowance \in Nat
        BY AllowanceTyped DEF Typed, Portfolios
    <2>3. /\ dayPnl \in Int /\ restartsToday \in Nat /\ Starts \in Nat
          /\ Starts <= restartsToday
          /\ 100 * (Carried - dayPnl) <= (1 + Starts) * DayAllowance
        BY DEF DayInv, Starts
    <2>4. ASSUME NEW A \in Nat, NEW m \in Nat, NEW n \in Nat, m <= n
          PROVE  (1 + m) * A <= (1 + n) * A /\ (1 + m) * A \in Int /\ (1 + n) * A \in Int
        BY <2>4
    <2>5. (1 + Starts) * DayAllowance <= (1 + restartsToday) * DayAllowance
          /\ (1 + Starts) * DayAllowance \in Int /\ (1 + restartsToday) * DayAllowance \in Int
        BY <2>2, <2>3, <2>4
    <2>6. 100 * (OpenRisk - dayPnl) <= (1 + restartsToday) * DayAllowance
        BY <2>1, <2>3, <2>5
    <2> QED BY <2>6 DEF DayLossBounded
<1> QED
    BY <1>1, <1>2, <1>3, DayInit, SpecTyped, HeldPositionsBounded, PTL DEF Spec
==============================================================================
