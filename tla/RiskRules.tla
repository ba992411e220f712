------------------------------ MODULE RiskRules ------------------------------
(***************************************************************************)
(* The decisions of the pipeline that touch no state: the five risk rules  *)
(* in the order of create_default, the sizing of the capital manager and   *)
(* the execution guard.  Each is a function of the intent, of the rows     *)
(* read under the portfolio's lock (the context) and of the market         *)
(* snapshot.  Decimals are exact in the code, so ratios are compared by    *)
(* cross-multiplication; the one rounding, of a quantity to eight          *)
(* decimals, is half to even.                                              *)
(***************************************************************************)
EXTENDS TradeIntents, Sequences, FiniteSetsExt

CONSTANTS
    MaxDailyLoss,   \* percent of the total balance
    MaxDrawdown,    \* in ten-thousandths, as the column stores it
    MinConfidence,  \* in tenths
    MaxPositions,
    MaxExposure,    \* percent of the total balance, per symbol
    RiskPerTrade,   \* percent of the available balance
    MinNotional,
    MaxDrift,       \* percent of the order's price
    MaxSpread,      \* percent of the bid
    MinVolume

ASSUME LimitsAssumption ==
    /\ {MaxDailyLoss, MaxDrawdown, MinConfidence, MaxExposure, RiskPerTrade} \subseteq Nat
    /\ {MinNotional, MaxDrift, MaxSpread, MinVolume} \subseteq Nat
    /\ MaxPositions \in Nat \ {0}

-----------------------------------------------------------------------------
MinConfidenceRule(c, i) ==
    IF i.confidence < MinConfidence THEN "REJECT" ELSE "APPROVE"

\* Mutant: the day's loss is not looked at.
DailyLossOfNothing(c, i) == IF c.total = 0 THEN "REJECT" ELSE "APPROVE"

\* DailyLossLimitRule: reject at the limit, halt at twice the limit.
DailyLossRule(c, i) ==
    LET loss == IF c.dailyPnl < 0 THEN -c.dailyPnl ELSE 0
    IN  IF c.total = 0 THEN "REJECT"
        ELSE IF loss * 100 >= 2 * MaxDailyLoss * c.total THEN "HALT_SYSTEM"
        ELSE IF loss * 100 >= MaxDailyLoss * c.total THEN "REJECT"
        ELSE "APPROVE"

\* MaxDrawdownRule: reject at 80% of the limit, halt at the limit.
NearMaxDrawdown(d) == 10 * d >= 8 * MaxDrawdown
DrawdownRule(c, i) ==
    IF c.drawdown >= MaxDrawdown THEN "HALT_SYSTEM"
    ELSE IF NearMaxDrawdown(c.drawdown) THEN "REJECT"
    ELSE "APPROVE"

\* Mutant: the limit is compared with > instead of >=.
PositionsRulePastLimit(c, i) ==
    IF c.open > MaxPositions THEN "REJECT" ELSE "APPROVE"

PositionsRule(c, i) ==
    IF c.open >= MaxPositions THEN "REJECT" ELSE "APPROVE"

\* What the symbol may still take, in hundredths of the currency unit.
RemainingExposure(c) == MaxExposure * c.total - 100 * c.exposure

ExposureRule(c, i) ==
    IF c.total = 0 \/ RemainingExposure(c) <= 0 THEN "REJECT" ELSE "APPROVE"

\* RiskManager.validate after the breaker's check: the first rule that does
\* not approve decides.
Validate(c, i) ==
    LET decisions == << MinConfidenceRule(c, i), DailyLossRule(c, i),
                        DrawdownRule(c, i), PositionsRule(c, i), ExposureRule(c, i) >>
        refusals == {k \in DOMAIN decisions : decisions[k] # "APPROVE"}
    IN  IF refusals = {} THEN "APPROVE" ELSE decisions[Min(refusals)]

-----------------------------------------------------------------------------
\* CapitalManager.calculate_size: the value of a position is the least of
\* three, each a fraction <<numerator, denominator>>: the risked amount over
\* the distance of the stop, what the symbol may still take, the balance.
PositionValues(c, i) ==
    { << c.available * RiskPerTrade * i.confidence * i.entry,
         1000 * Magnitude(i.entry - i.stop) >>,
      << RemainingExposure(c), 100 >>,
      << c.available, 1 >> }

Sizeable(c, i) ==
    /\ i.entry > 0 /\ c.total > 0 /\ c.available > 0
    /\ i.entry # i.stop
    /\ RemainingExposure(c) > 0
    /\ \A v \in PositionValues(c, i) : v[1] >= MinNotional * v[2]

\* Mutant: the cap of the symbol's exposure is forgotten.
QuantityUncapped(c, i) ==
    HalfEven(c.available * RiskPerTrade * i.confidence,
             1000 * Magnitude(i.entry - i.stop))

\* Rounding is monotone: the least value gives the least quantity.
Quantity(c, i) ==
    Min({HalfEven(v[1], v[2] * i.entry) : v \in PositionValues(c, i)})

\* Step 5 of execute compares the rounded quantity with the balance again.
Affordable(c, i) == c.available >= Quantity(c, i) * i.entry

-----------------------------------------------------------------------------
\* ExecutionGuard.validate with _check_market_sanity.  Only a drift to the
\* order's disadvantage counts; a price better than the order's passes.
MarketSane(m) ==
    /\ m.price > 0 /\ m.bid > 0 /\ m.ask >= m.bid
    /\ m.volume >= 0

Unfavourable(i, m) ==
    /\ 100 * Magnitude(m.price - i.entry) > MaxDrift * i.entry
    /\ i.side = "BUY" => m.price > i.entry
    /\ i.side = "SELL" => m.price < i.entry

GuardApproves(i, m) ==
    /\ MarketSane(m)
    /\ ~Unfavourable(i, m)
    /\ 100 * (m.ask - m.bid) <= MaxSpread * m.bid
    /\ m.volume >= MinVolume
==============================================================================
