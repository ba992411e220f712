---------------------------- MODULE SignalVotes ----------------------------
(***************************************************************************)
(* The signal generators and the composite that combines their votes.      *)
(* closes is the sequence of closing prices that a scan fetched, oldest    *)
(* first; a prediction is what the model and its features say of them.     *)
(* Confidences and probabilities are in ten-thousandths, as the composite  *)
(* rounds them; prices are in thousandths, so that levels are exact.       *)
(***************************************************************************)
EXTENDS TradeIntents, Sequences, FiniteSetsExt

CONSTANTS
    RsiPeriod, FastPeriod, SlowPeriod,
    MlBars,         \* fewer candles than these and the model is not asked
    Threshold,      \* of the model, in ten-thousandths
    MinCombined     \* the least confidence of a composite

ASSUME VotesAssumption ==
    /\ {RsiPeriod, FastPeriod, SlowPeriod, MlBars} \subseteq Nat \ {0}
    /\ FastPeriod < SlowPeriod
    /\ {Threshold, MinCombined} \subseteq 0..10000

CurrentPrice(closes) == closes[Len(closes)]

\* A generator that answers None, or raises, has no say.
Silent == [side |-> "HOLD"]

\* stop and target are distances in thousandths of the price.
Vote(side, confidence, price, stop, target) ==
    LET way == IF side = "BUY" THEN 1 ELSE -1
    IN  [side |-> side, confidence |-> confidence, entry |-> 1000 * price,
         stop |-> price * (1000 - way * stop),
         target |-> price * (1000 + way * target)]

-----------------------------------------------------------------------------
\* The part of a price change that is a gain; a loss is a gain of its opposite.
Gain(d) == IF d > 0 THEN d ELSE 0
Gains(closes) == [k \in 1..(Len(closes) - 1) |-> Gain(closes[k + 1] - closes[k])]
Losses(closes) == [k \in 1..(Len(closes) - 1) |-> Gain(closes[k] - closes[k + 1])]

\* Wilder's averages after each change, as numerators over unit.
Averages(closes) ==
    LET average[k \in RsiPeriod..(Len(closes) - 1)] ==
            IF k = RsiPeriod
            THEN [gain |-> SumFunctionOnSet(Gains(closes), 1..RsiPeriod),
                  loss |-> SumFunctionOnSet(Losses(closes), 1..RsiPeriod),
                  unit |-> RsiPeriod]
            ELSE LET a == average[k - 1]
                 IN  [gain |-> a.gain * (RsiPeriod - 1) + Gains(closes)[k] * a.unit,
                      loss |-> a.loss * (RsiPeriod - 1) + Losses(closes)[k] * a.unit,
                      unit |-> a.unit * RsiPeriod]
    IN  average

\* In hundredths.  Without a loss it is 100, also when there is no gain.
RSI(closes) ==
    LET a == Averages(closes)[Len(closes) - 1]
    IN  IF a.loss = 0 THEN 10000 ELSE HalfEven(10000 * a.gain, a.gain + a.loss)

\* From 0.6 at the limit to 0.85 at the strong limit, ten points further.
RsiConfidence(beyond) ==
    IF beyond >= 1000 THEN 8500 ELSE 6000 + HalfEven(beyond * 2500, 1000)

RsiVote(closes) ==
    IF Len(closes) < RsiPeriod + 1 THEN Silent
    ELSE LET rsi == RSI(closes)
         IN  CASE rsi < 3000 ->
                    Vote("BUY", RsiConfidence(3000 - rsi), CurrentPrice(closes), 20, 40)
               [] rsi > 7000 ->
                    Vote("SELL", RsiConfidence(rsi - 7000), CurrentPrice(closes), 20, 40)
               [] OTHER -> Silent

\* _sma times its period: the sum of the closes that end offset bars ago.
SumOf(closes, period, offset) ==
    SumFunctionOnSet(closes, (Len(closes) - offset - period + 1)..(Len(closes) - offset))

\* Fast less slow average, times both periods.
Gap(closes, offset) ==
    SumOf(closes, FastPeriod, offset) * SlowPeriod
        - SumOf(closes, SlowPeriod, offset) * FastPeriod

\* A separation of one per cent of the price gives the highest confidence.
SmaConfidence(closes) ==
    6000 + Min({2500, HalfEven(250000 * Magnitude(Gap(closes, 0)),
                               FastPeriod * SlowPeriod * CurrentPrice(closes))})

SmaVote(closes) ==
    LET crosses(way) ==
            /\ Len(closes) >= SlowPeriod + 2
            /\ way * Gap(closes, 1) <= 0 /\ way * Gap(closes, 0) > 0
    IN  CASE crosses(1) -> Vote("BUY", SmaConfidence(closes), CurrentPrice(closes), 20, 40)
          [] crosses(-1) -> Vote("SELL", SmaConfidence(closes), CurrentPrice(closes), 20, 40)
          [] OTHER -> Silent

-----------------------------------------------------------------------------
\* ModelPredictor.predict: a prediction with more than a tenth of its
\* features missing is rejected with a probability of zero.
Probability(p) == IF p.missing > 10 THEN 0 ELSE p.probability

\* ModelPredictor.should_trade: a model too old, or a market too calm, gives
\* HOLD; what predict rejected is not told from a probability of zero.
Direction(p) ==
    CASE p.stale \/ p.calm -> "HOLD"
      [] OTHER -> IF Probability(p) >= Threshold THEN "BUY"
                  ELSE IF Probability(p) <= 10000 - Threshold THEN "SELL"
                  ELSE "HOLD"

\* _probability_to_confidence, between 0.6 and 0.9.
MlConfidence(p) ==
    LET effective == IF Direction(p) = "SELL" THEN 10000 - Probability(p)
                                              ELSE Probability(p)
    IN  Max({6000, Min({9000, effective + 1000})})

MlVote(p, closes) ==
    IF Len(closes) < MlBars \/ Direction(p) = "HOLD" THEN Silent
    ELSE Vote(Direction(p), MlConfidence(p), CurrentPrice(closes), 10, 15)

-----------------------------------------------------------------------------
\* Mutant: that some generators disagree is not noticed.
AnyHeard(votes) == \E k \in DOMAIN votes : votes[k] # Silent

Agreed(votes) == Cardinality({votes[k].side : k \in DOMAIN votes} \ {"HOLD"}) = 1

\* CompositeSignalGenerator.generate: no signal on disagreement; otherwise
\* the average weighted over those that answered, and the levels of the most
\* confident of them, the first of equals.
Composite(votes, weights) ==
    LET heard == {k \in DOMAIN votes : votes[k] # Silent}
        weight == SumFunctionOnSet(weights, heard)
        sum == SumFunctionOnSet([k \in heard |-> votes[k].confidence * weights[k]], heard)
        top == Max({votes[k].confidence : k \in heard})
        best == Min({k \in heard : votes[k].confidence = top})
    IN  IF Agreed(votes) /\ HalfEven(sum, weight) >= MinCombined
        THEN [votes[best] EXCEPT !.confidence = HalfEven(sum, weight)]
        ELSE Silent
=============================================================================
