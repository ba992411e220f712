----------------------- MODULE BackgroundTasks_proofs -----------------------
(***************************************************************************)
(* The tasks that run beside the order path: the scanners that produce     *)
(* signals, and the feed that shows events in the browsers.  What the      *)
(* scanners may offer and that their failures do not switch them off, for  *)
(* any symbols, price series, predictions and periods; what silences the   *)
(* feed and that no event is shown twice, for any browsers, sockets,       *)
(* messages, faults and restarts.                                          *)
(***************************************************************************)
EXTENDS SignalScan, LiveFeed, PortfolioLedger_proofs, SequenceTheorems

-----------------------------------------------------------------------------
(* Quotients and weighted averages.                                         *)

\* Rounding half to even does not leave the bounds that the quotient keeps.
LEMMA HalfEvenBetween ==
  ASSUME NEW num \in Nat, NEW den \in Nat \ {0}, NEW a \in Int, NEW b \in Int,
         a * den <= num, num <= b * den
  PROVE  HalfEven(num, den) \in Int /\ a <= HalfEven(num, den) /\ HalfEven(num, den) <= b
  <1> DEFINE q == num \div den
             r == num % den
  <1>1. q \in Int /\ r \in Int /\ 0 <= r /\ r < den /\ num = den * q + r
    OBVIOUS
  <1>2. HalfEven(num, den)
          = IF 2 * r > den \/ (2 * r = den /\ q % 2 = 1) THEN q + 1 ELSE q
    BY DEF HalfEven
  <1> HIDE DEF q, r
  <1>3. a <= q
    <2>1. ASSUME q + 1 <= a PROVE FALSE
      <3>1. (q + 1) * den <= a * den
        BY <1>1, <2>1
      <3>2. (q + 1) * den = den * q + den /\ den * q \in Int /\ a * den \in Int
        BY <1>1
      <3> QED BY <1>1, <3>1, <3>2
    <2> QED BY <1>1, <2>1
  <1>4. q <= b /\ (r > 0 => q + 1 <= b)
    <2>1. ASSUME b + 1 <= q PROVE FALSE
      <3>1. (b + 1) * den <= q * den
        BY <1>1, <2>1
      <3>2. (b + 1) * den = b * den + den /\ q * den = den * q /\ den * q \in Int
            /\ b * den \in Int
        BY <1>1
      <3> QED BY <1>1, <3>1, <3>2
    <2>2. ASSUME q = b, r > 0 PROVE FALSE
      <3>1. den * q = b * den /\ b * den \in Int
        BY <1>1, <2>2
      <3> QED BY <1>1, <2>2, <3>1
    <2> QED BY <1>1, <2>1, <2>2
  <1>5. CASE HalfEven(num, den) = q
    BY <1>1, <1>3, <1>4, <1>5
  <1>6. CASE HalfEven(num, den) = q + 1 /\ 2 * r >= den
    BY <1>1, <1>3, <1>4, <1>6
  <1>7. 2 * r > den \/ 2 * r = den \/ 2 * r < den
    BY <1>1
  <1> QED BY <1>1, <1>2, <1>5, <1>6, <1>7

\* A weighted average is between the least and the greatest value.
LEMMA AverageBetween ==
  ASSUME NEW S, IsFiniteSet(S), S # {}, NEW c, NEW w, NEW product,
         \A x \in S : /\ c[x] \in Nat /\ w[x] \in Nat \ {0}
                      /\ product[x] = c[x] * w[x]
  PROVE  LET average == HalfEven(Total(product, S), Total(w, S))
         IN  /\ average \in Int
             /\ \E low, high \in S : c[low] <= average /\ average <= c[high]
  <1>1. PICK low \in S : \A x \in S : c[low] <= c[x]
    BY LeastExists
  <1>2. PICK high \in S : \A x \in S : c[x] <= c[high]
    BY GreatestExists
  <1> DEFINE weight == Total(w, S)
             sum == Total(product, S)
             least == [x \in S |-> c[low] * w[x]]
             greatest == [x \in S |-> c[high] * w[x]]
  <1>3. weight \in Nat \ {0}
    BY SumPositive
  <1>4. \A x \in S : product[x] \in Nat
    OBVIOUS
  <1>5. sum \in Nat
    BY <1>4, SumNonnegative
  <1>6. \A x \in S : /\ least[x] = c[low] * w[x] /\ greatest[x] = c[high] * w[x]
                     /\ least[x] \in Int /\ greatest[x] \in Int
    OBVIOUS
  <1>7. \A x \in S : least[x] <= product[x] /\ product[x] <= greatest[x]
    <2> TAKE x \in S
    <2>1. c[low] * w[x] <= c[x] * w[x] /\ c[x] * w[x] <= c[high] * w[x]
      BY <1>1, <1>2
    <2> QED BY <1>6, <2>1
  <1> HIDE DEF least, greatest
  <1>8. Total(least, S) = c[low] * weight /\ Total(greatest, S) = c[high] * weight
    BY <1>6, SumScale
  <1>9. Total(least, S) <= sum /\ sum <= Total(greatest, S)
    BY <1>4, <1>6, <1>7, SumAtMost
  <1>10. c[low] * weight <= sum /\ sum <= c[high] * weight
    BY <1>8, <1>9
  <1> HIDE DEF sum, weight
  <1>11. /\ HalfEven(sum, weight) \in Int
         /\ c[low] <= HalfEven(sum, weight) /\ HalfEven(sum, weight) <= c[high]
    BY <1>3, <1>5, <1>10, HalfEvenBetween
  <1> QED BY <1>11 DEF sum, weight
-----------------------------------------------------------------------------
(* What the generators say.                                                 *)

\* A vote that is none, or one whose levels the pipeline accepts.
Levelled(v) ==
    /\ v \in [side : {"BUY", "SELL"}, confidence : Nat, entry : Nat, stop : Nat, target : Nat]
    /\ StopsSound(v)
WellFormed(v) == v = Silent \/ Levelled(v)

LEMMA Periods ==
  /\ RsiPeriod \in Nat \ {0} /\ FastPeriod \in Nat \ {0} /\ SlowPeriod \in Nat \ {0}
  /\ MlBars \in Nat \ {0} /\ FastPeriod < SlowPeriod
  /\ Threshold \in 0..10000 /\ MinCombined \in 0..10000
  BY VotesAssumption

LEMMA VoteLevelled ==
  ASSUME NEW side \in {"BUY", "SELL"}, NEW confidence \in Nat, NEW price \in Nat \ {0},
         NEW stop \in Nat, NEW target \in Nat, 0 < stop, stop < 1000, 0 < target, target < 1000
  PROVE  Levelled(Vote(side, confidence, price, stop, target))
  <1> DEFINE v == Vote(side, confidence, price, stop, target)
             s == price * stop
             t == price * target
  <1>1. /\ s \in Nat /\ t \in Nat /\ 0 < s /\ 0 < t /\ s < 1000 * price /\ t < 1000 * price
        /\ price * (1000 - stop) = 1000 * price - s /\ price * (1000 + stop) = 1000 * price + s
        /\ price * (1000 - target) = 1000 * price - t
        /\ price * (1000 + target) = 1000 * price + t
    <2>1. 1 <= stop /\ stop <= 999 /\ 1 <= target /\ target <= 999 /\ 1 <= price
      OBVIOUS
    <2>2. price * 1 <= price * stop /\ price * stop <= price * 999
      BY <2>1
    <2>3. price * 1 <= price * target /\ price * target <= price * 999
      BY <2>1
    <2>4. s \in Nat /\ t \in Nat
      OBVIOUS
    <2> QED BY <2>1, <2>2, <2>3, <2>4
  <1>2. CASE side = "BUY"
    <2>1. v = [side |-> "BUY", confidence |-> confidence, entry |-> 1000 * price,
               stop |-> price * (1000 - 1 * stop), target |-> price * (1000 + 1 * target)]
      BY <1>2 DEF Vote
    <2>2. 1 * stop = stop /\ 1 * target = target
      OBVIOUS
    <2>3. v = [side |-> "BUY", confidence |-> confidence, entry |-> 1000 * price,
               stop |-> 1000 * price - s, target |-> 1000 * price + t]
      BY <1>1, <2>1, <2>2
    <2> HIDE DEF v, s, t
    <2> QED BY <1>1, <2>3 DEF Levelled, StopsSound, v
  <1>3. CASE side = "SELL"
    <2>1. v = [side |-> "SELL", confidence |-> confidence, entry |-> 1000 * price,
               stop |-> price * (1000 - (-1) * stop), target |-> price * (1000 + (-1) * target)]
      BY <1>3 DEF Vote
    <2>2. 1000 - (-1) * stop = 1000 + stop /\ 1000 + (-1) * target = 1000 - target
      OBVIOUS
    <2>3. v = [side |-> "SELL", confidence |-> confidence, entry |-> 1000 * price,
               stop |-> 1000 * price + s, target |-> 1000 * price - t]
      BY <1>1, <2>1, <2>2
    <2> HIDE DEF v, s, t
    <2> QED BY <1>1, <2>3 DEF Levelled, StopsSound, v
  <1> QED BY <1>2, <1>3

\* The averages after the changes up to n: the first of them, and one from
\* the one before.
First(closes) ==
    [gain |-> SumFunctionOnSet(Gains(closes), 1..RsiPeriod),
     loss |-> SumFunctionOnSet(Losses(closes), 1..RsiPeriod),
     unit |-> RsiPeriod]
Smooth(a, closes, k) ==
    [gain |-> a.gain * (RsiPeriod - 1) + Gains(closes)[k] * a.unit,
     loss |-> a.loss * (RsiPeriod - 1) + Losses(closes)[k] * a.unit,
     unit |-> a.unit * RsiPeriod]
AreAverages(f, closes, n) ==
    f = [k \in RsiPeriod..n |->
            IF k = RsiPeriod THEN First(closes) ELSE Smooth(f[k - 1], closes, k)]
AverageType == [gain : Nat, loss : Nat, unit : Nat \ {0}]

LEMMA AveragesUnfold ==
  ASSUME NEW closes
  PROVE  Averages(closes) = CHOOSE f : AreAverages(f, closes, Len(closes) - 1)
  BY DEF Averages, AreAverages, First, Smooth

\* There are such averages however long the series.
LEMMA AveragesExist ==
  ASSUME NEW closes, NEW last \in Int, last >= RsiPeriod
  PROVE  \E f : AreAverages(f, closes, last)
  <1> DEFINE Bad == {n \in RsiPeriod..last : ~ \E f : AreAverages(f, closes, n)}
             id == [n \in Bad |-> n]
  <1> SUFFICES ASSUME Bad # {} PROVE FALSE
    <2>1. last \in RsiPeriod..last
      BY Periods
    <2> QED BY <2>1
  <1>1. IsFiniteSet(Bad)
    <2>1. IsFiniteSet(RsiPeriod..last)
      BY Periods, FS_Interval
    <2> QED BY <2>1, FS_Subset
  <1>2. \A n \in Bad : id[n] = n /\ id[n] \in Int
    BY Periods
  <1>3. PICK n \in Bad : \A m \in Bad : n <= m
    <2> HIDE DEF id, Bad
    <2>1. PICK n \in Bad : \A m \in Bad : id[n] <= id[m]
      BY <1>1, <1>2, LeastExists
    <2> QED BY <1>2, <2>1
  <1>4. n \in Int /\ n >= RsiPeriod /\ n <= last
    BY Periods
  <1>5. CASE n = RsiPeriod
    <2> DEFINE f == [k \in RsiPeriod..n |-> First(closes)]
    <2>1. \A k \in RsiPeriod..n : k = RsiPeriod
      BY <1>5, Periods
    <2>2. AreAverages(f, closes, n)
      BY <2>1 DEF AreAverages
    <2> QED BY <2>2
  <1>6. CASE n > RsiPeriod
    <2>1. n - 1 \in RsiPeriod..last /\ ~(n <= n - 1)
      BY <1>4, <1>6, Periods
    <2>2. PICK g : AreAverages(g, closes, n - 1)
      BY <1>3, <2>1
    <2> DEFINE f == [k \in RsiPeriod..n |->
                        IF k = n THEN Smooth(g[n - 1], closes, n) ELSE g[k]]
    <2>3. \A k \in RsiPeriod..n :
            f[k] = IF k = RsiPeriod THEN First(closes) ELSE Smooth(f[k - 1], closes, k)
      <3> TAKE k \in RsiPeriod..n
      <3>1. k \in Int /\ RsiPeriod <= k /\ k <= n /\ RsiPeriod \in Int
        BY Periods, <1>4
      <3>2. CASE k = n
        <4>1. f[n - 1] = g[n - 1] /\ n # RsiPeriod /\ f[n] = Smooth(g[n - 1], closes, n)
          BY <1>4, <1>6, <3>1
        <4> QED BY <3>2, <4>1
      <3>3. CASE k # n
        <4>1. k \in RsiPeriod..(n - 1) /\ f[k] = g[k]
          BY <1>4, <3>1, <3>3
        <4>2. k # RsiPeriod => f[k - 1] = g[k - 1]
          BY <1>4, <3>1, <3>3
        <4>3. g[k] = IF k = RsiPeriod THEN First(closes) ELSE Smooth(g[k - 1], closes, k)
          BY <2>2, <4>1 DEF AreAverages
        <4> HIDE DEF f
        <4> QED BY <4>1, <4>2, <4>3
      <3> QED BY <3>2, <3>3
    <2>4. f = [k \in RsiPeriod..n |-> f[k]]
      OBVIOUS
    <2> HIDE DEF f
    <2>5. AreAverages(f, closes, n)
      BY <2>3, <2>4 DEF AreAverages
    <2> QED BY <2>5
  <1> QED BY <1>4, <1>5, <1>6, Periods

\* A set that has the first averages, and is closed under smoothing, has the
\* last: the induction along the series.
LEMMA AveragesWithin ==
  ASSUME NEW closes \in Seq(Nat \ {0}), Len(closes) >= RsiPeriod + 1, NEW T,
         First(closes) \in T,
         \A k \in 1..(Len(closes) - 1) : \A a \in T : Smooth(a, closes, k) \in T
  PROVE  Averages(closes)[Len(closes) - 1] \in T
  <1> DEFINE last == Len(closes) - 1
             f == Averages(closes)
             Bad == {n \in RsiPeriod..last : f[n] \notin T}
             id == [n \in Bad |-> n]
  <1>1. last \in Int /\ last >= RsiPeriod /\ RsiPeriod \in Nat \ {0}
    BY Periods
  <1>2. AreAverages(f, closes, last)
    <2> HIDE DEF last
    <2>1. \E g : AreAverages(g, closes, last)
      BY <1>1, AveragesExist
    <2> QED BY <2>1, AveragesUnfold DEF last
  <1> HIDE DEF f
  <1>3. \A k \in RsiPeriod..last :
          f[k] = IF k = RsiPeriod THEN First(closes) ELSE Smooth(f[k - 1], closes, k)
    BY <1>2 DEF AreAverages
  <1> SUFFICES ASSUME Bad # {} PROVE FALSE
    <2>1. last \in RsiPeriod..last
      BY <1>1
    <2> QED BY <2>1 DEF f
  <1>4. IsFiniteSet(Bad)
    <2>1. IsFiniteSet(RsiPeriod..last)
      BY <1>1, FS_Interval
    <2> QED BY <2>1, FS_Subset
  <1>5. \A n \in Bad : id[n] = n /\ id[n] \in Int
    BY <1>1
  <1>6. PICK n \in Bad : \A m \in Bad : n <= m
    <2> HIDE DEF id, Bad
    <2>1. PICK n \in Bad : \A m \in Bad : id[n] <= id[m]
      BY <1>4, <1>5, LeastExists
    <2> QED BY <1>5, <2>1
  <1>7. \A k \in 1..last : \A a \in T : Smooth(a, closes, k) \in T
    OBVIOUS
  <1> HIDE DEF last
  <1>8. n \in Int /\ n >= RsiPeriod /\ n <= last /\ f[n] \notin T
    BY <1>1
  <1>9. n # RsiPeriod /\ f[n] = Smooth(f[n - 1], closes, n)
    BY <1>1, <1>3, <1>8
  <1>10. n - 1 \in RsiPeriod..last /\ ~(n <= n - 1) /\ n \in 1..last
    BY <1>1, <1>8, <1>9
  <1>11. f[n - 1] \in T
    BY <1>6, <1>10
  <1> QED BY <1>7, <1>8, <1>9, <1>10, <1>11

LEMMA ChangesTyped ==
  ASSUME NEW closes \in Seq(Nat \ {0})
  PROVE  \A k \in 1..(Len(closes) - 1) : Gains(closes)[k] \in Nat /\ Losses(closes)[k] \in Nat
  <1> TAKE k \in 1..(Len(closes) - 1)
  <1>1. closes[k] \in Nat /\ closes[k + 1] \in Nat
    OBVIOUS
  <1> QED BY <1>1 DEF Gains, Losses, Gain

LEMMA FirstTyped ==
  ASSUME NEW closes \in Seq(Nat \ {0}), Len(closes) >= RsiPeriod + 1
  PROVE  First(closes) \in AverageType
  <1>1. RsiPeriod \in Nat \ {0} /\ Len(closes) \in Nat
    BY Periods
  <1>2. IsFiniteSet(1..RsiPeriod) /\ 1..RsiPeriod \subseteq 1..(Len(closes) - 1)
    BY <1>1, FS_Interval
  <1>3. Total(Gains(closes), 1..RsiPeriod) \in Nat /\ Total(Losses(closes), 1..RsiPeriod) \in Nat
    BY <1>2, ChangesTyped, SumNonnegative
  <1> QED BY <1>1, <1>3 DEF Total, First, AverageType

LEMMA SmoothTyped ==
  ASSUME NEW closes \in Seq(Nat \ {0}), NEW k \in 1..(Len(closes) - 1), NEW a \in AverageType
  PROVE  Smooth(a, closes, k) \in AverageType
  <1>1. /\ a.gain \in Nat /\ a.loss \in Nat /\ a.unit \in Nat \ {0}
        /\ RsiPeriod \in Nat \ {0} /\ RsiPeriod - 1 \in Nat
    BY Periods DEF AverageType
  <1>2. Gains(closes)[k] \in Nat /\ Losses(closes)[k] \in Nat
    BY ChangesTyped
  <1>3. \A x, y \in Nat : x * y \in Nat
    OBVIOUS
  <1>4. \A x, y \in Nat \ {0} : x * y \in Nat \ {0}
    OBVIOUS
  <1>5. a.gain * (RsiPeriod - 1) \in Nat /\ Gains(closes)[k] * a.unit \in Nat
    BY <1>1, <1>2, <1>3
  <1>6. a.loss * (RsiPeriod - 1) \in Nat /\ Losses(closes)[k] * a.unit \in Nat
    BY <1>1, <1>2, <1>3
  <1>7. a.unit * RsiPeriod \in Nat \ {0}
    BY <1>1, <1>4
  <1> DEFINE x == a.gain * (RsiPeriod - 1) + Gains(closes)[k] * a.unit
             y == a.loss * (RsiPeriod - 1) + Losses(closes)[k] * a.unit
             z == a.unit * RsiPeriod
  <1>8. x \in Nat /\ y \in Nat
    BY <1>5, <1>6
  <1>9. Smooth(a, closes, k) = [gain |-> x, loss |-> y, unit |-> z]
    BY DEF Smooth
  <1> HIDE DEF x, y, z
  <1>10. z \in Nat \ {0}
    BY <1>7 DEF z
  <1> QED BY <1>8, <1>9, <1>10 DEF AverageType

LEMMA AveragesTyped ==
  ASSUME NEW closes \in Seq(Nat \ {0}), Len(closes) >= RsiPeriod + 1
  PROVE  Averages(closes)[Len(closes) - 1] \in AverageType
  BY AveragesWithin, FirstTyped, SmoothTyped

\* RSISignalGenerator._calculate_rsi: whatever the prices, also when they do
\* not move at all, the index exists and is between 0 and 100.
THEOREM RsiInRange ==
  ASSUME NEW closes \in Seq(Nat \ {0}), Len(closes) >= RsiPeriod + 1
  PROVE  RSI(closes) \in Nat /\ RSI(closes) <= 10000
  <1> DEFINE a == Averages(closes)[Len(closes) - 1]
  <1>1. a.gain \in Nat /\ a.loss \in Nat
    BY AveragesTyped DEF AverageType
  <1>2. RSI(closes) = IF a.loss = 0 THEN 10000 ELSE HalfEven(10000 * a.gain, a.gain + a.loss)
    BY DEF RSI
  <1> HIDE DEF a
  <1>3. CASE a.loss # 0
    <2> DEFINE num == 10000 * a.gain
               den == a.gain + a.loss
    <2>1. num \in Nat /\ den \in Nat \ {0} /\ 0 * den <= num /\ num <= 10000 * den
      BY <1>1, <1>3
    <2> HIDE DEF num, den
    <2>2. HalfEven(num, den) \in Int /\ 0 <= HalfEven(num, den) /\ HalfEven(num, den) <= 10000
      BY <2>1, HalfEvenBetween
    <2>3. RSI(closes) = HalfEven(num, den)
      BY <1>2, <1>3 DEF num, den
    <2> QED BY <2>2, <2>3
  <1> QED BY <1>2, <1>3

LEMMA RsiWellFormed ==
  ASSUME NEW closes \in Seq(Nat \ {0})
  PROVE  WellFormed(RsiVote(closes))
  <1> SUFFICES ASSUME Len(closes) >= RsiPeriod + 1 PROVE WellFormed(RsiVote(closes))
    BY Periods DEF RsiVote, WellFormed
  <1>1. RSI(closes) \in Nat /\ RSI(closes) <= 10000
    BY RsiInRange
  <1>2. CurrentPrice(closes) \in Nat \ {0}
    BY Periods DEF CurrentPrice
  <1>3. ASSUME NEW b \in Nat PROVE RsiConfidence(b) \in Nat
    <2>1. CASE b >= 1000
      BY <2>1 DEF RsiConfidence
    <2>2. CASE b < 1000
      <3> DEFINE num == b * 2500
      <3>1. num \in Nat /\ 1000 \in Nat \ {0} /\ 0 * 1000 <= num /\ num <= 2500 * 1000
        BY <2>2
      <3> HIDE DEF num
      <3>2. HalfEven(num, 1000) \in Int /\ 0 <= HalfEven(num, 1000) /\ HalfEven(num, 1000) <= 2500
        BY <3>1, HalfEvenBetween
      <3>3. RsiConfidence(b) = 6000 + HalfEven(num, 1000)
        BY <2>2 DEF RsiConfidence, num
      <3> QED BY <3>2, <3>3
    <2> QED BY <2>1, <2>2
  <1> DEFINE r == RSI(closes)
             p == CurrentPrice(closes)
  <1>4. RsiVote(closes) = CASE r < 3000 -> Vote("BUY", RsiConfidence(3000 - r), p, 20, 40)
                            [] r > 7000 -> Vote("SELL", RsiConfidence(r - 7000), p, 20, 40)
                            [] OTHER -> Silent
    BY Periods DEF RsiVote
  <1> HIDE DEF r, p
  <1>5. r < 3000 => Levelled(Vote("BUY", RsiConfidence(3000 - r), p, 20, 40))
    <2> SUFFICES ASSUME r < 3000 PROVE Levelled(Vote("BUY", RsiConfidence(3000 - r), p, 20, 40))
      OBVIOUS
    <2>1. 3000 - r \in Nat
      BY <1>1 DEF r
    <2>2. RsiConfidence(3000 - r) \in Nat /\ p \in Nat \ {0}
      BY <1>2, <1>3, <2>1 DEF p
    <2> QED BY <2>2, VoteLevelled
  <1>6. r > 7000 => Levelled(Vote("SELL", RsiConfidence(r - 7000), p, 20, 40))
    <2> SUFFICES ASSUME r > 7000 PROVE Levelled(Vote("SELL", RsiConfidence(r - 7000), p, 20, 40))
      OBVIOUS
    <2>1. r - 7000 \in Nat
      BY <1>1 DEF r
    <2>2. RsiConfidence(r - 7000) \in Nat /\ p \in Nat \ {0}
      BY <1>2, <1>3, <2>1 DEF p
    <2> QED BY <2>2, VoteLevelled
  <1>7. r \in Int
    BY <1>1 DEF r
  <1>8. CASE r < 3000
    <2>1. RsiVote(closes) = Vote("BUY", RsiConfidence(3000 - r), p, 20, 40)
      BY <1>4, <1>7, <1>8
    <2> QED BY <1>5, <1>8, <2>1 DEF WellFormed
  <1>9. CASE r > 7000
    <2>1. RsiVote(closes) = Vote("SELL", RsiConfidence(r - 7000), p, 20, 40)
      BY <1>4, <1>7, <1>9
    <2> QED BY <1>6, <1>9, <2>1 DEF WellFormed
  <1>10. CASE r >= 3000 /\ r <= 7000
    BY <1>4, <1>7, <1>10 DEF WellFormed
  <1> QED BY <1>7, <1>8, <1>9, <1>10

\* RSISignalGenerator.generate: a price that has not fallen since the first
\* candle, one that has not moved included, says SELL with the greatest
\* confidence, for the index without a loss is 100.
THEOREM NoFallSells ==
  ASSUME NEW closes \in Seq(Nat \ {0}), Len(closes) >= RsiPeriod + 1,
         \A k \in 1..(Len(closes) - 1) : closes[k] <= closes[k + 1]
  PROVE  RsiVote(closes) = Vote("SELL", 8500, CurrentPrice(closes), 20, 40)
  <1> DEFINE T == {a \in AverageType : a.loss = 0}
  <1>1. \A k \in 1..(Len(closes) - 1) : Losses(closes)[k] = 0
    <2> TAKE k \in 1..(Len(closes) - 1)
    <2>1. closes[k] \in Nat /\ closes[k + 1] \in Nat /\ closes[k] <= closes[k + 1]
      OBVIOUS
    <2> QED BY <2>1 DEF Losses, Gain
  <1>2. First(closes) \in T
    <2>1. RsiPeriod \in Nat \ {0} /\ Len(closes) \in Nat
      BY Periods
    <2>2. IsFiniteSet(1..RsiPeriod) /\ 1..RsiPeriod \subseteq 1..(Len(closes) - 1)
      BY <2>1, FS_Interval
    <2>3. Total(Losses(closes), 1..RsiPeriod) = 0
      BY <1>1, <2>2, SumZero
    <2> QED BY <2>3, FirstTyped DEF First, Total
  <1>3. ASSUME NEW k \in 1..(Len(closes) - 1), NEW a \in T PROVE Smooth(a, closes, k) \in T
    <2>1. a.loss = 0 /\ a.unit \in Nat /\ RsiPeriod - 1 \in Int /\ Losses(closes)[k] = 0
      BY <1>1, Periods DEF AverageType
    <2>2. a.loss * (RsiPeriod - 1) + Losses(closes)[k] * a.unit = 0
      BY <2>1
    <2> QED BY <2>2, SmoothTyped DEF Smooth
  <1> HIDE DEF T
  <1>4. Averages(closes)[Len(closes) - 1] \in T
    BY <1>2, <1>3, AveragesWithin
  <1>5. RSI(closes) = 10000
    BY <1>4 DEF RSI, T
  <1>6. RsiVote(closes) = Vote("SELL", RsiConfidence(3000), CurrentPrice(closes), 20, 40)
    BY <1>5, Periods DEF RsiVote
  <1> QED BY <1>6 DEF RsiConfidence

LEMMA SumOfType ==
  ASSUME NEW closes \in Seq(Nat \ {0}), NEW period \in Nat, NEW offset \in {0, 1},
         Len(closes) >= period + 1
  PROVE  SumOf(closes, period, offset) \in Int
  <1> DEFINE a == Len(closes) - offset - period + 1
             b == Len(closes) - offset
  <1>1. a \in Int /\ b \in Int /\ 1 <= a /\ b <= Len(closes)
    OBVIOUS
  <1>2. SumOf(closes, period, offset) = Total(closes, a..b)
    BY DEF SumOf, Total
  <1> HIDE DEF a, b
  <1>3. IsFiniteSet(a..b)
    BY <1>1, FS_Interval
  <1>4. \A k \in a..b : closes[k] \in Int
    BY <1>1
  <1> QED BY <1>2, <1>3, <1>4, SumType

LEMMA SmaWellFormed ==
  ASSUME NEW closes \in Seq(Nat \ {0})
  PROVE  WellFormed(SmaVote(closes))
  <1> SUFFICES ASSUME Len(closes) >= SlowPeriod + 2 PROVE WellFormed(SmaVote(closes))
    BY DEF SmaVote, WellFormed
  <1> DEFINE p == CurrentPrice(closes)
             v(side) == Vote(side, SmaConfidence(closes), p, 20, 40)
  <1>1. p \in Nat \ {0}
    BY Periods DEF CurrentPrice
  <1>2. Gap(closes, 0) \in Int
    <2>1. SumOf(closes, FastPeriod, 0) \in Int /\ SumOf(closes, SlowPeriod, 0) \in Int
      BY Periods, SumOfType
    <2> QED BY <2>1, Periods DEF Gap
  <1>3. SmaConfidence(closes) \in Nat
    <2> DEFINE num == 250000 * Magnitude(Gap(closes, 0))
               den == FastPeriod * SlowPeriod * p
               h == HalfEven(num, den)
               least == Min({2500, h})
    <2>1. num \in Nat
      BY <1>2 DEF Magnitude
    <2>2. den \in Nat \ {0}
      <3>1. \A x, y \in Nat \ {0} : x * y \in Nat \ {0}
        OBVIOUS
      <3> HIDE DEF p
      <3> QED BY <1>1, <3>1, Periods
    <2>3. SmaConfidence(closes) = 6000 + least
      BY DEF SmaConfidence
    <2>4. h \in Int /\ 0 <= h
      <3>1. 0 * den <= num /\ num <= num * den
        <4> HIDE DEF num, den
        <4>1. num * 1 <= num * den
          BY <2>1, <2>2
        <4> QED BY <2>1, <2>2, <4>1
      <3> HIDE DEF num, den
      <3> QED BY <2>1, <2>2, <3>1, HalfEvenBetween
    <2>5. least = 2500 \/ least = h
      <3> HIDE DEF h
      <3>1. \E x \in {2500, h} : \A y \in {2500, h} : x <= y
        <4>1. CASE 2500 <= h BY <2>4, <4>1
        <4>2. CASE h <= 2500 BY <2>4, <4>2
        <4> QED BY <2>4, <4>1, <4>2
      <3> QED BY <3>1 DEF Min
    <2> HIDE DEF least, h
    <2> QED BY <2>3, <2>4, <2>5
  <1>4. \A side \in {"BUY", "SELL"} : Levelled(v(side))
    <2> TAKE side \in {"BUY", "SELL"}
    <2> HIDE DEF p
    <2> QED BY <1>1, <1>3, VoteLevelled
  <1>5. SmaVote(closes) \in {v("BUY"), v("SELL"), Silent}
    BY DEF SmaVote
  <1> HIDE DEF v
  <1> QED BY <1>4, <1>5 DEF WellFormed

\* A prediction as the model and its features give it.
PredictionType == [stale : BOOLEAN, calm : BOOLEAN, missing : Nat, probability : Nat]

LEMMA MlWellFormed ==
  ASSUME NEW prediction \in PredictionType, NEW closes \in Seq(Nat \ {0})
  PROVE  WellFormed(MlVote(prediction, closes))
  <1> DEFINE d == Direction(prediction)
             p == CurrentPrice(closes)
             c == MlConfidence(prediction)
  <1> SUFFICES ASSUME Len(closes) >= MlBars, d # "HOLD"
               PROVE  WellFormed(MlVote(prediction, closes))
    BY Periods DEF MlVote, WellFormed
  <1>1. p \in Nat \ {0}
    BY Periods DEF CurrentPrice
  <1>2. d \in {"BUY", "SELL"}
    BY DEF Direction
  <1>3. c \in Nat
    <2>1. Probability(prediction) \in Int
      BY DEF Probability, PredictionType
    <2> DEFINE e == IF d = "SELL" THEN 10000 - Probability(prediction) ELSE Probability(prediction)
               least == Min({9000, e + 1000})
    <2>2. e \in Int
      BY <2>1
    <2>3. c = Max({6000, least})
      BY DEF MlConfidence
    <2> HIDE DEF e
    <2>4. least = 9000 \/ least = e + 1000
      <3> DEFINE x == e + 1000
      <3>1. x \in Int
        BY <2>2
      <3> HIDE DEF x
      <3>2. \E m \in {9000, x} : \A y \in {9000, x} : m <= y
        <4>1. CASE 9000 <= x BY <3>1, <4>1
        <4>2. CASE x <= 9000 BY <3>1, <4>2
        <4> QED BY <3>1, <4>1, <4>2
      <3>3. Min({9000, x}) \in {9000, x}
        BY <3>2 DEF Min
      <3> QED BY <3>3 DEF x
    <2>5. least \in Int
      BY <2>2, <2>4
    <2> HIDE DEF least
    <2>6. Max({6000, least}) \in {6000, least} /\ Max({6000, least}) >= 6000
      <3>1. \E m \in {6000, least} : \A y \in {6000, least} : m >= y
        <4>1. CASE 6000 <= least BY <2>5, <4>1
        <4>2. CASE least <= 6000 BY <2>5, <4>2
        <4> QED BY <2>5, <4>1, <4>2
      <3> QED BY <3>1 DEF Max
    <2> HIDE DEF c
    <2> QED BY <2>3, <2>5, <2>6
  <1>4. MlVote(prediction, closes) = Vote(d, c, p, 10, 15)
    BY Periods DEF MlVote
  <1> HIDE DEF d, p, c
  <1>5. Levelled(Vote(d, c, p, 10, 15))
    BY <1>1, <1>2, <1>3, VoteLevelled
  <1> QED BY <1>4, <1>5 DEF WellFormed

-----------------------------------------------------------------------------
(* What the composite makes of them.                                        *)

\* CompositeSignalGenerator.generate: whichever generators answer, and
\* whatever they say, a composite signal takes a direction that one gave and
\* none opposed, a confidence between the least and the greatest and not below
\* the minimum, and levels that the pipeline accepts.
THEOREM CompositeSound ==
  ASSUME NEW n \in Nat, NEW weights, NEW o, DOMAIN o.votes = 1..n,
         \A k \in 1..n : weights[k] \in Nat \ {0} /\ WellFormed(o.votes[k]),
         o.signal = Composite(o.votes, weights), o.signal # Silent
  PROVE  Sound(o)
  <1> DEFINE votes == o.votes
             heard == {k \in 1..n : votes[k] # Silent}
             weight == SumFunctionOnSet(weights, heard)
             product == [k \in heard |-> votes[k].confidence * weights[k]]
             average == HalfEven(SumFunctionOnSet(product, heard), weight)
             confidences == {votes[k].confidence : k \in heard}
             top == Max(confidences)
             leaders == {k \in heard : votes[k].confidence = top}
             best == Min(leaders)
             sides == {votes[k].side : k \in 1..n} \ {"HOLD"}
  <1>1. /\ Cardinality(sides) = 1 /\ average >= MinCombined
        /\ o.signal = [votes[best] EXCEPT !.confidence = average]
    BY DEF Composite, Agreed
  <1>2. \A k \in heard : Levelled(votes[k]) /\ votes[k].side \in sides
    BY DEF WellFormed, Levelled
  <1>3. PICK side : sides = {side}
    <2>1. sides \subseteq {"BUY", "SELL"}
      BY DEF WellFormed, Levelled, Silent
    <2>2. IsFiniteSet({"BUY", "SELL"})
      <3>1. IsFiniteSet({"BUY"} \cup {"SELL"})
        BY FS_Singleton, FS_AddElement
      <3>2. {"BUY"} \cup {"SELL"} = {"BUY", "SELL"}
        OBVIOUS
      <3> QED BY <3>1, <3>2, Zenon
    <2> HIDE DEF sides
    <2>3. IsFiniteSet(sides)
      BY <2>1, <2>2, FS_Subset
    <2> QED BY <1>1, <2>3, FS_Singleton
  <1>4. \A k \in heard : votes[k].side = side
    BY <1>2, <1>3
  <1>5. heard # {} /\ IsFiniteSet(heard)
    <2>1. PICK k \in 1..n : votes[k].side = side /\ side # "HOLD"
      BY <1>3
    <2>2. k \in heard
      BY <2>1 DEF Silent
    <2>3. IsFiniteSet(1..n)
      BY FS_Interval
    <2> QED BY <2>2, <2>3, FS_Subset
  <1>6. best \in heard
    <2> DEFINE c == [k \in heard |-> votes[k].confidence]
    <2>1. \A k \in heard : c[k] = votes[k].confidence /\ c[k] \in Int
      BY <1>2 DEF Levelled
    <2>2. PICK m \in heard : \A k \in heard : c[k] <= c[m]
      <3> HIDE DEF c, heard
      <3> QED BY <1>5, <2>1, GreatestExists
    <2>3. c[m] \in confidences /\ \A x \in confidences : c[m] >= x
      BY <2>1, <2>2
    <2>4. top \in confidences
      <3> HIDE DEF c, confidences
      <3> QED BY <2>3 DEF Max
    <2>5. leaders # {}
      BY <2>4
    <2> DEFINE id == [k \in leaders |-> k]
    <2>6. \A k \in leaders : id[k] = k /\ id[k] \in Int
      OBVIOUS
    <2>7. IsFiniteSet(leaders) /\ leaders \subseteq heard
      BY <1>5, FS_Subset
    <2>8. \E m1 \in leaders : \A k \in leaders : m1 <= k
      <3> HIDE DEF id, leaders
      <3>1. PICK m1 \in leaders : \A k \in leaders : id[m1] <= id[k]
        BY <2>5, <2>6, <2>7, LeastExists
      <3> QED BY <2>6, <3>1
    <2>9. best \in leaders
      <3> HIDE DEF leaders
      <3> QED BY <2>8 DEF Min
    <2> QED BY <2>7, <2>9
  <1>7. /\ average \in Int
        /\ \E low, high \in heard :
             votes[low].confidence <= average /\ average <= votes[high].confidence
    <2> DEFINE c == [k \in heard |-> votes[k].confidence]
    <2>1. \A k \in heard : /\ c[k] \in Nat /\ weights[k] \in Nat \ {0}
                           /\ product[k] = c[k] * weights[k] /\ c[k] = votes[k].confidence
      BY <1>2 DEF Levelled
    <2>2. average = HalfEven(Total(product, heard), Total(weights, heard))
      BY DEF Total
    <2> HIDE DEF c, product, heard, average
    <2>3. /\ average \in Int
          /\ \E low, high \in heard : c[low] <= average /\ average <= c[high]
      BY <1>5, <2>1, <2>2, AverageBetween
    <2> QED BY <2>1, <2>3
  <1> DEFINE said == {o.votes[k] : k \in DOMAIN o.votes} \ {Silent}
  <1>8. /\ \A k \in heard : votes[k] \in said
        /\ \A v \in said : \E k \in heard : v = votes[k]
    OBVIOUS
  <1> HIDE DEF heard, average, best, sides
  <1>9. /\ o.signal.side = side /\ o.signal.confidence = average
        /\ o.signal.entry = votes[best].entry /\ o.signal.stop = votes[best].stop
        /\ o.signal.target = votes[best].target
    <2>1. Levelled(votes[best]) /\ votes[best].side = side
      BY <1>2, <1>4, <1>6
    <2> QED BY <1>1, <2>1 DEF Levelled
  <1>10. StopsSound(o.signal)
    <2>1. StopsSound(votes[best]) /\ votes[best].side = side
      BY <1>2, <1>4, <1>6 DEF Levelled
    <2> QED BY <1>9, <2>1 DEF StopsSound
  <1>11. \A v \in said : v.side = o.signal.side
    BY <1>4, <1>8, <1>9
  <1>12. \E low, high \in said :
           low.confidence <= o.signal.confidence /\ o.signal.confidence <= high.confidence
    BY <1>7, <1>8, <1>9
  <1> HIDE DEF votes
  <1> QED BY <1>1, <1>9, <1>10, <1>11, <1>12 DEF Sound

-----------------------------------------------------------------------------
(* Offers and shadow signals.                                               *)

OfferInv == generated \in Generated /\ OffersSound

LEMMA GeneratedWellFormed ==
  ASSUME NEW heard \in Generated
  PROVE  \E ml, rsi, sma : /\ heard = <<ml, rsi, sma>>
                           /\ WellFormed(ml) /\ WellFormed(rsi) /\ WellFormed(sma)
  <1>1. PICK p \in Predictions, c \in Series : heard = <<MlVote(p, c), RsiVote(c), SmaVote(c)>>
    BY DEF Generated
  <1>2. p \in PredictionType /\ c \in Seq(Nat \ {0})
    BY ScanAssumption DEF PredictionType
  <1>3. WellFormed(MlVote(p, c)) /\ WellFormed(RsiVote(c)) /\ WellFormed(SmaVote(c))
    BY <1>2, MlWellFormed, RsiWellFormed, SmaWellFormed
  <1> QED BY <1>1, <1>3

LEMMA OfferSound ==
  ASSUME generated \in Generated, NEW g, NEW raised, Offer(g, raised).signal # Silent
  PROVE  Sound(Offer(g, raised))
  <1> DEFINE o == Offer(g, raised)
             all == IF g = "momentum" THEN Tail(generated) ELSE generated
  <1>1. PICK ml, rsi, sma : /\ generated = <<ml, rsi, sma>>
                            /\ WellFormed(ml) /\ WellFormed(rsi) /\ WellFormed(sma)
    BY GeneratedWellFormed
  <1>2. /\ o.votes = [k \in DOMAIN all |-> IF k \in raised THEN Silent ELSE all[k]]
        /\ o.signal = Composite(o.votes, Weights(g))
    BY DEF Offer, Votes
  <1>3. CASE g = "momentum"
    <2>1. all = <<rsi, sma>>
      BY <1>1, <1>3
    <2>2. /\ DOMAIN all = 1..2
          /\ \A k \in 1..2 : WellFormed(all[k]) /\ Weights(g)[k] \in Nat \ {0}
      BY <1>1, <1>3, <2>1 DEF Weights
    <2> HIDE DEF all
    <2>3. DOMAIN o.votes = 1..2 /\ \A k \in 1..2 : WellFormed(o.votes[k])
      BY <1>2, <2>2 DEF WellFormed
    <2> HIDE DEF o
    <2> QED BY <1>2, <2>2, <2>3, CompositeSound DEF o
  <1>4. CASE g # "momentum"
    <2>1. all = <<ml, rsi, sma>>
      BY <1>1, <1>4
    <2>2. /\ DOMAIN all = 1..3
          /\ \A k \in 1..3 : WellFormed(all[k]) /\ Weights(g)[k] \in Nat \ {0}
      BY <1>1, <1>4, <2>1 DEF Weights
    <2> HIDE DEF all
    <2>3. DOMAIN o.votes = 1..3 /\ \A k \in 1..3 : WellFormed(o.votes[k])
      BY <1>2, <2>2 DEF WellFormed
    <2> HIDE DEF o
    <2> QED BY <1>2, <2>2, <2>3, CompositeSound DEF o
  <1> QED BY <1>3, <1>4

LEMMA NextOfferInv ==
  ASSUME OfferInv, [ScanNext]_scanVars
  PROVE  OfferInv'
  <1> USE DEF OfferInv, OffersSound
  <1>1. CASE BeginCycle \/ EndScan \/ ShadowBegins \/ UNCHANGED scanVars
    BY <1>1 DEF BeginCycle, EndScan, ShadowBegins, shadowing, scanVars
  <1>2. ASSUME NEW s \in Symbols, Fetch(s) \/ FetchFails(s) PROVE OfferInv'
    BY <1>2 DEF Fetch, FetchFails, shadowing
  <1>3. ASSUME NEW g \in strategies, Evaluate(g) PROVE OfferInv'
    <2>1. PICK raised : offers' = IF Offer(g, raised).signal = Silent THEN offers
                                  ELSE offers \cup {Offer(g, raised)}
      BY <1>3 DEF Evaluate
    <2>2. generated' = generated /\ shadow' = shadow
      BY <1>3 DEF Evaluate, shadowing
    <2>3. Offer(g, raised).signal # Silent => Sound(Offer(g, raised))
      BY OfferSound
    <2> QED BY <2>1, <2>2, <2>3
  <1>4. ASSUME NEW g \in strategies, EvaluateFails(g) PROVE OfferInv'
    BY <1>4 DEF EvaluateFails, shadowing
  <1>5. ASSUME NEW s \in Symbols, ShadowScan(s) PROVE OfferInv'
    <2>1. PICK votes \in Generated :
            IF ShadowAccepts(votes[1]) THEN shadow' = votes[1] ELSE shadow' = shadow
      BY <1>5 DEF ShadowScan
    <2>2. generated' = generated /\ offers' = offers
      BY <1>5 DEF ShadowScan
    <2>3. WellFormed(votes[1])
      BY GeneratedWellFormed
    <2>4. shadow' # Silent => StopsSound(shadow')
      BY <2>1, <2>3 DEF WellFormed, Levelled
    <2> QED BY <2>2, <2>4
  <1>6. ASSUME NEW s \in Symbols, ShadowFails(s) PROVE OfferInv'
    BY <1>6 DEF ShadowFails
  <1> QED BY <1>1, <1>2, <1>3, <1>4, <1>5, <1>6 DEF ScanNext, ScanStep, ShadowStep

\* SignalScanner and MLShadowScanner: every signal offered or shadowed is one
\* that the pipeline's first check accepts, and every offer is unanimous and
\* as confident as its generators.
THEOREM OffersSoundHolds == ScanSpec => []OffersSound
  <1>1. ScanInit => OfferInv
    BY DEF ScanInit, OfferInv, OffersSound
  <1>2. OfferInv /\ [ScanNext]_scanVars => OfferInv'
    BY NextOfferInv
  <1>3. OfferInv => OffersSound
    BY DEF OfferInv
  <1> QED BY <1>1, <1>2, <1>3, PTL DEF ScanSpec

-----------------------------------------------------------------------------
(* The failures that strategies with one identifier count together.         *)

Several == Cardinality(strategies) > 1

\* Between two run_all the count is one at most.  Only the strategy of the
\* scanned symbol can fail, once; the others, one at least, clear the count
\* before it, after it, or both.
CountInv ==
    /\ strategies \subseteq Symbols /\ Several
    /\ waiting \subseteq strategies
    /\ symbol = "none" => waiting = {}
    /\ deactivated = {}
    /\ failures \in [Ids -> 0..2]
    /\ waiting = {} => failures["active"] <= 1
    /\ symbol \in waiting => failures["active"] <= 1
    /\ symbol \in waiting /\ waiting # strategies => failures["active"] = 0

LEMMA Named == "momentum" \notin Symbols /\ "none" \notin Symbols /\ MaxFailures \in Nat
  BY ScanAssumption

LEMMA InitCountInv == ScanInit /\ Several => CountInv
  <1> SUFFICES ASSUME ScanInit, Several PROVE CountInv
    OBVIOUS
  <1>1. strategies \subseteq Symbols
    <2>1. Cardinality({"momentum"}) = 1
      BY FS_Singleton
    <2> QED BY <2>1 DEF ScanInit, Deployed, Several
  <1> QED BY <1>1 DEF ScanInit, CountInv, Ids

LEMMA FetchCounts ==
  ASSUME CountInv, NEW s \in Symbols, Fetch(s)
  PROVE  CountInv'
  <1>1. waiting = {} /\ failures["active"] <= 1 /\ deactivated = {}
    BY DEF CountInv, Fetch
  <1>2. waiting' = strategies /\ strategies' = strategies /\ symbol' = s
        /\ failures' = failures /\ deactivated' = deactivated
    BY <1>1 DEF Fetch, runner
  <1>3. strategies # {}
    BY FS_EmptySet DEF CountInv, Several
  <1> QED BY <1>1, <1>2, <1>3, Named DEF CountInv, Several

LEMMA EvaluateCounts ==
  ASSUME CountInv, NEW g \in strategies, Evaluate(g)
  PROVE  CountInv'
  <1>1. failures' = [failures EXCEPT !["active"] = 0] /\ failures'["active"] = 0
        /\ failures' \in [Ids -> 0..2]
    BY DEF CountInv, Evaluate, CountSuccess, IdOf, Ids
  <1>2. waiting' = waiting \ {g} /\ g \in waiting /\ strategies' = strategies
        /\ symbol' = symbol /\ deactivated' = deactivated
    BY DEF Evaluate
  <1> QED BY <1>1, <1>2 DEF CountInv, Several

\* The only step that counts: it is the one failure of this run_all.
LEMMA FailureCounts ==
  ASSUME CountInv, MaxFailures >= 3, NEW g \in strategies, EvaluateFails(g)
  PROVE  CountInv'
  <1> DEFINE f == failures["active"]
  <1>1. g = symbol /\ g \in waiting /\ f \in 0..2 /\ f <= 1
    BY Named DEF CountInv, EvaluateFails, Concerns, Ids
  <1>2. failures' = [failures EXCEPT !["active"] = f + 1] /\ failures'["active"] = f + 1
        /\ failures' \in [Ids -> 0..2]
    BY <1>1 DEF CountInv, EvaluateFails, IdOf, Ids
  <1>3. deactivated' = {}
    BY <1>1, <1>2, Named DEF CountInv, EvaluateFails, IdOf
  <1>4. waiting' = waiting \ {g} /\ strategies' = strategies /\ symbol' = symbol
    BY DEF EvaluateFails
  <1>5. ASSUME waiting' = {} PROVE f = 0
    <2>1. waiting = {g}
      BY <1>1, <1>4, <1>5
    <2>2. Cardinality({g}) = 1
      BY FS_Singleton
    <2>3. waiting # strategies
      BY <2>1, <2>2 DEF CountInv, Several
    <2> QED BY <1>1, <2>3 DEF CountInv
  <1>6. symbol' \notin waiting'
    BY <1>1, <1>4
  <1> QED BY <1>1, <1>2, <1>3, <1>4, <1>5, <1>6 DEF CountInv, Several

LEMMA NextCountInv ==
  ASSUME CountInv, MaxFailures >= 3, [ScanNext]_scanVars
  PROVE  CountInv'
  <1>1. CASE BeginCycle \/ EndScan
    BY <1>1 DEF CountInv, Several, BeginCycle, EndScan, runner
  <1>2. ASSUME NEW s \in Symbols, Fetch(s) PROVE CountInv'
    BY <1>2, FetchCounts
  <1>3. ASSUME NEW s \in Symbols, FetchFails(s) PROVE CountInv'
    BY <1>3 DEF CountInv, Several, FetchFails, runner
  <1>4. ASSUME NEW g \in strategies, Evaluate(g) PROVE CountInv'
    BY <1>4, EvaluateCounts
  <1>5. ASSUME NEW g \in strategies, EvaluateFails(g) PROVE CountInv'
    BY <1>5, FailureCounts
  <1>6. CASE ShadowBegins
    BY <1>6 DEF CountInv, Several, ShadowBegins, runner
  <1>7. CASE ShadowStep
    BY <1>7 DEF CountInv, Several, ShadowStep, ShadowScan, ShadowFails, runner
  <1>8. CASE UNCHANGED scanVars
    BY <1>8 DEF CountInv, Several, scanVars, runner
  <1> QED BY <1>1, <1>2, <1>3, <1>4, <1>5, <1>6, <1>7, <1>8 DEF ScanNext, ScanStep

\* StrategyRunner._record_failure: with several models their failures never add
\* up to the three in a row that switch strategies off.  A limit of two would
\* be reached, when one strategy fails last in its scan and the next one first.
THEOREM SharedCountHolds ==
  ASSUME MaxFailures >= 3
  PROVE  ScanSpec => []SharedCountNeverTrips
  <1> DEFINE Inv == Several => CountInv
  <1>1. ScanInit => Inv
    BY InitCountInv
  <1>2. Inv /\ [ScanNext]_scanVars => Inv'
    <2>1. ASSUME [ScanNext]_scanVars PROVE strategies' = strategies
      BY <2>1 DEF ScanNext, ScanStep, ShadowStep, scanVars, BeginCycle, Fetch, FetchFails,
                  Evaluate, EvaluateFails, EndScan, ShadowBegins, ShadowScan, ShadowFails
    <2> QED BY <2>1, NextCountInv DEF Several
  <1>3. Inv => SharedCountNeverTrips
    BY DEF Several, CountInv, SharedCountNeverTrips
  <1> QED BY <1>1, <1>2, <1>3, PTL DEF ScanSpec

-----------------------------------------------------------------------------
(* The live feed.                                                           *)

Typed ==
    /\ held \subseteq Sockets
    /\ subscribed \subseteq serving /\ serving \subseteq Sockets
    /\ hasSocket \in [Browsers -> BOOLEAN]
    /\ published \in 0..MaxMessages
    /\ shown \in [Browsers -> [1..MaxMessages -> Nat]]
    /\ queue \in Seq(Nat)
    /\ \A i \in 1..Len(queue) : queue[i] \in 1..published

CastShaped ==
    /\ cast = [message |-> cast.message, size |-> cast.size,
               visited |-> cast.visited, dead |-> cast.dead]
    /\ Casting => cast.message \in 1..published

\* A change of the set during a broadcast is on record.
ChangeRecorded ==
    Casting => cast.message \in disturbed \/ Cardinality(subscribed) = cast.size

\* A browser listens to one socket at a time.
OneSocket ==
    /\ \A s, t \in held : Owner(s) = Owner(t) => s = t
    /\ \A s \in held : hasSocket[Owner(s)]

\* Events are taken in order, and nobody has seen one that is still to come.
Ordered ==
    /\ \A i, j \in 1..Len(queue) : i < j => queue[i] < queue[j]
    /\ Casting => \A i \in 1..Len(queue) : cast.message < queue[i]
    /\ \A b \in Browsers, i \in 1..Len(queue) : shown[b][queue[i]] = 0
    /\ \A b \in Browsers, m \in (published + 1)..MaxMessages : shown[b][m] = 0

\* Without a change, a browser that was shown the event has no socket left
\* that the broadcast has yet to serve.
Served ==
    Casting /\ cast.message \notin disturbed =>
        \A b \in Browsers :
            shown[b][cast.message] > 0 =>
                \A s \in subscribed \cap held : Owner(s) = b => s \in cast.visited

IInv ==
    /\ Typed /\ CastShaped /\ ChangeRecorded /\ OneSocket /\ Ordered /\ Served
    /\ SilenceExplained /\ ShownOnce

USE FeedAssumption
USE DEF service, network, endpoints, task, messages, history, bounds

-----------------------------------------------------------------------------
LEMMA InitIInv == Init => IInv
  <1> SUFFICES ASSUME Init PROVE IInv
    OBVIOUS
  <1> USE DEF Init
  <1>1. cast = Quiet /\ ~Casting
    BY DEF Casting
  <1>2. Typed
    <2>1. queue \in Seq(Nat) /\ Len(queue) = 0
      OBVIOUS
    <2> QED BY <2>1 DEF Typed
  <1>3. CastShaped /\ ChangeRecorded /\ Served
    BY <1>1 DEF CastShaped, ChangeRecorded, Served, Quiet
  <1>4. OneSocket /\ SilenceExplained /\ ShownOnce
    BY DEF OneSocket, SilenceExplained, ShownOnce
  <1>5. Ordered
    BY <1>1 DEF Ordered
  <1> QED BY <1>2, <1>3, <1>4, <1>5 DEF IInv

\* connect opens at most one socket, and only without another; nothing that
\* the API still serves is taken for a new one.
LEMMA ReconnectKeeps ==
    ASSUME IInv, NEW b \in Browsers, Reconnect(b)
    PROVE  IInv'
  <1> USE DEF IInv
  <1>1. PICK new \in SUBSET {s \in Sockets : Owner(s) = b /\ Free(s)} :
          /\ Cardinality(new) = SocketsOpened(b)
          /\ held' = held \cup new
    BY DEF Reconnect
  <1>2. IsFiniteSet(new)
    <2> SocketsEach \in Int /\ 1 \in Int
      OBVIOUS
    <2>1. IsFiniteSet({b})
      BY FS_Singleton
    <2>4. IsFiniteSet(1..SocketsEach)
      BY FS_Interval
    <2>2. IsFiniteSet({b} \X (1..SocketsEach))
      BY <2>1, <2>4, FS_Product
    <2>3. new \subseteq {b} \X (1..SocketsEach)
      BY DEF Sockets, Owner
    <2> QED BY <2>2, <2>3, FS_Subset
  <1>3. hasSocket[b] => new = {}
    BY <1>1, <1>2, FS_EmptySet DEF SocketsOpened
  <1>4. ~hasSocket[b] => \E x : new = {x}
    BY <1>1, <1>2, FS_Singleton DEF SocketsOpened
  <1>5. \A s \in new : Owner(s) = b /\ s \in Sockets /\ s \notin serving
    BY <1>1 DEF Free
  <1>6. hasSocket' = [hasSocket EXCEPT ![b] = TRUE]
        /\ UNCHANGED <<endpoints, task, messages, history>>
    BY DEF Reconnect
  <1>7. OneSocket'
    BY <1>1, <1>3, <1>4, <1>5, <1>6 DEF OneSocket, Typed, Owner, Sockets
  <1>8. Typed' /\ CastShaped' /\ ChangeRecorded' /\ Ordered' /\ SilenceExplained' /\ ShownOnce'
    BY <1>1, <1>5, <1>6 DEF Typed, CastShaped, ChangeRecorded, Ordered, SilenceExplained,
                            ShownOnce, Casting
  <1>9. Served'
    <2>1. subscribed' \cap held' = subscribed \cap held
      BY <1>1, <1>5, <1>6 DEF Typed
    <2> QED BY <2>1, <1>6 DEF Served, Casting
  <1> QED BY <1>7, <1>8, <1>9

\* A browser gives up the one socket it has, or the network loses it.
LEMMA LossKeeps ==
    ASSUME IInv, NEW s \in Sockets, Close(s) \/ Break(s)
    PROVE  IInv'
  <1> USE DEF IInv
  <1>1. UNCHANGED <<endpoints, task, messages, history>>
    BY DEF Close, Break
  <1>2. held' \subseteq held
    BY DEF Close, Break
  <1>3. Typed' /\ OneSocket'
    <2>1. CASE Break(s)
      BY <2>1, <1>1 DEF Break, Typed, OneSocket
    <2>2. CASE Close(s)
      <3>1. s \in held /\ held' = held \ {s}
            /\ hasSocket' = [hasSocket EXCEPT ![Owner(s)] = FALSE]
        BY <2>2 DEF Close
      <3>2. Owner(s) \in Browsers
        BY DEF Sockets, Owner
      <3>3. Typed'
        BY <1>1, <3>1, <3>2 DEF Typed
      <3>4. \A t \in held' : t \in held /\ Owner(t) # Owner(s)
        BY <3>1 DEF OneSocket
      <3>5. \A t \in held' : hasSocket'[Owner(t)]
        <4> SUFFICES ASSUME NEW t \in held' PROVE hasSocket'[Owner(t)]
          OBVIOUS
        <4>1. Owner(t) \in Browsers
          BY <3>4 DEF Typed, Sockets, Owner
        <4> QED BY <3>1, <3>4, <4>1 DEF OneSocket, Typed
      <3> QED BY <1>2, <3>3, <3>5 DEF OneSocket
    <2> QED BY <2>1, <2>2
  <1>4. Served'
    BY <1>1, <1>2 DEF Served, Casting
  <1> QED BY <1>1, <1>3, <1>4
       DEF CastShaped, ChangeRecorded, Ordered, SilenceExplained, ShownOnce, Casting

\* A socket that comes or goes in the middle of a broadcast is on record, and
\* only one that comes is deaf to nothing.
LEMMA MembersKeep ==
    ASSUME IInv, NEW s \in Sockets, Accept(s) \/ NoticeLoss(s)
    PROVE  IInv'
  <1> USE DEF IInv
  <1>1. /\ UNCHANGED <<hasSocket, held, queue, cast, messages, endedBy, deaf>>
        /\ disturbed' = Disturbed
    BY DEF Accept, NoticeLoss
  <1>2. Typed'
    BY <1>1 DEF Typed, Accept, NoticeLoss
  <1>3. disturbed \subseteq disturbed' /\ (Casting => cast.message \in disturbed')
    BY <1>1 DEF Disturbed
  <1>4. SilenceExplained'
    <2>1. CASE Accept(s)
      BY <1>1, <1>3, <2>1 DEF Accept, NeedsListener, SilenceExplained
    <2>2. CASE NoticeLoss(s)
      BY <1>1, <1>3, <2>2 DEF NoticeLoss, SilenceExplained
    <2> QED BY <2>1, <2>2
  <1>5. CastShaped' /\ ChangeRecorded' /\ Served'
    BY <1>1, <1>3 DEF CastShaped, ChangeRecorded, Served, Casting
  <1>6. OneSocket' /\ Ordered' /\ ShownOnce'
    BY <1>1, <1>3 DEF OneSocket, Ordered, ShownOnce, Casting
  <1> QED BY <1>2, <1>4, <1>5, <1>6

\* The process and the listener come and go.
LEMMA TaskKeeps ==
    ASSUME IInv, Stop \/ Start \/ Listen \/ ListenerFails \/ SubscribeFails \/ EndListener \/ SizeChanged
    PROVE  IInv'
  <1> USE DEF IInv
  <1>1. UNCHANGED <<hasSocket, held, messages, disturbed>>
    BY DEF Stop, Start, Listen, ListenerFails, SubscribeFails, EndListener, SizeChanged,
           LeaveLoop
  <1>2. /\ subscribed' \subseteq subscribed /\ subscribed' \subseteq serving'
        /\ serving' \subseteq serving
    BY DEF Stop, Start, Listen, ListenerFails, SubscribeFails, EndListener, SizeChanged,
           LeaveLoop, Typed
  <1>3. \/ queue' = <<>> /\ cast' = Quiet
        \/ UNCHANGED <<queue, cast, subscribed>>
    BY DEF Stop, Start, Listen, ListenerFails, SubscribeFails, EndListener, SizeChanged,
           LeaveLoop
  <1>4. Typed'
    <2>1. CASE queue' = <<>>
      BY <1>1, <1>2, <2>1 DEF Typed
    <2>2. CASE queue' = queue
      BY <1>1, <1>2, <2>2 DEF Typed
    <2> QED BY <1>3, <2>1, <2>2
  <1>5. CastShaped' /\ ChangeRecorded' /\ Served'
    BY <1>1, <1>3 DEF CastShaped, ChangeRecorded, Served, Casting, Quiet
  <1>6. Ordered'
    BY <1>1, <1>3 DEF Ordered, Casting
  <1>7. OneSocket' /\ ShownOnce'
    BY <1>1 DEF OneSocket, ShownOnce
  <1>8. SilenceExplained'
    <2>1. CASE Stop \/ Start \/ Listen
      BY <1>1, <2>1 DEF Stop, Start, Listen, SilenceExplained
    <2>2. CASE ListenerFails
      BY <1>1, <2>2 DEF ListenerFails, LeaveLoop, Casting, Quiet, SilenceExplained
    <2>3. CASE SizeChanged
      BY <1>1, <2>3 DEF SizeChanged, LeaveLoop, SizeKept, ChangeRecorded, SilenceExplained
    <2>4. CASE SubscribeFails \/ EndListener
      BY <1>1, <2>4 DEF SubscribeFails, EndListener, SilenceExplained
    <2> QED BY <2>1, <2>2, <2>3, <2>4
  <1> QED BY <1>4, <1>5, <1>6, <1>7, <1>8

\* A new event is later than all others.
LEMMA PublishKeeps ==
    ASSUME IInv, Publish
    PROVE  IInv'
  <1> USE DEF IInv
  <1>1. published' = published + 1 /\ published \in Nat /\ published' \in 1..MaxMessages
    BY DEF Publish, Typed
  <1>2. queue' = queue \/ queue' = Append(queue, published')
    BY DEF Publish
  <1>3. UNCHANGED <<hasSocket, held, endpoints, listener, cast, shown, history>>
    BY DEF Publish
  <1>4. queue \in Seq(Nat) /\ Len(queue) \in Nat
        /\ \A i \in 1..Len(queue) : queue[i] \in 1..published
    BY DEF Typed
  <1>5. queue' = Append(queue, published') =>
          /\ queue' \in Seq(Nat) /\ Len(queue') = Len(queue) + 1
          /\ queue'[Len(queue) + 1] = published'
          /\ \A i \in 1..Len(queue) : queue'[i] = queue[i]
    BY <1>1, <1>4
  <1>6. Typed'
    <2>1. CASE queue' = queue
      BY <1>1, <1>3, <1>4, <2>1 DEF Typed
    <2>2. CASE queue' = Append(queue, published')
      <3>1. \A i \in 1..Len(queue') : i \in 1..Len(queue) \/ i = Len(queue) + 1
        BY <1>4, <1>5, <2>2
      <3>2. \A i \in 1..Len(queue') : queue'[i] \in 1..published'
        BY <1>1, <1>4, <1>5, <2>2, <3>1
      <3> QED BY <1>1, <1>3, <1>5, <2>2, <3>2 DEF Typed
    <2> QED BY <1>2, <2>1, <2>2
  <1>7. Ordered'
    <2>1. \A b \in Browsers : \A m \in (published' + 1)..MaxMessages : shown'[b][m] = 0
      BY <1>1, <1>3 DEF Ordered, Typed
    <2>2. \A b \in Browsers : shown'[b][published'] = 0
      BY <1>1, <1>3 DEF Ordered, Typed
    <2>3. CASE queue' = queue
      BY <1>3, <2>1, <2>3 DEF Ordered, Casting
    <2>4. CASE queue' = Append(queue, published')
      <3>1. /\ Len(queue') = Len(queue) + 1 /\ Len(queue) \in Nat
            /\ queue'[Len(queue) + 1] = published'
            /\ \A i \in 1..Len(queue) : queue'[i] = queue[i] /\ queue[i] \in 1..published
        BY <1>4, <1>5, <2>4
      <3>2. \A i \in 1..Len(queue') : i \in 1..Len(queue) \/ i = Len(queue) + 1
        BY <3>1
      <3>3. \A i, j \in 1..Len(queue') : i < j => queue'[i] < queue'[j]
        <4> SUFFICES ASSUME NEW i \in 1..Len(queue'), NEW j \in 1..Len(queue'), i < j
                     PROVE  queue'[i] < queue'[j]
          OBVIOUS
        <4>1. i \in 1..Len(queue)
          BY <3>1
        <4>2. CASE j \in 1..Len(queue)
          BY <3>1, <4>1, <4>2 DEF Ordered
        <4>3. CASE j = Len(queue) + 1
          BY <1>1, <3>1, <4>1, <4>3 DEF Typed
        <4> QED BY <3>2, <4>2, <4>3
      <3>4. Casting => cast.message < published'
        BY <1>1 DEF CastShaped, Typed
      <3>5. Casting' => \A i \in 1..Len(queue') : cast'.message < queue'[i]
        BY <1>3, <3>1, <3>2, <3>4 DEF Ordered, Casting
      <3>6. \A b \in Browsers, i \in 1..Len(queue') : shown'[b][queue'[i]] = 0
        BY <1>3, <2>2, <3>1, <3>2 DEF Ordered
      <3> QED BY <2>1, <3>3, <3>5, <3>6 DEF Ordered
    <2> QED BY <1>2, <2>3, <2>4
  <1>8. CastShaped'
    BY <1>1, <1>3 DEF CastShaped, Casting, Typed
  <1>9. ShownOnce'
    BY <1>1, <1>3 DEF ShownOnce, Ordered, Typed
  <1>10. ChangeRecorded' /\ OneSocket' /\ Served' /\ SilenceExplained'
    BY <1>3 DEF ChangeRecorded, OneSocket, Served, SilenceExplained, Casting
  <1> QED BY <1>6, <1>7, <1>8, <1>9, <1>10

\* The oldest event is taken, which nobody has seen.
LEMMA TakeKeeps ==
    ASSUME IInv, Take
    PROVE  IInv'
  <1> USE DEF IInv
  <1>1. /\ queue # <<>> /\ ~Casting /\ queue' = Tail(queue)
        /\ UNCHANGED <<hasSocket, held, endpoints, listener, messages, history>>
    BY DEF Take
  <1>2. \/ cast' = Quiet
        \/ cast' = [message |-> Head(queue), size |-> Cardinality(subscribed),
                    visited |-> {}, dead |-> {}]
    BY DEF Take, Quiet
  <1>3. /\ queue \in Seq(Nat) /\ Len(queue) \in Nat \ {0}
        /\ queue' \in Seq(Nat) /\ Len(queue') = Len(queue) - 1
        /\ \A i \in 1..Len(queue') : queue'[i] = queue[i + 1] /\ i + 1 \in 1..Len(queue)
        /\ Head(queue) = queue[1] /\ queue[1] \in 1..published
    BY <1>1 DEF Typed
  <1>4. Typed'
    BY <1>1, <1>3 DEF Typed
  <1>5. Ordered'
    <2>1. \A i, j \in 1..Len(queue') : i < j => queue'[i] < queue'[j]
      <3> SUFFICES ASSUME NEW i \in 1..Len(queue'), NEW j \in 1..Len(queue'), i < j
                   PROVE  queue'[i] < queue'[j]
        OBVIOUS
      <3>1. i + 1 \in 1..Len(queue) /\ j + 1 \in 1..Len(queue) /\ i + 1 < j + 1
        BY <1>3
      <3>2. queue[i + 1] < queue[j + 1]
        BY <3>1 DEF Ordered
      <3> QED BY <1>3, <3>2
    <2>2. \A i \in 1..Len(queue') : queue[1] < queue'[i]
      <3> SUFFICES ASSUME NEW i \in 1..Len(queue') PROVE queue[1] < queue'[i]
        OBVIOUS
      <3>1. 1 \in 1..Len(queue) /\ i + 1 \in 1..Len(queue) /\ 1 < i + 1
        BY <1>3
      <3>2. queue[1] < queue[i + 1]
        BY <3>1 DEF Ordered
      <3> QED BY <1>3, <3>2
    <2>3. Casting' => \A i \in 1..Len(queue') : cast'.message < queue'[i]
      BY <1>2, <1>3, <2>2 DEF Casting
    <2>4. \A b \in Browsers, i \in 1..Len(queue') : shown'[b][queue'[i]] = 0
      BY <1>1, <1>3 DEF Ordered
    <2> QED BY <1>1, <2>1, <2>3, <2>4 DEF Ordered
  <1>6. CastShaped' /\ ChangeRecorded'
    BY <1>1, <1>2, <1>3 DEF CastShaped, ChangeRecorded, Casting, Quiet
  <1>7. Served'
    <2>1. \A b \in Browsers : shown'[b][queue[1]] = 0
      BY <1>1, <1>3 DEF Ordered
    <2> QED BY <1>2, <1>3, <2>1 DEF Served, Casting
  <1>8. OneSocket' /\ SilenceExplained' /\ ShownOnce'
    BY <1>1 DEF OneSocket, SilenceExplained, ShownOnce
  <1> QED BY <1>4, <1>5, <1>6, <1>7, <1>8

\* A member that has not been served is sent the event; the one socket its
\* browser listens to is served once.
LEMMA SendKeeps ==
    ASSUME IInv, NEW s \in Sockets, Send(s)
    PROVE  IInv'
  <1> USE DEF IInv
  <1> DEFINE m == cast.message
             b == Owner(s)
  <1>1. Casting /\ s \in subscribed \ cast.visited /\ b \in Browsers /\ m \in 1..published
    BY DEF Send, CastShaped, Sockets, Owner
  <1>2. m \in 1..MaxMessages
    BY <1>1 DEF Typed
  <1>3. PICK failed \in SUBSET ({s} \ alive) :
          cast' = [cast EXCEPT !.visited = @ \cup {s}, !.dead = @ \cup failed]
    BY DEF Send
  <1>4. /\ cast'.message = m /\ cast'.size = cast.size
        /\ cast'.visited = cast.visited \cup {s}
        /\ cast' = [message |-> cast'.message, size |-> cast'.size,
                    visited |-> cast'.visited, dead |-> cast'.dead]
    BY <1>3 DEF CastShaped
  <1>5. /\ subscribed' = subscribed
        /\ UNCHANGED <<hasSocket, held, serving, listener, queue, published, history>>
    BY DEF Send, MembersAfterSend
  <1>6. \/ shown' = shown
        \/ s \in held /\ shown' = [shown EXCEPT ![b][m] = @ + 1]
    BY DEF Send
  <1>7. \A c \in Browsers, n \in 1..MaxMessages :
            shown'[c][n] # shown[c][n] =>
                s \in held /\ c = b /\ n = m /\ shown'[c][n] = shown[c][n] + 1
    BY <1>1, <1>2, <1>6 DEF Typed
  <1>8. Typed'
    <2>1. shown' \in [Browsers -> [1..MaxMessages -> Nat]]
      <3>1. CASE shown' = shown
        BY <3>1 DEF Typed
      <3>2. CASE shown' = [shown EXCEPT ![b][m] = @ + 1]
        <4>1. shown[b] \in [1..MaxMessages -> Nat] /\ shown[b][m] + 1 \in Nat
          BY <1>1, <1>2 DEF Typed
        <4>2. [shown[b] EXCEPT ![m] = shown[b][m] + 1] \in [1..MaxMessages -> Nat]
          BY <1>2, <4>1
        <4>3. shown' = [shown EXCEPT ![b] = [shown[b] EXCEPT ![m] = shown[b][m] + 1]]
          BY <3>2
        <4> QED BY <1>1, <4>2, <4>3 DEF Typed
      <3> QED BY <1>6, <3>1, <3>2
    <2> QED BY <1>5, <2>1 DEF Typed
  <1>9. Casting'
    BY <1>1, <1>4 DEF Casting, Quiet
  <1>10. CastShaped' /\ ChangeRecorded' /\ OneSocket' /\ SilenceExplained'
    BY <1>1, <1>4, <1>5, <1>9 DEF CastShaped, ChangeRecorded, OneSocket, SilenceExplained
  <1>11. Ordered'
    <2>1. \A i \in 1..Len(queue) : queue[i] \in 1..MaxMessages /\ m < queue[i]
      BY <1>1 DEF Ordered, Typed
    <2>2. \A n \in (published + 1)..MaxMessages : n \in 1..MaxMessages /\ m < n
      BY <1>1 DEF Typed
    <2>3. \A c \in Browsers, i \in 1..Len(queue) : shown'[c][queue[i]] = 0
      BY <1>1, <1>7, <2>1 DEF Ordered
    <2>4. \A c \in Browsers, n \in (published + 1)..MaxMessages : shown'[c][n] = 0
      BY <1>1, <1>7, <2>2 DEF Ordered
    <2> QED BY <1>1, <1>4, <1>5, <2>1, <2>3, <2>4 DEF Ordered
  <1>12. s \in held /\ m \notin disturbed => shown[b][m] = 0
    <2> SUFFICES ASSUME s \in held, m \notin disturbed, shown[b][m] # 0
                 PROVE  FALSE
      OBVIOUS
    <2>1. shown[b] \in [1..MaxMessages -> Nat]
      BY <1>1 DEF Typed
    <2>2. shown[b][m] > 0
      BY <1>2, <2>1
    <2>3. s \in cast.visited
      BY <1>1, <2>2 DEF Served
    <2> QED BY <1>1, <2>3
  <1>13. ShownOnce'
    <2> SUFFICES ASSUME NEW c \in Browsers, NEW n \in 1..published, shown'[c][n] > 1
                 PROVE  n \in disturbed
      BY <1>5 DEF ShownOnce
    <2>1. n \in 1..MaxMessages
      BY DEF Typed
    <2>2. CASE shown'[c][n] = shown[c][n]
      BY <2>2 DEF ShownOnce
    <2>3. CASE shown'[c][n] # shown[c][n]
      BY <1>7, <1>12, <2>1, <2>3
    <2> QED BY <2>2, <2>3
  <1>14. Served'
    <2> SUFFICES ASSUME m \notin disturbed, NEW c \in Browsers, shown'[c][m] > 0,
                        NEW t \in subscribed \cap held, Owner(t) = c
                 PROVE  t \in cast.visited \cup {s}
      BY <1>4, <1>5, <1>9 DEF Served
    <2>1. CASE shown'[c][m] = shown[c][m]
      BY <1>1, <2>1 DEF Served
    <2>2. CASE shown'[c][m] # shown[c][m]
      <3>1. s \in held /\ c = b
        BY <1>2, <1>7, <2>2
      <3> QED BY <3>1 DEF OneSocket
    <2> QED BY <2>1, <2>2
  <1> QED BY <1>8, <1>10, <1>11, <1>13, <1>14

\* The broadcast ends.
LEMMA FinishKeeps ==
    ASSUME IInv, Finish
    PROVE  IInv'
  <1> USE DEF IInv
  <1>1. /\ cast' = Quiet /\ subscribed' \subseteq subscribed
        /\ UNCHANGED <<hasSocket, held, serving, listener, queue, messages, history>>
    BY DEF Finish
  <1>2. Typed' /\ OneSocket' /\ Ordered'
    BY <1>1 DEF Typed, OneSocket, Ordered, Casting
  <1>3. CastShaped' /\ ChangeRecorded' /\ Served'
    BY <1>1 DEF CastShaped, ChangeRecorded, Served, Casting, Quiet
  <1>4. SilenceExplained' /\ ShownOnce'
    BY <1>1 DEF SilenceExplained, ShownOnce
  <1> QED BY <1>2, <1>3, <1>4

LEMMA SpecIInv == Spec => []IInv
  <1>1. ASSUME IInv, [Next]_vars
        PROVE  IInv'
    <2>1. CASE UNCHANGED vars
      BY <1>1, <2>1 DEF vars, IInv, Typed, CastShaped, ChangeRecorded, OneSocket, Ordered,
                        Served, SilenceExplained, ShownOnce, Casting
    <2>2. CASE Next
      BY <1>1, <2>2, ReconnectKeeps, LossKeeps, MembersKeep, TaskKeeps, PublishKeeps,
         TakeKeeps, SendKeeps, FinishKeeps DEF Next, Broadcast
    <2> QED BY <1>1, <2>1, <2>2
  <1> QED BY <1>1, InitIInv, PTL DEF Spec

-----------------------------------------------------------------------------
\* ConnectionManager: the listener fails only with Redis or with a change in
\* the middle of a broadcast, and who connects once its task is done is not
\* left deaf.
THEOREM SilenceExplainedHolds == Spec => []SilenceExplained
  <1>1. IInv => SilenceExplained
    BY DEF IInv
  <1> QED BY <1>1, SpecIInv, PTL

\* WebSocketService and broadcast: no dashboard shows an event twice, unless
\* its new socket joined the broadcast that had served the old one.
THEOREM ShownOnceHolds == Spec => []ShownOnce
  <1>1. IInv => ShownOnce
    BY DEF IInv
  <1> QED BY <1>1, SpecIInv, PTL
=============================================================================
