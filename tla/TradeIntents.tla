---------------------------- MODULE TradeIntents ----------------------------
(***************************************************************************)
(* What strategies hand to the pipeline: an intent to trade, with the      *)
(* levels at which the position is to be closed.  An intent is a record    *)
(* [symbol, side, entry, stop, target, confidence].                        *)
(***************************************************************************)
EXTENDS Integers

Magnitude(x) == IF x < 0 THEN -x ELSE x

\* Decimal.quantize rounds num/den (both positive) half to even.
HalfEven(num, den) ==
    LET q == num \div den
        r == num % den
    IN  IF 2 * r > den \/ (2 * r = den /\ q % 2 = 1) THEN q + 1 ELSE q

\* _validate_sl_tp: an intent whose stop and target are on the wrong side of
\* its entry is refused before anything is read.
StopsSound(i) ==
    /\ i.entry > 0 /\ i.stop > 0 /\ i.target > 0
    /\ i.side = "BUY" => i.stop < i.entry /\ i.entry < i.target
    /\ i.side = "SELL" => i.target < i.entry /\ i.entry < i.stop
=============================================================================
