---------------------------- MODULE MCTradingDay ----------------------------
(* Values for TLC: a long intent on each of two symbols, a short one, and a    *)
(* snapshot each for calm, adverse and unusable markets.                   *)
EXTENDS TradingDay, TLC

Long(symbol, confidence) ==
    [symbol |-> symbol, side |-> "BUY", entry |-> 200, stop |-> 160,
     target |-> 260, confidence |-> confidence]
Short == [Long("ETH", 9) EXCEPT !.side = "SELL", !.stop = 260, !.target = 160]
MCIntents == {Long("BTC", 10), Long("ETH", 5), Short}

Calm == [price |-> 200, bid |-> 200, ask |-> 200, volume |-> 9]
MCMarkets == {Calm, [Calm EXCEPT !.price = 210], [Calm EXCEPT !.ask = 199]}

Symmetric == Permutations(Runs)
=============================================================================
