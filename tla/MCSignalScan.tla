---------------------------- MODULE MCSignalScan ----------------------------
(* Values for TLC: prices that fall, rise, stand still and turn, all to the  *)
(* same last price, and predictions on either side of each limit.            *)
EXTENDS SignalScan

MCSeries == { <<112, 108, 104, 102, 100>>, <<88, 90, 92, 96, 100>>, <<100, 100, 100, 100, 100>>,
              <<96, 92, 88, 84, 100>>, <<104, 108, 112, 116, 100>>, <<96, 100>> }

Predicted(probability) ==
    [stale |-> FALSE, calm |-> FALSE, missing |-> 10, probability |-> probability]
MCPredictions ==
    { Predicted(p) : p \in {0, 4500, 4501, 5499, 5500, 10000} }
    \cup { [Predicted(9000) EXCEPT !.missing = 11], [Predicted(9000) EXCEPT !.stale = TRUE],
           [Predicted(100) EXCEPT !.calm = TRUE] }
=============================================================================
