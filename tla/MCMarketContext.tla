---------------------------- MODULE MCMarketContext ----------------------------
\* Instances of MarketContext: a rising and a falling candle.
EXTENDS MarketContext, TLC

Up == [open |-> 10, high |-> 14, low |-> 9, close |-> 13]
Down == [open |-> 13, high |-> 13, low |-> 5, close |-> 6]

MCBars == [f \in Frames |-> IF f = "15m" THEN {Up, Down} ELSE {Up}]
MCLastCandle == [f \in Frames |-> IF f = "15m" THEN 3 ELSE 1]
MCMaxStream == [f \in Frames |-> IF f = "15m" THEN 1 ELSE 2]

Symmetry == Permutations(Pollers)
=============================================================================
