----------------------------- MODULE MCExitScoring -----------------------------
(* ExitScoring's constants for TLC: book ticks of the poller, and the trades *)
(* the unit tests feed.                                                      *)
EXTENDS ExitScoring
MCTrades == {<<0, "none">>, <<1, "BUY">>}
===============================================================================
