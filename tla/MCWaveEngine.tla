---------------------------- MODULE MCWaveEngine ----------------------------
(* WaveEngine's constants for TLC: one clock quantum is a minute, and prices *)
(* lie around 1000 so that differences read as hundredths of R.              *)
EXTENDS WaveEngine

CONSTANTS BTC, ALT
MCMinNotional == [p \in Pairs |-> IF p = BTC THEN 100 ELSE 5]
MCCheapMinNotional == [p \in Pairs |-> 5]
=============================================================================
