--------------------------- MODULE MCResearchLedger ---------------------------
(* ResearchLedger's constants for TLC: a run that can be promoted on two     *)
(* trades, one that is ruined, and one whose fees eat its gross.             *)
EXTENDS ResearchLedger
MCMaxTicks == [r \in Runs |-> IF r = 1 THEN 3 ELSE 0]
MCResults == {[pair |-> "A", net |-> 6], [pair |-> "B", net |-> 4], [pair |-> "A", net |-> -9]}
=============================================================================
