SPECIFICATION Spec
CONSTANTS
  Gates = {"warmup", "rate_limit"}
  MinStats = 2
  MinRobust = 3
  GateFloor = 1
  Runs = {1, 2}
  Linked = {1}
  Balances = {24}
  Results <- MCResults
  MaxTicks <- MCMaxTicks
  Callers = {"agent"}
  MaxCalls = 1
  MayKill = TRUE
  MayStop = TRUE
  MayFailDb = TRUE
INVARIANTS TypeOK PromotionsEarned AuditTrail SettledByDecision SnapshotCoherent EveryTickAccounted DrawdownIsWorstFall
CHECK_DEADLOCK FALSE
