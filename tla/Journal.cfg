SPECIFICATION FairSpec
CONSTANTS
  BTC = BTC
  ALT = ALT
  None = None
  Pairs = {ALT}
  Prices = {2000, 9990, 10000}
  MinNotional <- MCMinNotional
  MaxWaves = 2
  StartBalance = 84000
  StopAt = 0
  RiskPct = 20
  MaxTarget = 1000000
  OpenFee = 2
  CloseFee = 4
  MaxOpenWaves = 1
  DailyLossPermille = 5
  LossCutR = 20
  BreakevenR = 10
  CooldownS = 1
  MaxAge = 2
  PartialAge = 2
  TradeCooldown = 1
  Warmup = 1
  MayCrash = TRUE
  MayStop = FALSE
  MayFailDb = TRUE
PROPERTIES BookSpec SizedWithinBalance WavesClose
