SPECIFICATION Spec
CONSTANTS
  BTC = BTC
  ALT = ALT
  None = None
  Pairs = {BTC, ALT}
  Prices = {980, 1000, 1013}
  MinNotional <- MCCheapMinNotional
  MaxWaves = 2
  StartBalance = 100000
  StopAt = 0
  RiskPct = 20
  MaxTarget = 1000000
  OpenFee = 2
  CloseFee = 4
  MaxOpenWaves = 5
  DailyLossPermille = 1
  LossCutR = 20
  BreakevenR = 10
  CooldownS = 2
  MaxAge = 4
  PartialAge = 3
  TradeCooldown = 1
  Warmup = 2
  MayCrash = TRUE
  MayStop = TRUE
  MayFailDb = FALSE
INVARIANTS TypeOK ExposureBounded WalletIdentity LogMatchesBook SettledOnce EveryWaveManaged BankedInProfit BalanceBehindRows
PROPERTIES OpensRateLimited CooldownRespected TripStopsOpens
