SPECIFICATION Spec
CONSTANTS
  Listing <- MCListing
  BTC = "BTCUSDT"
  None = None
  Configured = {}
  Readings <- MCReadings
  RawKept = 4
  Batch = 3
  Strong = 1
  Weak = 2
  MaxUpdates = 2
  MaxRestarts = 1
INVARIANTS SelectionTradeable FirstScoreDecides TiesRankByPlace
CHECK_DEADLOCK FALSE
