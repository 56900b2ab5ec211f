SPECIFICATION Spec
CONSTANTS
  Pairs = {"A"}
  ExitPair = None
  None = None
  Prices = {1000, 1004, 1060}
  Spreads = {0, 2}
  Trades <- MCTrades
  PriceCap = 3
  CvdCap = 3
  SwingCap = 2
  LevelCap = 2
  EmaSlow = 2
  CvdWindow = 2
  FewLevels = 1
  SweepHold = 1
  SweepGap = 2
  MaxTicks = 4
INVARIANTS TypeOK NoSweepSeen NeverAsksToClose ProfileKeepsHighest
