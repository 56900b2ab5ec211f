SPECIFICATION Spec
CONSTANTS
  Frames = {"15m", "1h"}
  Pollers = {p1, p2}
  Bars <- MCBars
  None = None
  Limit = 2
  Kept = 3
  FlowCandles = 2
  Lookback = 1
  MaxStream <- MCMaxStream
  LastCandle <- MCLastCandle
INVARIANTS TypeOK TimedOnce OrderedWhenPolled IndicatorsCurrent
SYMMETRY Symmetry
