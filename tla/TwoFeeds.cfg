SPECIFICATION Spec
CONSTANTS
  Frames = {"15m"}
  Pollers = {p1}
  Bars <- MCBars
  None = None
  Limit = 2
  Kept = 3
  FlowCandles = 2
  Lookback = 1
  MaxStream <- MCMaxStream
  LastCandle <- MCLastCandle
INVARIANT EachCandleOnce
