SPECIFICATION FairSpec
CONSTANTS
  Kept = Kept
  Dropped = Dropped
  Pairs = {Kept, Dropped}
  Selected = {Kept}
  Commanders = {}
  MayCrash = FALSE
  MayFailIO = FALSE
PROPERTY NoPositionOrphaned
