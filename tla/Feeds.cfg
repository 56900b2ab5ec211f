SPECIFICATION FairSpec
CONSTANTS
  Kept = Kept
  Dropped = Dropped
  Pairs = {Kept, Dropped}
  Selected = {Kept}
  Commanders = {"main"}
  MayCrash = FALSE
  MayFailIO = FALSE
PROPERTIES StopQuiesces KeptPairsServed
