SPECIFICATION Spec
CONSTANTS
  Kept = Kept
  Dropped = Dropped
  Pairs = {Kept, Dropped}
  Selected = {Kept}
  Commanders = {"telegram"}
  MayCrash = TRUE
  MayFailIO = FALSE
PROPERTY StopSurvivesRestart
