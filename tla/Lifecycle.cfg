SPECIFICATION Spec
CONSTANTS
  Kept = Kept
  Dropped = Dropped
  Pairs = {Kept, Dropped}
  Selected = {Kept}
  MayCrash = TRUE
  Commanders = {"main", "telegram"}
  MayFailIO = TRUE
INVARIANTS TypeOK FeedsStayUp StopIsKept
