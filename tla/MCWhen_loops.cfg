CONSTANTS
  N = 4
  Threads = {main}
  Main = main
  Kind = "any"
  Sites = 1
  MaxYields = 4
  MaxHandOffs = 0
  IdxMod = 16
  Repeats <- Loops
  Throwing = {}
  None = None
  All = All
  Exception = Exception
SPECIFICATION FairSpec
INVARIANTS
  OnlyLastChildLost
PROPERTIES
  EndsUnlessLost
  QueuedChildRuns
CHECK_DEADLOCK FALSE
