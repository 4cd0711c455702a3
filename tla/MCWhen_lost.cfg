CONSTANTS
  N = 2
  Threads = {main}
  Main = main
  Kind = "all"
  Sites = 1
  MaxYields = 1
  MaxHandOffs = 0
  IdxMod = 16
  Repeats <- NoRepeats
  Throwing = {}
  None = None
  All = All
  Exception = Exception
SPECIFICATION Spec
INVARIANTS
  NoChildLost
CHECK_DEADLOCK FALSE
