CONSTANTS
  N = 3
  Threads = {main, t1}
  Main = main
  Kind = "all"
  Sites = 1
  MaxYields = 1
  MaxHandOffs = 1
  IdxMod = 16
  Repeats <- NoRepeats
  Throwing = {}
  None = None
  All = All
  Exception = Exception
  Storage = Storage
SPECIFICATION OrderSpec
INVARIANTS
  ChildStateVisible
CHECK_DEADLOCK FALSE
