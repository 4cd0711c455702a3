CONSTANTS
  N = 2
  Threads = {main, t1}
  Main = main
  Kind = "all"
  Sites = 1
  MaxYields = 0
  MaxHandOffs = 1
  IdxMod = 16
  Repeats <- NoRepeats
  Throwing = {}
  None = None
  All = All
  Exception = Exception
SPECIFICATION Spec
INVARIANTS
  NoUseAfterCall
