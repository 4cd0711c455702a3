CONSTANTS
  N = 2
  Threads = {main}
  Main = main
  Kind = "any"
  Sites = 1
  MaxYields = 0
  MaxHandOffs = 0
  IdxMod = 16
  Repeats <- NoRepeats
  Throwing = {"value"}
  None = None
  All = All
  Exception = Exception
SPECIFICATION Spec
INVARIANTS
  ResultMatchesCall
