CONSTANTS
  N = 3
  Threads = {main, t1}
  Main = main
  Kind = "all"
  Sites = 1
  MaxYields = 1
  MaxHandOffs = 1
  IdxMod = 16
  Repeats <- Loop
  Throwing = {"value", "stop"}
  None = None
  All = All
  Exception = Exception
  Storage = Storage
SPECIFICATION OrderSpec
INVARIANTS
  OrderTypeOK
  ChildInOnePlace
  QuietWhenCalled
  ResultVisible
  RestsOnlyWhenLost
CHECK_DEADLOCK FALSE
