CONSTANTS
  N = 3
  Threads = {main, t1, t2}
  Main = main
  Kind = "all"
  Sites = 1
  MaxYields = 0
  MaxHandOffs = 1
  IdxMod = 16
  Repeats <- NoRepeats
  Throwing = {"value"}
  None = None
  All = All
  Exception = Exception
SPECIFICATION FairSpec
INVARIANTS
  TypeOK
  ChildInOnePlace
  NoChildLost
  NoChildStranded
  QuietWhenCalled
  ResultMatchesCall
  ResultsAccounted
  DeliveredAtRest
PROPERTIES
  ImplementsJoin
  Delivered
