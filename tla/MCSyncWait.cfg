CONSTANTS
  Threads = {main, t1, t2}
  Main = main
  Jobs <- NoJobs
  Null = Null
  MaxCalls = 1
  MaxHops = 3
SPECIFICATION SWFairSpec
INVARIANTS
  SWTypeOK
  ReturnsResult
  NobodyInside
PROPERTIES
  Ends
