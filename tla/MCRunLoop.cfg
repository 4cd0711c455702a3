CONSTANTS
  Threads = {t1, t2, t3}
  Jobs = {j1, j2, j3}
  Null = Null
  MaxCalls <- CallBound
SPECIFICATION FairSpec
INVARIANTS
  TypeOK
  ListRepresentsQueue
  NoLostWakeup
PROPERTIES
  ImplementsWorkQueue
  QueuedJobRuns
  FinishStopsRun
