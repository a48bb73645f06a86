\* A request submitted and submitted again, one turn at a time, under fairness.
SPECIFICATION FairSpec
CONSTANTS
  t1 = t1
  x1 = x1  x2 = x2
  build = build  read = read
  Stopper = Stopper
  Recovery = Recovery
  None = None
  Tasks <- OneTask
  Execs <- Retry
  TaskOf <- AllTaskOf
  PayloadOf <- AllPayloadOf
  SpawningTools <- BuildTools
  QuietTools <- ReadTools
  MaxCalls = 1
  QueueLimit = 3
  MaxFaults = 1
  MaxStops = 1
  MaxOpens = 1
  SerialTurns = TRUE
INVARIANTS
  EffectsOnRecord
  CleanupIsTrue
  NothingLeftBehind
PROPERTIES
  LifecycleSpec
  RequestsClose
\* Every task may be over.
CHECK_DEADLOCK FALSE
