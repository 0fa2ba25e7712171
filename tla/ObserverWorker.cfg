SPECIFICATION FairSpec
CONSTANTS
  Callers = {"a", "b"}
  MaxProcs = 3
  MaxCalls = 2
  MaxCancels = 2
  MaxKills = 1
  MaxFaults = 1
INVARIANTS
    WorkerInv
PROPERTIES
    CallsEnd
CHECK_DEADLOCK FALSE
