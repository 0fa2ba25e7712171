SPECIFICATION FairSpec
CONSTANTS
  Callers = {1, 2}
  MaxJobs = 2
  MaxGen = 5
  MaxFaults = 1
INVARIANTS
    BrokerInv
    AnswersOwnJob
    ShutdownIsFinal
PROPERTIES
    CallsEnd
CHECK_DEADLOCK FALSE
