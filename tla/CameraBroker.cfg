SPECIFICATION FairSpec
CONSTANTS
  Scenes = {{"handoff", "rebind"}, {"read", "rebind"}, {"release"}, {"status"}}
  Bindings = {1, 2}
  MaxBrokers = 5
  MaxReads = 1
  MaxFaults = 1
INVARIANTS
    BrokerInv
    AnswersOwnRequest
    MaintenanceAlone
PROPERTIES
    CallsReturn
CHECK_DEADLOCK FALSE
