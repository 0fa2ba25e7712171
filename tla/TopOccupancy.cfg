SPECIFICATION Spec
CONSTANTS
    Places = {0, 1}
    Spots = {0, 2}
    Centre = 0
    MaxBoxes = 2
    Reach = 0
    HistorySize = 2
    NoneMin = 2
    SingleMin = 1
    MultipleMin = 1
    AbsentTicks = 2
    MaxMissed = 1
    MaxMissing = 2
    MaxShift = 2
    MinMatchScore = 45
    CloseFrames = 1
INVARIANTS
    ReportInv
PROPERTIES
    ChangesForCause
