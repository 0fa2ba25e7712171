SPECIFICATION Spec
CONSTANTS
    Attempts = {a, b, c, d}
    NoAttempt = NoAttempt
    Sizes = {1, 2, 3}
    SingleMax = 2
    MaxBytes = 4
    MaxResults = 2
    TerminalMax = 3
    MaxSnapshots = 1
    MaxPhotographs = 2
    TTL = 2
SYMMETRY Symmetry
INVARIANTS
    StoreInv
PROPERTIES
    DisplacedForCause
CHECK_DEADLOCK FALSE
