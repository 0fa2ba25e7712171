SPECIFICATION Spec
CONSTANTS
    Cameras = {a, b}
    Indexes = {0, 1}
    Threads = {t1, t2}
    NoCamera = NoCamera
    MaxGenerations = 2
    MaxTests = 2
    MaxPreviews = 1
    MaxReplugs = 1
    MaxCrashes = 1
SYMMETRY Symmetry
INVARIANTS
    BindingInv
    HeldInUse
PROPERTIES
    ConfirmedAsTested
CHECK_DEADLOCK FALSE
