SPECIFICATION FairSpec
CONSTANTS
    screen = screen
    near = near
    far = far
    None = None
    Clients = {screen}
    PushClients = {screen}
    Targets = {near, far}
    AbsentMin = 2
    ResetAbsentFrames = 2
    QueuesFill = TRUE
INVARIANTS
    SceneInv
PROPERTIES
    NothingStaleAfterEmpty
    CommitsUnderOpenGate
    CollectionEnds
    EmptySceneUnlocks
