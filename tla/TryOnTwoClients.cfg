SPECIFICATION RestSafety
CONSTANTS
    a1 = a1
    a2 = a2
    s1 = s1
    s2 = s2
    t1 = t1
    t2 = t2
    None = None
    Attempts = {a1, a2}
    Sockets = {s1, s2}
    Tasks = {t1, t2}
    TerminalMax = 3
    ResultMax = 3
    SubscriberMax = 1
    TaskSlots = 2
    Expiring = {}
    Observed = {}
    CrossSocket = TRUE
    SlowPeers = {s2}
    StartMayFail = TRUE
SYMMETRY UnlikeConnections
INVARIANTS
    RegistryInv
    ShutdownIsQuiet
    OneStandingPerAttempt
    OwnerStaysSubscribed
    MediaOnlyOfCompleted
