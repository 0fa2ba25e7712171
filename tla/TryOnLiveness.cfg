SPECIFICATION RestSpec
CONSTANTS
    a1 = a1
    a2 = a2
    s1 = s1
    t1 = t1
    t2 = t2
    None = None
    Attempts = {a1, a2}
    Sockets = {s1}
    Tasks = {t1, t2}
    TerminalMax = 1
    ResultMax = 1
    SubscriberMax = 2
    TaskSlots = 2
    Expiring = {a1, a2}
    Observed = {}
    CrossSocket = FALSE
    SlowPeers = {}
    StartMayFail = FALSE
INVARIANTS
    GrantsMatchTerminals
PROPERTIES
    TerminalIsCanonical
    ProcessesEnd
    AttemptsEnd
