SPECIFICATION Spec
CONSTANTS
    a1 = a1
    a2 = a2
    a3 = a3
    s1 = s1
    t1 = t1
    t2 = t2
    t3 = t3
    None = None
    Attempts = {a1, a2, a3}
    Sockets = {s1}
    Tasks = {t1, t2, t3}
    TerminalMax = 3
    ResultMax = 3
    SubscriberMax = 2
    TaskSlots = 2
    Expiring = {}
    Observed = {s1}
    CrossSocket = FALSE
    SlowPeers = {}
    StartMayFail = FALSE
SYMMETRY FullSymmetry
INVARIANTS
    ReceiptsMirrorActive
    DisconnectFences
    JoinersResolve
PROPERTIES
    ImplementsLifecycle
    ProgressPrecedesTerminal
