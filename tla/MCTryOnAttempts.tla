-------------------------- MODULE MCTryOnAttempts --------------------------
(* TryOnAttempts on small sets of model values.  Tasks and attempts are        *)
(* interchangeable in the runs without liveness, and so are the connections    *)
(* where none of them is slow.                                                 *)
EXTENDS TryOnAttempts, TLC

FullSymmetry ==
    Permutations(Tasks) \cup Permutations(Sockets) \cup Permutations(Attempts)

UnlikeConnections == Permutations(Tasks) \cup Permutations(Attempts)

(* A state the service reaches when the disconnect of connection s is aborted  *)
(* while it publishes the terminal of an attempt of s: a second start of s has *)
(* yet to run.  The task that has ended and its concluded attempt are left out.*)
Orphaned(s, t, a) ==
    /\ active = None /\ pending = None /\ cleanup = None
    /\ pendingDone = {} /\ cleanupDone = {}
    /\ receipts = [x \in Sockets |-> {}]
    /\ history = [term |-> [x \in Attempts |-> None], older |-> {}, results |-> {}]
    /\ pc = [x \in Tasks |-> IF x = t THEN "prepare" ELSE "idle"]
    /\ sock = [x \in Tasks |-> IF x = t THEN s ELSE None]
    /\ aid = [x \in Tasks |-> IF x = t THEN a ELSE None]
    /\ on = [x \in Tasks |-> None]
    /\ outcome = [x \in Tasks |-> "none"]
    /\ cancelled = {}
    /\ notice = [x \in Tasks |-> NoNotice]
    /\ session = [x \in Sockets |-> IF x = s THEN [Idle EXCEPT !.op = "aborted"]
                                             ELSE Idle]
    /\ up = Sockets \ {s}
    /\ seen = [x \in Sockets |-> [y \in Attempts |-> "none"]]
    /\ sending = {}
    /\ captured = [x \in Attempts |-> None]
    /\ snapshot = [x \in Attempts |-> None]
    /\ shutdown = [at |-> "up", task |-> None, on |-> None]

(* Which task and which attempt these are makes no difference.                 *)
OrphanInit ==
    \E s \in Sockets :
        Orphaned(s, CHOOSE t \in Tasks : TRUE, CHOOSE a \in Attempts : TRUE)

RestSpec == (Init \/ OrphanInit) /\ [][Next]_vars /\ Fairness

RestSafety == (Init \/ OrphanInit) /\ [][Next]_vars

=============================================================================
