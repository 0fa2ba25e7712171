--------------------------- MODULE ObserverWorker ---------------------------
(***************************************************************************)
(* The observation worker of the acquisition:                              *)
(* src/vision/acquisition_observer.py, AcquisitionObservationWorker, and   *)
(* its child process.                                                      *)
(*                                                                         *)
(* observe() starts the child when there is none, waits until it says that *)
(* it is ready, takes the one request slot, submits a frame and polls for  *)
(* the answer.  What fails or is cancelled stops the child (abort_async).  *)
(* All of that runs on the event loop; a caller may be cancelled at every  *)
(* await, and only some of them are shielded.  A status request reads pid  *)
(* from a thread, the role-stop request kills the child, and shutdown()    *)
(* comes when the attempts have ended.                                     *)
(*                                                                         *)
(* A process keeps its shared slot as long as it is held, and a process    *)
(* generation is held exactly as long as its process, so processes name    *)
(* slots and generations here.                                             *)
(***************************************************************************)
EXTENDS Naturals

CONSTANTS Callers,    \* callers of observe
          MaxProcs,   \* bound: child processes
          MaxCalls,   \* bound: observations
          MaxCancels, \* bound: cancellations
          MaxKills,   \* bound: role-stop requests
          MaxFaults   \* bound: crashes, refused kills, bad starts

ASSUME ObserverBounds ==
    /\ {"down", "none"} \cap Callers = {}
    /\ {MaxProcs, MaxCalls, MaxCancels, MaxKills, MaxFaults} \subseteq Nat

Procs == 1 .. MaxProcs
NoProc == 0
Actors == Callers \cup {"down"}

VARIABLES
    handle,    \* _process, and with it _slot and _generation
    ready,     \* _ready
    fatal,     \* _fatal_error, by what set it
    active,    \* _active_request
    slotOf,    \* holder of _request_slot
    startLock, \* holder of _start_lock
    stopLock,  \* holder of _stop_lock
    actor,     \* per caller, the code of observe; for "down", of shutdown
    child,     \* per process, what the child does
    doomed,    \* processes that are dying
    closed,    \* processes whose Process object is closed
    open,      \* processes whose shared slot is open
    answer,    \* per process, the answer that is in its slot
    torn,      \* history: a cancellation has torn an abort
    spent      \* calls, cancellations, kills and faults so far

vars == <<handle, ready, fatal, active, slotOf, startLock, stopLock, actor, child, doomed,
          closed, open, answer, torn, spent>>

Rest == [pc |-> "idle", p |-> NoProc, then |-> "none", cancelled |-> FALSE]

Init ==
    /\ handle = NoProc /\ ready = FALSE /\ fatal = "none" /\ active = FALSE
    /\ slotOf = "none" /\ startLock = "none" /\ stopLock = "none"
    /\ actor = [a \in Actors |-> Rest]
    /\ child = [p \in Procs |-> "none"]
    /\ doomed = {} /\ closed = {} /\ open = {}
    /\ answer = [p \in Procs |-> "none"]
    /\ torn = FALSE
    /\ spent = [procs |-> 0, calls |-> 0, cancels |-> 0, kills |-> 0, faults |-> 0]

Alive(p) == p # NoProc /\ child[p] \in {"boot", "loaded", "idle", "work"}

CanFail == spent.faults < MaxFaults
Spend(what) == spent' = [spent EXCEPT ![what] = @ + 1]

childSide == <<child, doomed, answer>>
held == <<handle, closed, open, torn>>
locks == <<slotOf, startLock, stopLock>>

Moves(a, pc) == actor' = [actor EXCEPT ![a].pc = pc]

\* The caller's exception or result leaves observe: every lock is given back.
Leaves(a) ==
    /\ actor' = [actor EXCEPT ![a] = [Rest EXCEPT !.pc = IF a = "down" THEN "done" ELSE "idle"]]
    /\ startLock' = IF startLock = a THEN "none" ELSE startLock
    /\ slotOf' = IF slotOf = a THEN "none" ELSE slotOf
    /\ active' = (active /\ slotOf # a)

\* Go on with abort_async, and with what follows it.
Aborts(a, then) == actor' = [actor EXCEPT ![a].pc = "abort", ![a].then = then]

-----------------------------------------------------------------------------
(* start *)

Begin(a) ==
    /\ actor[a].pc = "idle" /\ actor["down"].pc = "idle" /\ spent.calls < MaxCalls
    /\ Moves(a, "lock")
    /\ Spend("calls")
    /\ UNCHANGED <<held, ready, fatal, active, locks, childSide>>

\* _start_lock; a child that is ready needs no start.
Locks(a) ==
    /\ actor[a].pc = "lock" /\ startLock = "none"
    /\ IF ready /\ Alive(handle)
         THEN Moves(a, "take") /\ UNCHANGED startLock
         ELSE Moves(a, "spawn") /\ startLock' = a
    /\ UNCHANGED <<held, ready, fatal, active, slotOf, stopLock, childSide, spent>>

\* _start, in a thread the caller waits for even when it is cancelled.
SpawnNothing(a) ==
    /\ actor[a].pc = "spawn" /\ fatal = "none" /\ Alive(handle)
    /\ IF actor[a].cancelled THEN Aborts(a, "startCancelled") ELSE Moves(a, "boot")
    /\ UNCHANGED <<held, ready, fatal, active, locks, childSide, spent>>

Spawn(a) ==
    LET p == spent.procs + 1 IN
    /\ actor[a].pc = "spawn" /\ fatal = "none" /\ ~Alive(handle) /\ p \in Procs
    /\ child' = [child EXCEPT ![p] = "boot"]
    /\ handle' = p /\ open' = (open \ {handle}) \cup {p}
    /\ closed' = closed \cup ({handle} \ {NoProc})
    /\ IF actor[a].cancelled THEN Aborts(a, "startCancelled") ELSE Moves(a, "boot")
    /\ Spend("procs")
    /\ UNCHANGED <<ready, fatal, active, locks, doomed, answer, torn>>

\* The system refuses a process.
SpawnFails(a) ==
    /\ actor[a].pc = "spawn" /\ fatal = "none" /\ ~Alive(handle) /\ CanFail
    /\ handle' = NoProc /\ open' = open \ {handle}
    /\ closed' = closed \cup ({handle} \ {NoProc})
    /\ ready' = FALSE /\ fatal' = "start"
    /\ Leaves(a)
    /\ Spend("faults")
    /\ UNCHANGED <<stopLock, childSide, torn>>

SpawnRefused(a) ==
    /\ actor[a].pc = "spawn" /\ fatal # "none"
    /\ Leaves(a)
    /\ UNCHANGED <<held, ready, fatal, stopLock, childSide, spent>>

BootReady(a) ==
    /\ actor[a].pc = "boot" /\ handle \in open /\ answer[handle] = "ready"
    /\ ready' = TRUE
    /\ answer' = [answer EXCEPT ![handle] = "none"]
    /\ Moves(a, "take") /\ startLock' = "none"
    /\ UNCHANGED <<held, fatal, active, slotOf, stopLock, child, doomed, spent>>

\* Another message than the readiness, or a child that is gone.
BootInvalid(a) ==
    /\ actor[a].pc = "boot"
    /\ \/ handle \in open /\ answer[handle] \in {"ok", "error"}
       \/ ~Alive(handle) /\ (handle # NoProc => answer[handle] = "none")
    /\ Aborts(a, "finalize")
    /\ UNCHANGED <<held, ready, fatal, active, locks, childSide, spent>>

BootTimesOut(a) ==
    /\ actor[a].pc = "boot"
    /\ Aborts(a, "finalize")
    /\ UNCHANGED <<held, ready, fatal, active, locks, childSide, spent>>

-----------------------------------------------------------------------------
(* observe *)

Busy(a) ==
    /\ actor[a].pc = "take" /\ slotOf # "none"
    /\ Leaves(a)
    /\ UNCHANGED <<held, ready, fatal, stopLock, childSide, spent>>

\* The child may have died, or been stopped, since it was ready.
Unavailable(a) ==
    /\ actor[a].pc = "take" /\ slotOf = "none" /\ ~Alive(handle)
    /\ slotOf' = a
    /\ Aborts(a, "failed")
    /\ UNCHANGED <<held, ready, fatal, active, startLock, stopLock, childSide, spent>>

Submit(a) ==
    /\ actor[a].pc = "take" /\ slotOf = "none" /\ Alive(handle)
    /\ slotOf' = a /\ active' = TRUE
    /\ child' = [child EXCEPT ![handle] = IF @ = "boot" THEN "loaded" ELSE "work"]
    /\ actor' = [actor EXCEPT ![a].pc = "poll", ![a].p = handle]
    /\ UNCHANGED <<held, ready, fatal, startLock, stopLock, doomed, answer, spent>>

Answered(a) == actor[a].p \in open /\ answer[actor[a].p] # "none"

Observed(a) ==
    /\ actor[a].pc = "poll" /\ Answered(a) /\ answer[actor[a].p] = "ok"
    /\ answer' = [answer EXCEPT ![actor[a].p] = "none"]
    /\ Leaves(a)
    /\ UNCHANGED <<held, ready, fatal, stopLock, child, doomed, spent>>

\* An answer that is none, a dead child, or the deadline of the attempt.
ObserveFails(a) ==
    /\ actor[a].pc = "poll"
    /\ Aborts(a, "failed")
    /\ answer' = IF Answered(a) /\ answer[actor[a].p] # "ok"
                    THEN [answer EXCEPT ![actor[a].p] = "none"] ELSE answer
    /\ UNCHANGED <<held, ready, fatal, active, locks, child, doomed, spent>>

-----------------------------------------------------------------------------
(* Cancellation *)

\* An abort awaits without a shield when it follows a failure: a cancellation then
\* tears it while it waits for the lock or for the child to die.
Tearable(a) ==
    /\ actor[a].then \in {"failed", "finalize"}
    /\ \/ actor[a].pc = "abort" /\ stopLock # "none"
       \/ actor[a].pc = "confirm" /\ Alive(actor[a].p)

\* Slip: a cancelled caller keeps the start lock.
CancelKeepingLock(a) ==
    /\ spent.cancels < MaxCancels /\ Spend("cancels")
    /\ \/ actor[a].pc = "boot" /\ actor' = [actor EXCEPT ![a] = Rest]
       \/ actor[a].pc = "poll" /\ Aborts(a, "cancelled")
    /\ UNCHANGED <<held, ready, fatal, active, locks, childSide>>

Cancel(a) ==
    /\ spent.cancels < MaxCancels /\ Spend("cancels")
    /\ \/ /\ actor[a].pc = "lock" \/ actor[a].pc = "boot"
          /\ Leaves(a)
          /\ UNCHANGED <<stopLock, torn>>
       \/ /\ actor[a].pc = "spawn"
          /\ actor' = [actor EXCEPT ![a].cancelled = TRUE]
          /\ UNCHANGED <<active, locks, torn>>
       \/ /\ actor[a].pc = "poll"
          /\ Aborts(a, "cancelled")
          /\ UNCHANGED <<active, locks, torn>>
       \/ /\ Tearable(a)
          /\ Leaves(a)
          /\ stopLock' = IF stopLock = a THEN "none" ELSE stopLock
          /\ torn' = TRUE
    /\ UNCHANGED <<handle, closed, open, ready, fatal, childSide>>

-----------------------------------------------------------------------------
(* abort_async *)

\* What follows the abort: the caller leaves, or the child is finalized.
Finalized(a, f) ==
    IF actor[a].then # "finalize" THEN UNCHANGED <<held, ready>> /\ fatal' = f
    ELSE /\ fatal' = "prewarm" /\ ready' = FALSE
         /\ IF Alive(handle) THEN UNCHANGED held
            ELSE /\ UNCHANGED torn
                 /\ handle' = NoProc /\ open' = open \ {handle}
                 /\ closed' = closed \cup ({handle} \ {NoProc})

AbortNothing(a) ==
    /\ actor[a].pc = "abort" /\ stopLock = "none" /\ handle = NoProc
    /\ ready' = FALSE
    /\ fatal' = IF actor[a].then = "finalize" THEN "prewarm" ELSE "none"
    /\ Leaves(a)
    /\ UNCHANGED <<held, stopLock, childSide, spent>>

AbortBegins(a) ==
    /\ actor[a].pc = "abort" /\ stopLock = "none" /\ handle # NoProc
    /\ stopLock' = a /\ ready' = FALSE
    /\ actor' = [actor EXCEPT ![a].pc = "signal", ![a].p = handle]
    /\ UNCHANGED <<held, fatal, active, slotOf, startLock, childSide, spent>>

\* signal_stop, in a thread: the child dies, at once or later, or the kill is refused.
AbortSignals(a) ==
    LET p == actor[a].p IN
    /\ actor[a].pc = "signal"
    /\ Moves(a, "confirm")
    /\ \/ /\ Alive(p)
          /\ child' = [child EXCEPT ![p] = "dead"]
          /\ doomed' = doomed \ {p}
          /\ UNCHANGED spent
       \/ /\ Alive(p)
          /\ doomed' = doomed \cup {p}
          /\ UNCHANGED <<child, spent>>
       \/ /\ Alive(p) /\ CanFail /\ Spend("faults")
          /\ UNCHANGED <<child, doomed>>
       \/ ~Alive(p) /\ UNCHANGED <<child, doomed, spent>>
    /\ UNCHANGED <<held, ready, fatal, active, locks, answer>>

AbortConfirms(a) ==
    LET p == actor[a].p IN
    /\ actor[a].pc = "confirm" /\ ~Alive(p) /\ p \notin closed
    /\ closed' = closed \cup {p} /\ open' = open \ {p}
    /\ handle' = IF handle = p THEN NoProc ELSE handle
    /\ fatal' = IF actor[a].then = "finalize" THEN "prewarm"
                ELSE IF handle = p THEN "none" ELSE fatal
    /\ stopLock' = "none"
    /\ Leaves(a)
    /\ UNCHANGED <<ready, childSide, torn, spent>>

\* Slip: a child that outlives its kill is forgotten.
AbortForgets(a) ==
    LET p == actor[a].p IN
    /\ actor[a].pc = "confirm" /\ Alive(p)
    /\ handle' = IF handle = p THEN NoProc ELSE handle
    /\ open' = open \ {p} /\ fatal' = "abort"
    /\ stopLock' = "none"
    /\ Leaves(a)
    /\ UNCHANGED <<closed, ready, childSide, torn, spent>>

\* The stop timeout has passed and the child is still alive: it is kept.
AbortGivesUp(a) ==
    LET p == actor[a].p IN
    /\ actor[a].pc = "confirm" /\ Alive(p)
    /\ Finalized(a, IF handle = p THEN "abort" ELSE fatal)
    /\ stopLock' = "none"
    /\ Leaves(a)
    /\ UNCHANGED <<childSide, spent>>

\* Somebody else closed the Process object: is_alive raises.
AbortRaises(a) ==
    /\ actor[a].pc = "confirm" /\ actor[a].p \in closed
    /\ stopLock' = "none"
    /\ Leaves(a)
    /\ UNCHANGED <<held, ready, fatal, childSide, spent>>

-----------------------------------------------------------------------------
(* The child: acquisition_observer_entry *)

ChildReady(p) ==
    /\ child[p] \in {"boot", "loaded"}
    /\ \/ /\ child' = [child EXCEPT ![p] = IF @ = "boot" THEN "idle" ELSE "work"]
          /\ answer' = [answer EXCEPT ![p] = "ready"]
          /\ UNCHANGED spent
       \/ /\ CanFail /\ Spend("faults")      \* prewarming fails
          /\ child' = [child EXCEPT ![p] = "dead"]
          /\ answer' = [answer EXCEPT ![p] = "error"]
    /\ UNCHANGED <<held, ready, fatal, active, locks, actor, doomed>>

ChildAnswers(p) ==
    /\ child[p] = "work"
    /\ \/ /\ child' = [child EXCEPT ![p] = "idle"]
          /\ answer' = [answer EXCEPT ![p] = "ok"]
       \/ /\ child' = [child EXCEPT ![p] = "dead"]
          /\ answer' = [answer EXCEPT ![p] = "error"]
    /\ UNCHANGED <<held, ready, fatal, active, locks, actor, doomed, spent>>

ChildDies(p) ==
    /\ Alive(p)
    /\ IF p \in doomed THEN UNCHANGED spent ELSE CanFail /\ Spend("faults")
    /\ child' = [child EXCEPT ![p] = "dead"]
    /\ doomed' = doomed \ {p}
    /\ UNCHANGED <<held, ready, fatal, active, locks, actor, answer>>

-----------------------------------------------------------------------------
(* Status, role stop and shutdown *)

\* pid, read by a thread of the server: a dead process is closed and forgotten.
ReadPid ==
    /\ handle # NoProc /\ ~Alive(handle)
    /\ closed' = closed \cup {handle} /\ open' = open \ {handle}
    /\ handle' = NoProc /\ ready' = FALSE
    /\ UNCHANGED <<fatal, active, locks, actor, childSide, torn, spent>>

KillChild ==
    /\ Alive(handle) /\ spent.kills < MaxKills
    /\ Spend("kills")
    /\ child' = [child EXCEPT ![handle] = "dead"]
    /\ doomed' = doomed \ {handle}
    /\ UNCHANGED <<held, ready, fatal, active, locks, actor, answer>>

ShutdownBegins ==
    /\ actor["down"].pc = "idle" /\ \A a \in Callers : actor[a].pc = "idle"
    /\ IF ready /\ Alive(handle) /\ ~active
         THEN actor' = [actor EXCEPT !["down"].pc = "graceful", !["down"].p = handle]
         ELSE Aborts("down", "shutdown")
    /\ UNCHANGED <<held, ready, fatal, active, locks, childSide, spent>>

ChildExits ==
    /\ actor["down"].pc = "graceful" /\ Alive(actor["down"].p)
    /\ child' = [child EXCEPT ![actor["down"].p] = "dead"]
    /\ UNCHANGED <<held, ready, fatal, active, locks, actor, doomed, answer, spent>>

ShutdownFinalizes ==
    LET p == actor["down"].p IN
    /\ actor["down"].pc = "graceful" /\ ~Alive(p) /\ p \notin closed
    /\ handle' = NoProc /\ open' = open \ {handle} /\ closed' = closed \cup {p}
    /\ ready' = FALSE /\ fatal' = "none"
    /\ Moves("down", "done")
    /\ UNCHANGED <<active, locks, childSide, torn, spent>>

\* The child does not answer in time, or its process was closed meanwhile.
ShutdownAborts ==
    /\ actor["down"].pc = "graceful"
    /\ IF actor["down"].p \in closed THEN Moves("down", "done") ELSE Aborts("down", "shutdown")
    /\ UNCHANGED <<held, ready, fatal, active, locks, childSide, spent>>

-----------------------------------------------------------------------------

Caller(a) ==
    \/ Locks(a) \/ SpawnNothing(a) \/ Spawn(a) \/ SpawnFails(a) \/ SpawnRefused(a)
    \/ BootReady(a) \/ BootInvalid(a) \/ BootTimesOut(a)
    \/ Busy(a) \/ Unavailable(a) \/ Submit(a) \/ Observed(a) \/ ObserveFails(a)
Abort(a) ==
    \/ AbortNothing(a) \/ AbortBegins(a) \/ AbortSignals(a) \/ AbortConfirms(a)
    \/ AbortGivesUp(a) \/ AbortRaises(a)
Shutdown == ShutdownFinalizes \/ ShutdownAborts

Next ==
    \/ \E a \in Callers : Begin(a) \/ Caller(a) \/ Cancel(a)
    \/ \E a \in Actors : Abort(a)
    \/ \E p \in Procs : ChildReady(p) \/ ChildAnswers(p) \/ ChildDies(p)
    \/ ReadPid \/ KillChild \/ ShutdownBegins \/ ChildExits \/ Shutdown

Spec == Init /\ [][Next]_vars

\* The event loop and its threads are scheduled; a signalled child dies.
Fairness ==
    /\ \A a \in Callers : WF_vars(Caller(a))
    /\ \A a \in Actors : WF_vars(Abort(a))
    /\ WF_vars(Shutdown)

FairSpec == Spec /\ Fairness

-----------------------------------------------------------------------------
(* Properties *)

Fatals == {"none", "start", "prewarm", "abort"}

TypeOK ==
    /\ handle \in 0 .. spent.procs /\ ready \in BOOLEAN /\ active \in BOOLEAN
    /\ fatal \in Fatals /\ torn \in BOOLEAN
    /\ {slotOf, startLock} \subseteq Callers \cup {"none"} /\ stopLock \in Actors \cup {"none"}
    /\ actor \in [Actors ->
         [pc : {"idle", "lock", "spawn", "boot", "take", "poll", "abort", "signal", "confirm",
                "graceful", "done"},
          p : Procs \cup {NoProc},
          then : {"none", "finalize", "failed", "cancelled", "startCancelled", "shutdown"},
          cancelled : BOOLEAN]]
    /\ child \in [Procs -> {"none", "boot", "loaded", "idle", "work", "dead"}]
    /\ doomed \subseteq Procs /\ closed \subseteq Procs /\ open \subseteq Procs
    /\ answer \in [Procs -> {"none", "ready", "ok", "error"}]
    /\ spent \in [procs : 0 .. MaxProcs, calls : 0 .. MaxCalls, cancels : 0 .. MaxCancels,
                  kills : 0 .. MaxKills, faults : 0 .. MaxFaults]

\* "A child that cannot be verified dead is retained": a live child is always the
\* one the worker holds, whatever was refused, torn or closed.
NoLostChild == \A p \in Procs : Alive(p) => handle = p

\* No shared slot outlives the process it was made for.
NoLeakedSlot == open \subseteq {handle}

\* When no request is active, no child works on one, unless the worker is fatal
\* (fails closed) or a cancellation has torn the abort.
QuietWhenIdle ==
    slotOf = "none" /\ fatal = "none" /\ ~torn =>
        \A p \in Procs : child[p] \notin {"loaded", "work"}

\* After a shutdown that reports no failure there is neither child nor slot.
ShutdownClean ==
    actor["down"].pc = "done" /\ fatal = "none" => open = {} /\ \A p \in Procs : ~Alive(p)

\* The worker keeps account of its child and its slot through torn aborts,
\* refused starts, kills and the shutdown.
WorkerInv == TypeOK /\ NoLostChild /\ NoLeakedSlot /\ QuietWhenIdle /\ ShutdownClean

\* Every observation returns, whatever the child does ...
CallsReturn == \A a \in Callers : actor[a].pc # "idle" ~> actor[a].pc = "idle"

\* ... and so does the shutdown.
ShutdownEnds == actor["down"].pc # "idle" ~> actor["down"].pc = "done"

\* No request and no shutdown waits for ever.
CallsEnd == CallsReturn /\ ShutdownEnds

=============================================================================
