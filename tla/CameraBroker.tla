---------------------------- MODULE CameraBroker ----------------------------
(***************************************************************************)
(* The owner of one physical camera: src/vision/camera_manager.py over     *)
(* src/vision/directshow_broker.py, for the front role.                    *)
(*                                                                         *)
(* camera_manager registers one broker per role.  A broker owns at most    *)
(* one child process that holds the device; a request takes its slot,      *)
(* starts the child if there is none, writes to the pipe and polls.  What  *)
(* fails is followed by a stop of the child, and only a stop whose death   *)
(* is confirmed lets the broker be unregistered.                           *)
(*                                                                         *)
(* Three users share the camera: the reader is the frame of a Try-On       *)
(* attempt, a coroutine with a request thread of its own, which can be     *)
(* cancelled; sync is a thread that reads for the profile or answers a     *)
(* status request; maint is a maintenance handoff.  What runs under        *)
(* _streams_lock or _state_lock, or on the event loop without an await, is *)
(* one step.  What comes beside the reader is chosen at the start (scene). *)
(***************************************************************************)
EXTENDS Naturals

CONSTANTS Scenes,      \* sets of calls beside the reader, one is chosen
          Bindings,    \* candidates the role may be bound to
          MaxBrokers,  \* bound: brokers made
          MaxReads,    \* bound: reads of the reader
          MaxFaults    \* bound: refused kills, crashes and stuck threads

\* What may come beside a reader, each once: a read or a status request of sync,
\* a maintenance handoff, a new binding, a bulk release.
Calls == {"read", "status", "handoff", "rebind", "release"}

ASSUME CameraBounds ==
    /\ Scenes \subseteq SUBSET Calls
    /\ {MaxBrokers, MaxReads, MaxFaults} \subseteq Nat

Brokers == 1 .. MaxBrokers
NoBroker == 0
Users == {"reader", "sync"}

VARIABLES
    scene,       \* the calls of this behaviour
    broker,      \* per broker, the fields of DirectShowCameraBroker and its child
    registered,  \* _dshow_brokers[role]
    made,        \* brokers made so far
    started,     \* child processes started so far; they name the processes
    sent,        \* requests sent so far; they name the requests
    binding,     \* the candidate the role is bound to
    generation,  \* _camera_lifecycle_generation
    held,        \* _maintenance_candidates
    reader,      \* _read_attempt_front_frame over DirectShowFrameSource.read_async
    sync,        \* DirectShowFrameSource.read or status, in a thread
    thread,      \* per user, the code of _request
    maint,       \* quiesce_runtime_camera and its handoff
    faults       \* faults spent so far

vars == <<scene, broker, registered, made, started, sent, binding, generation,
          held, reader, sync, thread, maint, faults>>

\* A new broker.  handle is the process it holds, alive whether that runs;
\* doomed: it was signalled, or its pipe closed; req and resp are in the pipe.
Fresh(cfg) ==
    [cfg |-> cfg, handle |-> 0, alive |-> FALSE, ready |-> FALSE, fatal |-> FALSE,
     quiesced |-> FALSE, abort |-> FALSE, slot |-> "free", announced |-> FALSE,
     doomed |-> FALSE, req |-> 0, resp |-> 0]

NoThread == [pc |-> "none", b |-> NoBroker, p |-> 0, n |-> 0, ok |-> FALSE, got |-> 0]
NoStop == [b |-> NoBroker, p |-> 0, why |-> "none"]
Resting == [pc |-> "idle", mode |-> "read", own |-> NoBroker, stop |-> NoStop,
            cfg |-> 0, tries |-> 0, gen |-> 0, cancelled |-> FALSE, dead |-> TRUE]

Init ==
    /\ scene \in Scenes
    /\ broker = [b \in Brokers |-> Fresh(0)]
    /\ registered = NoBroker
    /\ made = 0 /\ started = 0 /\ sent = 0
    /\ binding \in Bindings
    /\ generation = 0
    /\ held = {}
    /\ reader = Resting
    /\ sync = [pc |-> "idle", kind |-> "status", own |-> NoBroker, cfg |-> 0, tries |-> 0]
    /\ thread = [u \in Users |-> NoThread]
    /\ maint = [pc |-> "idle", c |-> 0, b |-> NoBroker]
    /\ faults = [spent |-> 0, reads |-> 0, calls |-> {}]

-----------------------------------------------------------------------------
(* Stopping a child *)

CanFail == faults.spent < MaxFaults
Spend == faults' = [faults EXCEPT !.spent = @ + 1]
Unspent == UNCHANGED faults

\* Each call comes once, at any moment.
Comes(call) ==
    /\ call \in scene \ faults.calls
    /\ faults' = [faults EXCEPT !.calls = @ \cup {call}]

LiveThread(u, b) == thread[u].b = b /\ thread[u].pc \notin {"none", "done"}
ThreadsDone(b) == ~LiveThread("reader", b)   \* only _request_async registers one

\* The pipe is closed at this end: what is in it will not be read.
Closed(r) == [r EXCEPT !.ready = FALSE, !.announced = FALSE, !.req = 0, !.resp = 0]

\* The child is dead: the handle goes, and with a process also the fatal state.
Dead(r) ==
    IF r.handle = 0 THEN [r EXCEPT !.abort = TRUE]
    ELSE [Closed(r) EXCEPT !.handle = 0, !.alive = FALSE, !.fatal = FALSE, !.abort = TRUE,
                           !.doomed = FALSE]

\* The child outlives its kill: the handle stays.
Undead(r) == [Closed(r) EXCEPT !.fatal = TRUE, !.abort = TRUE, !.doomed = TRUE]

\* _stop_process, under the state lock.
StopProcess(b, dead) ==
    \/ /\ dead /\ Unspent
       /\ broker' = [broker EXCEPT ![b] = Dead(@)]
    \/ /\ ~dead /\ broker[b].alive /\ CanFail /\ Spend
       /\ broker' = [broker EXCEPT ![b] = Undead(@)]

Signalled(r) == [Closed(r) EXCEPT !.abort = TRUE, !.doomed = r.handle # 0]
Killed(r) == [Signalled(r) EXCEPT !.alive = FALSE]

\* abort_async, first half: the process of this moment is signalled.
AbortSignals(b) ==
    \/ /\ ~broker[b].alive /\ Unspent
       /\ broker' = [broker EXCEPT ![b] = Signalled(@)]
    \/ /\ broker[b].alive /\ Unspent
       /\ broker' = [broker EXCEPT ![b] = Killed(@)]
    \/ /\ broker[b].alive /\ CanFail /\ Spend
       /\ broker' = [broker EXCEPT ![b] = Signalled(@)]

\* abort_async, second half: process p is dead and the request thread joined.
AbortConfirms(b, p) ==
    /\ ~(p # 0 /\ p = broker[b].handle /\ broker[b].alive)
    /\ ThreadsDone(b)
    /\ broker' = [broker EXCEPT ![b] =
                    IF p = @.handle THEN [@ EXCEPT !.handle = 0, !.fatal = FALSE, !.doomed = FALSE]
                    ELSE [@ EXCEPT !.fatal = FALSE]]
    /\ Unspent

\* abort_async, second half: something is still alive when its time is up.
AbortGivesUp(b, p) ==
    /\ \/ p # 0 /\ p = broker[b].handle /\ broker[b].alive /\ Unspent
       \/ ~ThreadsDone(b) /\ CanFail /\ Spend
    /\ broker' = [broker EXCEPT ![b].fatal = TRUE]

\* Unregister a broker whose death is confirmed, unless another took its place.
Unregister(b) == registered' = IF registered = b THEN NoBroker ELSE registered

-----------------------------------------------------------------------------
(* _request: start the child, wait until it is ready, send, poll *)

\* Slip: a start does not look at the maintenance flag.
RefusesFatal(b) == broker[b].fatal

Refuses(b) == broker[b].fatal \/ broker[b].quiesced

StartLocked(r) ==
    IF r.alive THEN r
    ELSE [r EXCEPT !.handle = started + 1, !.alive = TRUE, !.ready = FALSE,
                   !.announced = FALSE, !.doomed = FALSE, !.req = 0, !.resp = 0]
Starts(b) ==
    /\ ~Refuses(b)
    /\ broker' = [broker EXCEPT ![b] = StartLocked(@)]
    /\ started' = IF broker[b].alive THEN started ELSE started + 1

Done(u, ok, got) == thread' = [thread EXCEPT ![u].pc = "done", ![u].ok = ok, ![u].got = got]

ThreadStarts(u) ==
    /\ thread[u].pc = "start"
    /\ Starts(thread[u].b)
    /\ thread' = [thread EXCEPT ![u].pc = "boot", ![u].p = broker'[thread[u].b].handle]
    /\ UNCHANGED <<scene, registered, made, sent, binding, generation, held, reader, sync,
                   maint, faults>>

ThreadRefused(u) ==
    /\ thread[u].pc = "start" /\ Refuses(thread[u].b)
    /\ Done(u, FALSE, 0)
    /\ UNCHANGED <<scene, broker, registered, made, started, sent, binding, generation, held,
                   reader, sync, maint, faults>>

\* _wait_ready, which an abort ends, then the request goes into the pipe.
ThreadSends(u) ==
    LET b == thread[u].b IN
    /\ thread[u].pc = "boot"
    /\ broker[b].handle = thread[u].p /\ broker[b].alive /\ ~broker[b].doomed
    /\ ~broker[b].abort
    /\ broker[b].ready \/ broker[b].announced
    /\ sent' = sent + 1
    /\ broker' = [broker EXCEPT ![b].ready = TRUE, ![b].req = sent + 1]
    /\ thread' = [thread EXCEPT ![u].pc = "poll", ![u].n = sent + 1]
    /\ UNCHANGED <<scene, registered, made, started, binding, generation, held, reader, sync,
                   maint, faults>>

ThreadReceives(u) ==
    LET b == thread[u].b IN
    /\ thread[u].pc = "poll" /\ broker[b].resp # 0 /\ ~broker[b].doomed
    /\ \E ok \in BOOLEAN : Done(u, ok, broker[b].resp)
    /\ broker' = [broker EXCEPT ![b].resp = 0]
    /\ UNCHANGED <<scene, registered, made, started, sent, binding, generation, held, reader,
                   sync, maint, faults>>

\* Slip: the request has no deadline.
ThreadFailsOnAbort(u) ==
    /\ thread[u].pc \in {"boot", "poll"}
    /\ broker[thread[u].b].abort \/ ~broker[thread[u].b].alive
    /\ Done(u, FALSE, 0)
    /\ UNCHANGED <<scene, broker, registered, made, started, sent, binding, generation, held,
                   reader, sync, maint, faults>>

\* The request is aborted, the child is dead, or the deadline has passed.
ThreadFails(u) ==
    /\ thread[u].pc \in {"boot", "poll"}
    /\ Done(u, FALSE, 0)
    /\ UNCHANGED <<scene, broker, registered, made, started, sent, binding, generation, held,
                   reader, sync, maint, faults>>

-----------------------------------------------------------------------------
(* The child: directshow_broker_entry *)

ChildAnnounces(b) ==
    /\ broker[b].alive /\ ~broker[b].doomed /\ ~broker[b].announced
    /\ broker' = [broker EXCEPT ![b].announced = TRUE]
    /\ UNCHANGED <<scene, registered, made, started, sent, binding, generation, held, reader,
                   sync, thread, maint, faults>>

ChildAnswers(b) ==
    /\ broker[b].alive /\ broker[b].req # 0
    /\ broker' = [broker EXCEPT ![b].resp = broker[b].req, ![b].req = 0]
    /\ UNCHANGED <<scene, registered, made, started, sent, binding, generation, held, reader,
                   sync, thread, maint, faults>>

\* A crash, or the late effect of a signal or of the closed pipe.
ChildDies(b) ==
    /\ broker[b].alive
    /\ IF broker[b].doomed THEN Unspent ELSE CanFail /\ Spend
    /\ broker' = [broker EXCEPT ![b].alive = FALSE, ![b].req = 0]
    /\ UNCHANGED <<scene, registered, made, started, sent, binding, generation, held, reader,
                   sync, thread, maint>>

-----------------------------------------------------------------------------
(* The reader *)

readerOnly == <<scene, sync, maint>>
FrontReading == sync.pc # "idle" /\ sync.kind = "read"   \* sync has the I/O lock

ReadBegins ==
    /\ reader.pc = "idle" /\ ~FrontReading /\ faults.reads < MaxReads
    /\ reader' = [Resting EXCEPT !.pc = "resolve", !.cfg = binding]
    /\ faults' = [faults EXCEPT !.reads = @ + 1]
    /\ UNCHANGED <<readerOnly, broker, registered, made, started, sent, binding, generation,
                   held, thread>>

Restarted(r) == [Resting EXCEPT !.mode = "restart", !.own = r.own, !.gen = r.gen]

\* Where an exception of the read, or of the restart after it, leads.
Failing(r) == IF r.mode = "restart" THEN Restarted(r) ELSE [r EXCEPT !.pc = "failed"]

\* Slip: a broker of another binding is replaced at once.
ResolveOverwrites ==
    /\ reader.pc = "resolve" /\ reader.cfg \notin held
    /\ \/ /\ registered # NoBroker /\ broker[registered].cfg = reader.cfg
          /\ reader' = [reader EXCEPT !.pc = "take", !.own = registered]
          /\ UNCHANGED <<broker, registered, made>>
       \/ /\ made < MaxBrokers
          /\ registered # NoBroker => broker[registered].cfg # reader.cfg
          /\ made' = made + 1 /\ registered' = made + 1
          /\ broker' = [broker EXCEPT ![made + 1] = Fresh(reader.cfg)]
          /\ reader' = [reader EXCEPT !.pc = "take", !.own = made + 1]
    /\ UNCHANGED <<readerOnly, started, sent, binding, generation, held, thread, faults>>

\* _broker_async up to its first await.
Resolve ==
    /\ reader.pc = "resolve"
    /\ \/ /\ reader.cfg \in held
          /\ reader' = Failing(reader)
          /\ UNCHANGED <<broker, registered, made>>
       \/ /\ reader.cfg \notin held /\ registered = NoBroker /\ made < MaxBrokers
          /\ made' = made + 1 /\ registered' = made + 1
          /\ broker' = [broker EXCEPT ![made + 1] = Fresh(reader.cfg)]
          /\ reader' = [reader EXCEPT !.pc = "take", !.own = made + 1]
       \/ /\ reader.cfg \notin held /\ registered # NoBroker
          /\ reader' = IF broker[registered].cfg = reader.cfg
                         THEN [reader EXCEPT !.pc = "take", !.own = registered]
                         ELSE [reader EXCEPT !.pc = "stop",
                                 !.stop = [NoStop EXCEPT !.b = registered, !.why = "swap"]]
          /\ UNCHANGED <<broker, registered, made>>
    /\ UNCHANGED <<readerOnly, started, sent, binding, generation, held, thread, faults>>

\* The slot is taken without waiting, and the abort event cleared.
TakeSlot(b, u) ==
    /\ broker[b].slot = "free"
    /\ broker' = [broker EXCEPT ![b].slot = u, ![b].abort = FALSE]

\* The request thread of _request_async, or start_async of a restart.
Take ==
    /\ reader.pc = "take"
    /\ TakeSlot(reader.own, "reader")
    /\ IF reader.mode = "read"
         THEN /\ reader' = [reader EXCEPT !.pc = "wait"]
              /\ thread' = [thread EXCEPT !["reader"] =
                              [NoThread EXCEPT !.pc = "start", !.b = reader.own]]
         ELSE /\ reader' = [reader EXCEPT !.pc = "start"]
              /\ UNCHANGED thread
    /\ UNCHANGED <<readerOnly, registered, made, started, sent, binding, generation, held, faults>>

\* Another request has the slot.  A failed restart unregisters a dead broker.
TakeBusy ==
    /\ reader.pc = "take" /\ broker[reader.own].slot # "free"
    /\ reader' = Failing(reader)
    /\ IF reader.mode = "restart" /\ ~broker[reader.own].alive
         THEN Unregister(reader.own)
         ELSE UNCHANGED registered
    /\ UNCHANGED <<readerOnly, broker, made, started, sent, binding, generation, held, thread,
                   faults>>

\* The frame is there: the thread is joined and the slot released.
ReadReturns ==
    /\ reader.pc = "wait" /\ thread["reader"].pc = "done" /\ thread["reader"].ok
    /\ thread' = [thread EXCEPT !["reader"] = NoThread]
    /\ broker' = [broker EXCEPT ![reader.own].slot = "free"]
    /\ reader' = Resting
    /\ UNCHANGED <<readerOnly, registered, made, started, sent, binding, generation, held, faults>>

Aborting(r, b, why) == [r EXCEPT !.pc = "stop", !.stop = [NoStop EXCEPT !.b = b, !.why = why]]

\* abort_camera_request: nothing is registered, or the registered broker stops.
AbortRegistered(r, why, next) ==
    IF registered = NoBroker THEN [r EXCEPT !.pc = next, !.dead = TRUE]
    ELSE Aborting(r, registered, why)

ReadErrs ==
    /\ reader.pc = "wait" /\ thread["reader"].pc = "done" /\ ~thread["reader"].ok
    /\ reader' = Aborting(reader, reader.own, "cleanup")
    /\ UNCHANGED <<readerOnly, broker, registered, made, started, sent, binding, generation, held,
                   thread, faults>>

\* The attempt is cancelled, or its deadline has passed: the registered broker
\* is aborted first, then the cancelled read cleans up its own.
CancelRead ==
    /\ reader.pc = "wait"
    /\ reader' = AbortRegistered([reader EXCEPT !.cancelled = TRUE], "outer", "cleanup")
    /\ UNCHANGED <<readerOnly, broker, registered, made, started, sent, binding, generation, held,
                   thread, faults>>

Cleanup ==
    /\ reader.pc = "cleanup"
    /\ reader' = Aborting(reader, reader.own, "cleanup")
    /\ UNCHANGED <<readerOnly, broker, registered, made, started, sent, binding, generation, held,
                   thread, faults>>

StopBegins ==
    /\ reader.pc = "stop"
    /\ AbortSignals(reader.stop.b)
    /\ reader' = [reader EXCEPT !.pc = "stopping", !.stop.p = broker[reader.stop.b].handle]
    /\ UNCHANGED <<readerOnly, registered, made, started, sent, binding, generation, held, thread>>

\* What follows a stop, dead or not.
AfterStop(r, dead) ==
    CASE r.stop.why = "swap" ->
           IF dead THEN [r EXCEPT !.pc = "resolve"] ELSE Failing(r)
      [] r.stop.why = "cleanup" -> [r EXCEPT !.pc = "join"]
      [] r.stop.why = "failed" -> [r EXCEPT !.pc = "retry"]
      [] r.stop.why = "outer" -> [r EXCEPT !.pc = "cleanup", !.dead = dead]
      [] r.stop.why = "confirm" -> IF dead THEN [r EXCEPT !.pc = "restart"] ELSE Resting
      [] r.stop.why = "startup" -> [r EXCEPT !.pc = "unslot"]
      [] r.stop.why = "invalidated" -> Restarted(r)

\* Every caller of abort_async but the request itself unregisters a dead broker.
UnregisterAfter(why, b) ==
    IF why \in {"swap", "failed", "outer", "confirm", "invalidated"}
      THEN Unregister(b)
      ELSE UNCHANGED registered

StopEnds ==
    /\ reader.pc = "stopping"
    /\ \/ /\ AbortConfirms(reader.stop.b, reader.stop.p)
          /\ UnregisterAfter(reader.stop.why, reader.stop.b)
          /\ reader' = AfterStop([reader EXCEPT !.stop.p = 0], TRUE)
       \/ /\ AbortGivesUp(reader.stop.b, reader.stop.p)
          /\ reader' = AfterStop([reader EXCEPT !.stop.p = 0], FALSE)
          /\ UNCHANGED registered
    /\ UNCHANGED <<readerOnly, made, started, sent, binding, generation, held, thread>>

\* The request thread is joined before the slot is released.
Join ==
    /\ reader.pc = "join" /\ thread["reader"].pc = "done"
    /\ thread' = [thread EXCEPT !["reader"] = NoThread]
    /\ broker' = [broker EXCEPT ![reader.own].slot = "free"]
    /\ reader' = IF ~reader.cancelled THEN Failing(reader)
                 ELSE IF reader.dead THEN [reader EXCEPT !.pc = "restart"]
                 ELSE AbortRegistered(reader, "confirm", "restart")
    /\ UNCHANGED <<readerOnly, registered, made, started, sent, binding, generation, held, faults>>

\* A failed read looks for the camera again and stops the registered broker.
ReadFails ==
    /\ reader.pc = "failed"
    /\ reader' = AbortRegistered([reader EXCEPT !.cfg = binding], "failed", "retry")
    /\ UNCHANGED <<readerOnly, broker, registered, made, started, sent, binding, generation, held,
                   thread, faults>>

Retry ==
    /\ reader.pc = "retry"
    /\ reader' = IF reader.tries = 0 THEN [reader EXCEPT !.pc = "resolve", !.tries = 1]
                 ELSE Resting
    /\ UNCHANGED <<readerOnly, broker, registered, made, started, sent, binding, generation, held,
                   thread, faults>>

\* restart_camera_request, before its first await.
Restart ==
    /\ reader.pc = "restart"
    /\ reader' = [reader EXCEPT !.pc = "resolve", !.mode = "restart", !.gen = generation,
                                !.cfg = binding]
    /\ UNCHANGED <<readerOnly, broker, registered, made, started, sent, binding, generation, held,
                   thread, faults>>

RestartStarts ==
    /\ reader.pc = "start"
    /\ Starts(reader.own)
    /\ reader' = [reader EXCEPT !.pc = "boot"]
    /\ UNCHANGED <<readerOnly, registered, made, sent, binding, generation, held, thread, faults>>

\* Refused, aborted, dead, or not ready in time.
RestartFails ==
    /\ reader.pc \in {"start", "boot"}
    /\ \/ reader.pc = "start" /\ Refuses(reader.own) /\ Unspent
       \/ reader.pc = "boot" /\ (broker[reader.own].abort \/ ~broker[reader.own].alive) /\ Unspent
       \/ reader.pc = "boot" /\ CanFail /\ Spend
    /\ reader' = Aborting(reader, reader.own, "startup")
    /\ UNCHANGED <<readerOnly, broker, registered, made, started, sent, binding, generation, held,
                   thread>>

RestartReady ==
    /\ reader.pc = "boot" /\ broker[reader.own].announced /\ ~broker[reader.own].doomed
    /\ ~broker[reader.own].abort
    /\ broker' = [broker EXCEPT ![reader.own].ready = TRUE, ![reader.own].slot = "free"]
    /\ reader' = [reader EXCEPT !.pc = "check"]
    /\ UNCHANGED <<readerOnly, registered, made, started, sent, binding, generation, held, thread,
                   faults>>

\* start_async has failed: release the slot, unregister the broker if it is dead.
Unslot ==
    /\ reader.pc = "unslot"
    /\ broker' = [broker EXCEPT ![reader.own].slot = "free"]
    /\ IF broker[reader.own].alive THEN UNCHANGED registered ELSE Unregister(reader.own)
    /\ reader' = Restarted(reader)
    /\ UNCHANGED <<readerOnly, made, started, sent, binding, generation, held, thread, faults>>

\* release_all_cameras may have come in between.
StillCurrent == generation = reader.gen /\ registered = reader.own

RestartChecks ==
    /\ reader.pc = "check"
    /\ reader' = IF StillCurrent THEN Restarted(reader)
                 ELSE Aborting(reader, reader.own, "invalidated")
    /\ UNCHANGED <<readerOnly, broker, registered, made, started, sent, binding, generation, held,
                   thread, faults>>

-----------------------------------------------------------------------------
(* Synchronous users: DirectShowFrameSource.read and status *)

othersOfSync == <<scene, reader, maint, generation, held, binding>>

\* release() of a broker: stop the child, join the registered request thread.
Released(b, ok) ==
    \/ /\ StopProcess(b, ok)
       /\ thread' = IF LiveThread("reader", b)
                      THEN [thread EXCEPT !["reader"].pc = "done", !["reader"].ok = FALSE]
                      ELSE thread
    \/ /\ ~ok /\ LiveThread("reader", b) /\ CanFail /\ Spend
       /\ broker' = [broker EXCEPT ![b] = [Dead(@) EXCEPT !.fatal = TRUE]]
       /\ UNCHANGED thread

\* A read holds the I/O lock and so excludes the reader; a status request of the
\* HTTP interface asks for no lock.
SyncBegins(kind) ==
    /\ sync.pc = "idle" /\ Comes(kind)
    /\ kind = "read" => reader.pc = "idle"
    /\ sync' = [pc |-> "resolve", kind |-> kind, own |-> NoBroker, cfg |-> binding, tries |-> 0]
    /\ UNCHANGED <<othersOfSync, broker, registered, made, started, sent, thread>>

SyncFails ==
    sync' = [sync EXCEPT !.pc = IF sync.kind = "read" THEN "recover" ELSE "idle"]

SyncMakes(others) ==
    /\ made < MaxBrokers
    /\ made' = made + 1 /\ registered' = made + 1
    /\ broker' = [others EXCEPT ![made + 1] = Fresh(sync.cfg)]
    /\ sync' = [sync EXCEPT !.pc = "take", !.own = made + 1]

\* _broker: the registered broker, or a new one once the old one is released.
SyncResolves ==
    /\ sync.pc = "resolve"
    /\ \/ /\ sync.cfg \in held /\ SyncFails
          /\ UNCHANGED <<broker, registered, made, thread, faults>>
       \/ /\ sync.cfg \notin held /\ registered = NoBroker
          /\ SyncMakes(broker)
          /\ UNCHANGED <<thread, faults>>
       \/ /\ sync.cfg \notin held /\ registered # NoBroker
          /\ broker[registered].cfg = sync.cfg
          /\ sync' = [sync EXCEPT !.pc = "take", !.own = registered]
          /\ UNCHANGED <<broker, registered, made, thread, faults>>
    /\ UNCHANGED <<othersOfSync, started, sent>>

\* _broker, the registered broker has another configuration: it is released
\* and, once it is dead, replaced.
SyncSwaps ==
    /\ sync.pc = "resolve" /\ sync.cfg \notin held
    /\ registered # NoBroker
    /\ LET old == registered IN
       /\ broker[old].cfg # sync.cfg
       /\ \/ /\ Released(old, FALSE) /\ SyncFails
             /\ UNCHANGED <<registered, made>>
          \/ /\ SyncMakes([broker EXCEPT ![old] = Dead(@)])
             /\ thread' = IF LiveThread("reader", old)
                            THEN [thread EXCEPT !["reader"].pc = "done", !["reader"].ok = FALSE]
                            ELSE thread
             /\ Unspent
    /\ UNCHANGED <<othersOfSync, started, sent>>

SyncTakes ==
    /\ sync.pc = "take"
    /\ TakeSlot(sync.own, "sync")
    /\ sync' = [sync EXCEPT !.pc = "wait"]
    /\ thread' = [thread EXCEPT !["sync"] = [NoThread EXCEPT !.pc = "start", !.b = sync.own]]
    /\ UNCHANGED <<othersOfSync, registered, made, started, sent, faults>>

SyncBusy ==
    /\ sync.pc = "take" /\ broker[sync.own].slot # "free"
    /\ SyncFails
    /\ UNCHANGED <<othersOfSync, broker, registered, made, started, sent, thread, faults>>

SyncReturns ==
    /\ sync.pc = "wait" /\ thread["sync"].pc = "done" /\ thread["sync"].ok
    /\ sync' = [sync EXCEPT !.pc = "idle"]
    /\ broker' = [broker EXCEPT ![sync.own].slot = "free"]
    /\ thread' = [thread EXCEPT !["sync"] = NoThread]
    /\ UNCHANGED <<othersOfSync, registered, made, started, sent, faults>>

\* Slip: a failed request leaves its child as it is.
SyncErrsUnstopped ==
    /\ sync.pc = "wait" /\ thread["sync"].pc = "done" /\ ~thread["sync"].ok
    /\ sync' = [sync EXCEPT !.pc = "unslot"]
    /\ UNCHANGED <<othersOfSync, broker, registered, made, started, sent, thread, faults>>

\* The request failed: its child is stopped before the slot is released.
SyncErrs ==
    /\ sync.pc = "wait" /\ thread["sync"].pc = "done" /\ ~thread["sync"].ok
    /\ \E dead \in BOOLEAN : StopProcess(sync.own, dead)
    /\ sync' = [sync EXCEPT !.pc = "unslot"]
    /\ UNCHANGED <<othersOfSync, registered, made, started, sent, thread>>

SyncUnslots ==
    /\ sync.pc = "unslot"
    /\ broker' = [broker EXCEPT ![sync.own].slot = "free"]
    /\ thread' = [thread EXCEPT !["sync"] = NoThread]
    /\ SyncFails
    /\ UNCHANGED <<othersOfSync, registered, made, started, sent, faults>>

\* A failed read looks for the camera again and releases the registered broker.
SyncRecovers ==
    /\ sync.pc = "recover"
    /\ IF registered = NoBroker
         THEN /\ sync' = [sync EXCEPT !.pc = "retry", !.cfg = binding]
              /\ UNCHANGED <<broker, thread, faults>>
         ELSE \E ok \in BOOLEAN :
                /\ Released(registered, ok)
                /\ sync' = [sync EXCEPT !.pc = IF ok THEN "pop" ELSE "retry",
                                        !.own = registered, !.cfg = binding]
    /\ UNCHANGED <<othersOfSync, registered, made, started, sent>>

SyncPops ==
    /\ sync.pc = "pop"
    /\ Unregister(sync.own)
    /\ sync' = [sync EXCEPT !.pc = "retry"]
    /\ UNCHANGED <<othersOfSync, broker, made, started, sent, thread, faults>>

SyncRetries ==
    /\ sync.pc = "retry"
    /\ sync' = IF sync.tries = 0 THEN [sync EXCEPT !.pc = "resolve", !.tries = 1]
               ELSE [sync EXCEPT !.pc = "idle"]
    /\ UNCHANGED <<othersOfSync, broker, registered, made, started, sent, thread, faults>>

-----------------------------------------------------------------------------
(* Maintenance and bulk release *)

\* quiesce_runtime_camera under the streams lock.
Quiesce(c) ==
    /\ Comes("handoff")
    /\ held' = held \cup {c}
    /\ LET b == IF registered # NoBroker /\ broker[registered].cfg = c
                  THEN registered ELSE NoBroker IN
       maint' = [pc |-> IF b = NoBroker THEN "held" ELSE "begin", c |-> c, b |-> b]
    /\ UNCHANGED <<scene, broker, registered, made, started, sent, binding, generation, reader,
                   sync, thread>>

\* begin_maintenance: no start from now on ...
BeginMaintenance ==
    /\ maint.pc = "begin"
    /\ broker' = [broker EXCEPT ![maint.b].quiesced = TRUE]
    /\ maint' = [maint EXCEPT !.pc = "release"]
    /\ UNCHANGED <<scene, registered, made, started, sent, binding, generation, held, reader,
                   sync, thread, faults>>

\* ... and the child is stopped.  A handoff that fails leaves its broker quiesced.
MaintenanceReleases ==
    /\ maint.pc = "release"
    /\ \E ok \in BOOLEAN :
         /\ Released(maint.b, ok)
         /\ maint' = [maint EXCEPT !.pc = IF ok THEN "held" ELSE "idle"]
         /\ held' = IF ok THEN held ELSE held \ {maint.c}
    /\ UNCHANGED <<scene, registered, made, started, sent, binding, generation, reader, sync>>

EndMaintenance ==
    /\ maint.pc = "held"
    /\ broker' = IF maint.b = NoBroker THEN broker
                 ELSE [broker EXCEPT ![maint.b].quiesced = FALSE]
    /\ held' = held \ {maint.c}
    /\ maint' = [maint EXCEPT !.pc = "idle"]
    /\ UNCHANGED <<scene, registered, made, started, sent, binding, generation, reader, sync,
                   thread, faults>>

\* A confirmation binds the role to another candidate.
Rebind ==
    /\ Comes("rebind")
    /\ binding' \in Bindings \ {binding}
    /\ UNCHANGED <<scene, broker, registered, made, started, sent, generation, held, reader, sync,
                   thread, maint>>

\* release_all_cameras blocks the event loop and waits for the read lock of the role.
ReleaseAll ==
    /\ "release" \in scene /\ generation = 0 /\ ~FrontReading
    /\ generation' = 1
    /\ IF registered = NoBroker
         THEN UNCHANGED <<broker, thread, registered, faults>>
         ELSE \E ok \in BOOLEAN :
                /\ Released(registered, ok)
                /\ IF ok THEN Unregister(registered) ELSE UNCHANGED registered
    /\ UNCHANGED <<scene, made, started, sent, binding, held, reader, sync, maint>>

-----------------------------------------------------------------------------

Reader ==
    \/ Resolve \/ Take \/ TakeBusy \/ ReadReturns \/ ReadErrs \/ Cleanup \/ StopBegins \/ StopEnds
    \/ Join \/ ReadFails \/ Retry \/ Restart \/ RestartStarts \/ RestartFails \/ RestartReady
    \/ Unslot \/ RestartChecks
Sync ==
    \/ SyncResolves \/ SyncSwaps \/ SyncTakes \/ SyncBusy \/ SyncReturns \/ SyncErrs
    \/ SyncUnslots \/ SyncRecovers \/ SyncPops \/ SyncRetries
Thread(u) == ThreadStarts(u) \/ ThreadRefused(u) \/ ThreadSends(u) \/ ThreadReceives(u) \/ ThreadFails(u)
Maintenance == BeginMaintenance \/ MaintenanceReleases

Next ==
    \/ ReadBegins \/ CancelRead \/ Reader
    \/ (\E kind \in {"read", "status"} : SyncBegins(kind)) \/ Sync
    \/ \E u \in Users : Thread(u)
    \/ \E b \in Brokers : ChildAnnounces(b) \/ ChildAnswers(b) \/ ChildDies(b)
    \/ (\E c \in Bindings : Quiesce(c)) \/ Maintenance \/ EndMaintenance \/ Rebind
    \/ ReleaseAll

Spec == Init /\ [][Next]_vars

\* The event loop and the threads are scheduled, and a child that boots says so.
Fairness ==
    /\ WF_vars(Reader) /\ WF_vars(Sync) /\ WF_vars(Maintenance)
    /\ \A u \in Users : WF_vars(Thread(u))
    /\ \A b \in Brokers : WF_vars(ChildAnnounces(b))

FairSpec == Spec /\ Fairness

-----------------------------------------------------------------------------
(* Properties *)

Stops == [b : 0 .. MaxBrokers, p : Nat,
          why : {"none", "swap", "cleanup", "failed", "outer", "confirm", "startup",
                 "invalidated"}]

TypeOK ==
    /\ scene \in Scenes
    /\ broker \in [Brokers ->
         [cfg : Bindings \cup {0}, handle : Nat, alive : BOOLEAN, ready : BOOLEAN, fatal : BOOLEAN,
          quiesced : BOOLEAN, abort : BOOLEAN, slot : Users \cup {"free"}, announced : BOOLEAN,
          doomed : BOOLEAN, req : Nat, resp : Nat]]
    /\ registered \in 0 .. made /\ made \in 0 .. MaxBrokers
    /\ started \in Nat /\ sent \in Nat /\ generation \in 0 .. 1
    /\ binding \in Bindings /\ held \subseteq Bindings
    /\ reader \in
         [pc : {"idle", "resolve", "take", "wait", "cleanup", "stop", "stopping", "join", "failed",
                "retry", "restart", "start", "boot", "unslot", "check"},
          mode : {"read", "restart"}, own : 0 .. MaxBrokers, stop : Stops,
          cfg : Bindings \cup {0}, tries : 0 .. 1, gen : 0 .. 1, cancelled : BOOLEAN, dead : BOOLEAN]
    /\ sync \in [pc : {"idle", "resolve", "take", "wait", "unslot", "recover", "pop", "retry"},
                 kind : {"read", "status"}, own : 0 .. MaxBrokers, cfg : Bindings \cup {0},
                 tries : 0 .. 1]
    /\ thread \in [Users -> [pc : {"none", "start", "boot", "poll", "done"}, b : 0 .. MaxBrokers,
                            p : Nat, n : Nat, ok : BOOLEAN, got : Nat]]
    /\ maint \in [pc : {"idle", "begin", "release", "held"}, c : Bindings \cup {0},
                  b : 0 .. MaxBrokers]
    /\ faults \in [spent : 0 .. MaxFaults, reads : 0 .. MaxReads, calls : SUBSET Calls]

\* A request is answered with its own frame: the answer to a request that timed
\* out or was cancelled is never taken for that of a later one.
AnswersOwnRequest ==
    \A u \in Users : thread[u].pc = "done" /\ thread[u].ok => thread[u].got = thread[u].n

\* The reader is about to stop the child of the read that was cancelled.
CleansUp(b) == reader.own = b /\ reader.cancelled /\ reader.pc \in {"cleanup", "stop", "stopping"}

\* The registered broker is the truthful owner record: a live child is that of
\* the registered broker, one its cancelled read is about to stop, or one that
\* survived its kill.  (Status requests, which take no lock, are left out, and
\* so is the bulk release: both may unregister a broker that just started a child.)
ChildIsRegistered ==
    scene \cap {"status", "release"} = {} =>
        \A b \in Brokers :
            broker[b].alive => registered = b \/ CleansUp(b) \/ broker[b].fatal

\* While a maintenance handoff holds a candidate, no child has it open.  (Left
\* out for the same reason: the handoff quiesces the registered broker only.)
MaintenanceAlone ==
    scene \cap {"status", "release"} = {} /\ maint.pc = "held" =>
        \A b \in Brokers :
            broker[b].alive => broker[b].cfg # maint.c \/ CleansUp(b) \/ broker[b].fatal

\* A restart that a bulk release overtook leaves no child behind, or a fatal
\* broker that says so.  (A later read or status request may start a child of
\* the same broker, which is then no longer that of the restart.)
NoRestartAfterRelease ==
    scene \cap {"status", "read"} = {} /\ reader.pc = "idle" /\ reader.mode = "restart"
        /\ reader.gen < generation /\ broker[reader.own].alive
        => broker[reader.own].fatal

\* No live child escapes the books: neither a start nor a cleanup nor a release
\* that overtakes a restart leaves one that nobody will stop.
BrokerInv == TypeOK /\ ChildIsRegistered /\ NoRestartAfterRelease

\* Every read and every status request ends, whatever the child does.
CallsReturn ==
    /\ reader.pc # "idle" ~> reader.pc = "idle"
    /\ sync.pc # "idle" ~> sync.pc = "idle"

=============================================================================
