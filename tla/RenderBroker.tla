---------------------------- MODULE RenderBroker ----------------------------
(***************************************************************************)
(* The lifecycle-owned render broker of src/vision/attempt_worker.py with  *)
(* the shared-memory slot of src/vision/shared_ipc_slot.py and the loop of *)
(* the child in src/vision/render_worker_target.py.                        *)
(*                                                                         *)
(* One child process renders at a time.  A caller of render() takes the    *)
(* job slot and hands its job to a request thread, which writes it into    *)
(* the slot shared with the child and polls for the response.  Whatever    *)
(* fails is recovered by killing the child and starting another one in a   *)
(* new slot, under a new process generation.                               *)
(*                                                                         *)
(* A child and its slot are named by the process generation that made      *)
(* them.  What runs under _state_lock, or on the event loop without an     *)
(* await, is one step; the request thread, the start task, the child and   *)
(* every coroutine interleave.                                             *)
(***************************************************************************)
EXTENDS Naturals, FiniteSets

CONSTANTS Callers,     \* the coroutines that may call render()
          MaxJobs,     \* bound: jobs admitted in one behaviour
          MaxGen,      \* bound: process generations
          MaxFaults    \* bound: crashes, refused kills, bad or slow starts

ASSUME RenderBounds ==
    /\ MaxJobs \in Nat
    /\ MaxGen \in Nat
    /\ MaxFaults \in Nat
    /\ 0 \notin Callers

Gens == 1 .. MaxGen
NoGen == 0
NoCaller == 0
NoMsg == [kind |-> "none", job |-> 0, pg |-> 0, rg |-> 0]
NoCall == [pc |-> "idle", why |-> "none", thread |-> "none", job |-> 0,
           pg |-> 0, rg |-> 0, out |-> "none", answer |-> 0]

VARIABLES
    broker,    \* the fields of TryOnRenderBroker
    jobSlot,   \* the caller that holds _job_slot
    start,     \* the shared start task: where it is and what it is starting
    child,     \* per generation, the render process
    ipc,       \* per generation, the shared slot
    call,      \* per caller, its coroutine and its request thread
    down,      \* the progress of shutdown()
    jobs,      \* jobs admitted so far
    faults     \* faults spent so far

vars == <<broker, jobSlot, start, child, ipc, call, down, jobs, faults>>

Fatals == {"none", "start_failed", "readiness_timeout", "readiness_invalid",
           "cancelled", "failed", "ipc_corrupt", "kill_refused",
           "shutdown_failed", "thread_alive"}

Init ==
    /\ broker = [handle |-> NoGen, slot |-> NoGen, ready |-> FALSE,
                 fatal |-> "none", quiesced |-> FALSE, gen |-> 0, rgen |-> 0,
                 active |-> FALSE]
    /\ jobSlot = NoCaller
    /\ start = [pc |-> "none", gen |-> NoGen]
    /\ child = [g \in Gens |-> [pc |-> "gone", job |-> NoMsg, signalled |-> FALSE]]
    /\ ipc = [g \in Gens |-> [open |-> FALSE, req |-> NoMsg, resp |-> NoMsg]]
    /\ call = [c \in Callers |-> NoCall]
    /\ down = "up"
    /\ jobs = 0
    /\ faults = 0

-----------------------------------------------------------------------------
(* Processes, slots and the fault budget *)

Alive(g) == g \in Gens /\ child[g].pc # "gone"
LiveThread(c) == call[c].thread \in {"begin", "submit", "poll"}
ThreadsDone == \A c \in Callers : ~LiveThread(c)
Gone == [pc |-> "gone", job |-> NoMsg, signalled |-> FALSE]

CanFail == faults < MaxFaults
Spend == faults' = faults + 1

\* What remains of the parent's record once its child is dead and closed.
Dropped(b) == [b EXCEPT !.handle = NoGen, !.slot = NoGen, !.ready = FALSE]

\* close(unlink=True): the events of a closed slot keep their state.
CloseSlot(g) ==
    IF g \in Gens
      THEN [ipc EXCEPT ![g] = [open |-> FALSE, req |-> NoMsg,
                               resp |-> [NoMsg EXCEPT !.kind = ipc[g].resp.kind]]]
      ELSE ipc
KillChild(g) == IF g \in Gens THEN [child EXCEPT ![g] = Gone] ELSE child
Signalled(g) == [child EXCEPT ![g].signalled = TRUE]

\* _reconcile_dead_shutdown_locked: a failed shutdown is forgotten once the
\* child it could not stop is dead and no request runs.
Reconcilable ==
    /\ broker.fatal = "shutdown_failed"
    /\ ~broker.active /\ ThreadsDone
    /\ ~Alive(broker.handle)

Reconciled == IF Reconcilable THEN [Dropped(broker) EXCEPT !.fatal = "none"] ELSE broker
ReconciledSlots == IF Reconcilable THEN CloseSlot(broker.slot) ELSE ipc

\* The ready property.
Ready == broker.ready /\ Reconciled.fatal = "none" /\ Alive(broker.handle)

\* _stop_sync, death confirmed: nothing to stop, or the child is dead.
StopConfirmed ==
    /\ broker' = IF broker.handle = NoGen
                   THEN [broker EXCEPT !.slot = NoGen, !.ready = FALSE]
                   ELSE [Dropped(broker) EXCEPT !.fatal = "none"]
    /\ child' = KillChild(broker.handle)
    /\ ipc' = CloseSlot(broker.slot)
    /\ UNCHANGED faults

\* Slip: the handle of a child that would not die is dropped.
StopRefusedForgetting(reason) ==
    /\ Alive(broker.handle) /\ CanFail /\ Spend
    /\ broker' = [Dropped(broker) EXCEPT !.fatal = reason]
    /\ child' = Signalled(broker.handle)
    /\ UNCHANGED ipc

\* _stop_sync, death not confirmed: the live handle is kept.
StopRefused(reason) ==
    /\ Alive(broker.handle) /\ CanFail /\ Spend
    /\ broker' = [broker EXCEPT !.ready = FALSE, !.fatal = reason]
    /\ child' = Signalled(broker.handle)
    /\ UNCHANGED ipc

\* _recover's second look: the child dies after _stop_sync gave up on it.  The
\* reason is only withdrawn when no kill error was appended to it.
StopLate(fatal) ==
    /\ Alive(broker.handle) /\ CanFail /\ Spend
    /\ broker' = [Dropped(broker) EXCEPT !.fatal = fatal]
    /\ child' = KillChild(broker.handle)
    /\ ipc' = CloseSlot(broker.slot)

-----------------------------------------------------------------------------
(* The start task *)

\* _start_async, from a coroutine of the broker: refuse, return, or join.
StartRefused ==
    \/ Reconciled.fatal # "none"
    \/ broker.quiesced /\ ~(broker.ready /\ Alive(broker.handle))
StartUnneeded == broker.ready /\ Alive(broker.handle)
StartJoined ==
    start' = IF start.pc \in {"none", "done"}
               THEN [pc |-> "create", gen |-> NoGen]
               ELSE start

\* Where a caller goes when the start it waits for has ended.
AfterStart(c) ==
    IF call[c].pc = "start_wait" /\ call[c].why = "cancel"
      THEN [call[c] EXCEPT !.pc = "drain"]
    ELSE IF call[c].pc \in {"start_wait", "final_wait"} THEN NoCall
    ELSE call[c]

StartEnds ==
    /\ start' = [pc |-> "done", gen |-> NoGen]
    /\ call' = [c \in Callers |-> AfterStart(c)]

\* start(), called once by the service at startup.
OwnerStart ==
    /\ start.pc = "none" /\ down = "up"
    /\ start' = [pc |-> "create", gen |-> NoGen]
    /\ UNCHANGED <<broker, jobSlot, child, ipc, call, down, jobs, faults>>

\* _start_once: nothing to do, or unavailable.
StartNotNeeded ==
    /\ start.pc = "create"
    /\ Reconciled.fatal # "none" \/ Alive(Reconciled.handle)
    /\ broker' = Reconciled /\ ipc' = ReconciledSlots
    /\ StartEnds
    /\ UNCHANGED <<jobSlot, child, down, jobs, faults>>

\* _start_once: drop the dead child and its slot, make a slot for the next.
StartCreates ==
    /\ start.pc = "create"
    /\ Reconciled.fatal = "none" /\ ~Alive(Reconciled.handle)
    /\ broker.gen < MaxGen
    /\ start' = [pc |-> "spawn", gen |-> broker.gen + 1]
    /\ broker' = [Reconciled EXCEPT !.handle = NoGen, !.slot = NoGen]
    /\ ipc' = [CloseSlot(broker.slot) EXCEPT
                 ![broker.gen + 1] = [open |-> TRUE, req |-> NoMsg, resp |-> NoMsg]]
    /\ UNCHANGED <<jobSlot, child, call, down, jobs, faults>>

\* The thread that runs process.start.
Spawns ==
    /\ start.pc = "spawn"
    /\ start' = [start EXCEPT !.pc = "spawned"]
    /\ child' = [child EXCEPT ![start.gen].pc = "boot"]
    /\ UNCHANGED <<broker, jobSlot, ipc, call, down, jobs, faults>>

SpawnFails ==
    /\ start.pc = "spawn" /\ CanFail /\ Spend
    /\ ipc' = CloseSlot(start.gen)
    /\ broker' = [broker EXCEPT !.fatal = "start_failed"]
    /\ StartEnds
    /\ UNCHANGED <<jobSlot, child, down, jobs>>

StartRecords ==
    /\ start.pc = "spawned"
    /\ start' = [start EXCEPT !.pc = "boot"]
    /\ broker' = [broker EXCEPT !.handle = start.gen, !.slot = start.gen,
                                !.ready = FALSE, !.gen = start.gen, !.rgen = 0]
    /\ UNCHANGED <<jobSlot, child, ipc, call, down, jobs, faults>>

\* The readiness message arrived in time.
Announced == start.pc = "boot" /\ ipc[start.gen].resp.kind = "ready"

StartReady ==
    /\ Announced /\ ipc[start.gen].open
    /\ broker' = [broker EXCEPT !.ready = TRUE]
    /\ ipc' = [ipc EXCEPT ![start.gen].resp = NoMsg]
    /\ StartEnds
    /\ UNCHANGED <<jobSlot, child, down, jobs, faults>>

\* The readiness message is corrupt: stop the child and fail closed.
StartInvalid ==
    /\ Announced /\ ipc[start.gen].open
    /\ \/ StopRefused("readiness_invalid")
       \/ /\ CanFail /\ Spend
          /\ broker' = [Dropped(broker) EXCEPT !.fatal = "readiness_invalid"]
          /\ child' = KillChild(broker.handle)
          /\ ipc' = CloseSlot(broker.slot)
    /\ StartEnds
    /\ UNCHANGED <<jobSlot, down, jobs>>

\* A recovery closed the slot after the announcement: reading it raises past
\* the handlers of the start task, and the broker is left as it is.
StartFindsClosed ==
    /\ Announced /\ ~ipc[start.gen].open
    /\ StartEnds
    /\ UNCHANGED <<broker, jobSlot, child, ipc, down, jobs, faults>>

\* No readiness message: the child is dead, or its time is up.
StartTimesOut ==
    /\ start.pc = "boot" /\ ~Announced
    /\ IF Alive(start.gen) THEN CanFail /\ Spend ELSE UNCHANGED faults
    /\ LET dead == broker.handle = start.gen /\ ~Alive(start.gen) IN
       /\ broker' = [IF dead THEN Dropped(broker) ELSE broker
                       EXCEPT !.ready = FALSE, !.fatal = "readiness_timeout"]
       /\ ipc' = IF dead THEN CloseSlot(start.gen) ELSE ipc
    /\ StartEnds
    /\ UNCHANGED <<jobSlot, child, down, jobs>>

-----------------------------------------------------------------------------
(* render(): one job of one caller *)

\* render_attempt_frame: valid inputs, time left, and a child that is ready.
Renderable == Ready /\ ~broker.quiesced

\* The head of render(): no await between the look at ready and the job slot.
Begin(c) ==
    /\ call[c].pc = "idle" /\ jobs < MaxJobs
    /\ Renderable /\ jobSlot = NoCaller
    /\ jobSlot' = c
    /\ jobs' = jobs + 1
    /\ call' = [call EXCEPT ![c] =
                  [NoCall EXCEPT !.pc = "wait", !.thread = "begin", !.job = jobs + 1]]
    /\ UNCHANGED <<broker, start, child, ipc, down, faults>>

\* The request thread ends: outcome set, frame unlinked, done set.
ThreadEnds(c, out, answer) ==
    call' = [call EXCEPT ![c].thread = "done", ![c].out = out, ![c].answer = answer]

\* _request_sync, under the state lock: the handles this request will use.
ThreadTakes(c) ==
    /\ call[c].thread = "begin"
    /\ IF broker.fatal = "none" /\ broker.ready /\ Alive(broker.handle)
         THEN /\ broker' = [broker EXCEPT !.rgen = @ + 1, !.active = TRUE]
              /\ call' = [call EXCEPT ![c].thread = "submit", ![c].pg = broker.gen,
                                      ![c].rg = broker.rgen + 1]
         ELSE /\ ThreadEnds(c, "failed", 0)
              /\ UNCHANGED broker
    /\ UNCHANGED <<jobSlot, start, child, ipc, down, jobs, faults>>

Request(c) == [kind |-> "render", job |-> call[c].job, pg |-> call[c].pg, rg |-> call[c].rg]

\* SharedIpcSlot.submit: a closed slot is an IPC error; an open one loses
\* whatever it held.
ThreadSubmits(c) ==
    /\ call[c].thread = "submit"
    /\ LET g == call[c].pg IN
       IF ipc[g].open
         THEN /\ ipc' = [ipc EXCEPT ![g].resp = NoMsg, ![g].req = Request(c)]
              /\ call' = [call EXCEPT ![c].thread = "poll"]
              /\ UNCHANGED broker
         ELSE /\ ThreadEnds(c, "ipc", 0)
              /\ broker' = [broker EXCEPT !.active = FALSE]
              /\ UNCHANGED ipc
    /\ UNCHANGED <<jobSlot, start, child, down, jobs, faults>>

\* Slip: only the process generation of an answer is compared.
MatchesProcess(c, m) == m.pg = call[c].pg

\* recv_response refuses a response of another generation or request; it
\* cannot read a slot that was closed under it.
Matches(c, m) == m.pg = call[c].pg /\ m.rg = call[c].rg

ThreadReceives(c) ==
    /\ call[c].thread = "poll"
    /\ LET g == call[c].pg
           m == ipc[g].resp IN
       /\ m.kind # "none"
       /\ IF ipc[g].open /\ Matches(c, m)
            THEN /\ ThreadEnds(c, m.kind, m.job)
                 /\ ipc' = [ipc EXCEPT ![g].resp = NoMsg]
            ELSE /\ ThreadEnds(c, IF ipc[g].open THEN "ipc" ELSE "failed", 0)
                 /\ UNCHANGED ipc
    /\ broker' = [broker EXCEPT !.active = FALSE]
    /\ UNCHANGED <<jobSlot, start, child, down, jobs, faults>>

\* Slip: the request thread looks at the child but not at its deadline.
ThreadGivesUpOnDeath(c) ==
    /\ call[c].thread \in {"submit", "poll"} /\ ~Alive(call[c].pg)
    /\ ThreadEnds(c, "failed", 0)
    /\ broker' = [broker EXCEPT !.active = FALSE]
    /\ UNCHANGED <<jobSlot, start, child, ipc, down, jobs, faults>>

\* The child is dead, or the deadline of the job has passed (which may also
\* happen before the frame is submitted, or just as the answer comes).
ThreadGivesUp(c) ==
    /\ call[c].thread \in {"submit", "poll"}
    /\ ThreadEnds(c, "failed", 0)
    /\ broker' = [broker EXCEPT !.active = FALSE]
    /\ UNCHANGED <<jobSlot, start, child, ipc, down, jobs, faults>>

\* render() sees done: it gives the job slot back, then returns or recovers.
Settle(c) ==
    /\ call[c].pc = "wait" /\ call[c].thread = "done"
    /\ jobSlot' = NoCaller
    /\ call' = [call EXCEPT ![c] =
                  IF call[c].out \in {"ok", "typed"}
                    THEN NoCall
                    ELSE [NoCall EXCEPT !.pc = "recover",
                            !.why = IF call[c].out = "ipc" THEN "ipc_corrupt" ELSE "failed"]]
    /\ UNCHANGED <<broker, start, child, ipc, down, jobs, faults>>

\* The attempt of this caller is cancelled while it waits for the thread.
Cancel(c) ==
    /\ call[c].pc = "wait"
    /\ call' = [call EXCEPT ![c].pc = "recover", ![c].why = "cancel"]
    /\ UNCHANGED <<broker, jobSlot, start, child, ipc, down, jobs, faults>>

ReasonOf(why) == IF why = "cancel" THEN "cancelled" ELSE why

\* Where a caller goes when its recovery ends without a start.
Unstarted(c) == IF call[c].why = "cancel" THEN [call[c] EXCEPT !.pc = "drain"] ELSE NoCall

\* _recover, in a thread of its own: kill and confirm.  Without restart (a
\* corrupt slot) the broker fails closed.
RecoverStops(c) ==
    /\ call[c].pc = "recover"
    /\ \/ StopConfirmed \/ StopLate("none")
    /\ call' = [call EXCEPT ![c].pc = "recovered"]
    /\ UNCHANGED <<jobSlot, start, down, jobs>>

RecoverKillErrors(c) ==
    /\ call[c].pc = "recover"
    /\ StopLate("kill_refused")
    /\ call' = [call EXCEPT ![c].pc = "recovered"]
    /\ UNCHANGED <<jobSlot, start, down, jobs>>

RecoverIncomplete(c) ==
    /\ call[c].pc = "recover"
    /\ \E reason \in {ReasonOf(call[c].why), "kill_refused"} : StopRefused(reason)
    /\ call' = [call EXCEPT ![c] = Unstarted(c)]
    /\ UNCHANGED <<jobSlot, start, down, jobs>>

\* The rest of _recover: fail closed, give up, or start a replacement.
RecoverStarts(c) ==
    /\ call[c].pc = "recovered"
    /\ IF call[c].why = "ipc_corrupt"
         THEN /\ broker' = [broker EXCEPT !.fatal = IF @ = "none" THEN "ipc_corrupt" ELSE @]
              /\ call' = [call EXCEPT ![c] = NoCall]
              /\ UNCHANGED <<start, ipc>>
         ELSE /\ broker' = Reconciled /\ ipc' = ReconciledSlots
              /\ IF broker.quiesced \/ StartRefused \/ StartUnneeded
                   THEN /\ call' = [call EXCEPT ![c] = Unstarted(c)]
                        /\ UNCHANGED start
                   ELSE /\ call' = [call EXCEPT ![c].pc = "start_wait"]
                        /\ StartJoined
    /\ UNCHANGED <<jobSlot, child, down, jobs, faults>>

\* A cancellation while a failed job waits for the replacement only leaves the
\* shared start task behind.
CancelStartWait(c) ==
    /\ call[c].pc = "start_wait" /\ call[c].why # "cancel"
    /\ call' = [call EXCEPT ![c] = NoCall]
    /\ UNCHANGED <<broker, jobSlot, start, child, ipc, down, jobs, faults>>

\* A cancelled render joins its thread before it gives the job slot back.
Drain(c) ==
    /\ call[c].pc = "drain" /\ call[c].thread = "done"
    /\ jobSlot' = NoCaller
    /\ call' = [call EXCEPT ![c] = [NoCall EXCEPT !.pc = "delayed"]]
    /\ UNCHANGED <<broker, start, child, ipc, down, jobs, faults>>

\* _restart_after_delayed_cancel_death: a child that died after the control
\* timeout is dropped here; then the replacement is started.
DelayedRestart(c) ==
    /\ call[c].pc = "delayed"
    /\ LET late == broker.fatal = "cancelled" /\ ~Alive(broker.handle)
           b == IF late THEN [Dropped(broker) EXCEPT !.fatal = "none"] ELSE Reconciled
           slots == IF late THEN CloseSlot(broker.slot) ELSE ReconciledSlots IN
       /\ broker' = b /\ ipc' = slots
       /\ IF b.quiesced \/ b.fatal # "none" \/ StartUnneeded
            THEN /\ call' = [call EXCEPT ![c] = NoCall]
                 /\ UNCHANGED start
            ELSE /\ call' = [call EXCEPT ![c].pc = "final_wait"]
                 /\ StartJoined
    /\ UNCHANGED <<jobSlot, child, down, jobs, faults>>

-----------------------------------------------------------------------------
(* The child: render_worker_entry over SharedIpcChildConnection *)

ChildAnnounces(g) ==
    /\ child[g].pc = "boot"
    /\ child' = [child EXCEPT ![g].pc = "idle"]
    /\ ipc' = [ipc EXCEPT ![g].resp = [NoMsg EXCEPT !.kind = "ready"]]
    /\ UNCHANGED <<broker, jobSlot, start, call, down, jobs, faults>>

ChildReceives(g) ==
    /\ child[g].pc = "idle" /\ ipc[g].req.kind = "render"
    /\ child' = [child EXCEPT ![g].pc = "busy", ![g].job = ipc[g].req]
    /\ ipc' = [ipc EXCEPT ![g].req = NoMsg]
    /\ UNCHANGED <<broker, jobSlot, start, call, down, jobs, faults>>

\* What _render makes of a job: a picture, a garment or pose error, any other.
Outcomes == {"ok", "typed", "failed"}

\* The answer carries the generations of the last request received.
Answer(g, kind) == [child[g].job EXCEPT !.kind = kind]

ChildSends(g) ==
    /\ child[g].pc = "busy"
    /\ \E kind \in Outcomes : ipc' = [ipc EXCEPT ![g].resp = Answer(g, kind)]
    /\ child' = [child EXCEPT ![g].pc = "idle", ![g].job = NoMsg]
    /\ UNCHANGED <<broker, jobSlot, start, call, down, jobs, faults>>

\* The process crashes, or dies late of the signal it was sent.
ChildDies(g) ==
    /\ Alive(g)
    /\ IF child[g].signalled THEN UNCHANGED faults ELSE CanFail /\ Spend
    /\ child' = KillChild(g)
    /\ UNCHANGED <<broker, jobSlot, start, ipc, call, down, jobs>>

-----------------------------------------------------------------------------
(* Reads of the runtime roles and the shutdown *)

\* The ready and pid properties of a status request: pid drops a dead child,
\* and terminates a live one that is not ready.
ReadPid ==
    /\ LET b == Reconciled IN
       /\ b.handle # NoGen
       /\ ~(b.ready /\ Alive(b.handle))
       /\ \/ /\ broker' = Dropped(b)
             /\ child' = KillChild(b.handle)
             /\ ipc' = CloseSlot(b.slot)
             /\ UNCHANGED faults
          \/ /\ Alive(b.handle) /\ CanFail /\ Spend
             /\ child' = Signalled(b.handle)
             /\ UNCHANGED <<broker, ipc>>
    /\ UNCHANGED <<jobSlot, start, call, down, jobs>>

ReadReady ==
    /\ Reconcilable
    /\ broker' = Reconciled /\ ipc' = ReconciledSlots
    /\ UNCHANGED <<jobSlot, start, child, call, down, jobs, faults>>

ShutdownBegins ==
    /\ down = "up" /\ start.pc # "none"
    /\ broker' = [broker EXCEPT !.quiesced = TRUE]
    /\ down' = "await_start"
    /\ UNCHANGED <<jobSlot, start, child, ipc, call, jobs, faults>>

\* Slip: shutdown() does not wait for the start task.
ShutdownStopsAtOnce ==
    /\ down = "await_start"
    /\ StopConfirmed /\ down' = "join"
    /\ UNCHANGED <<jobSlot, start, call, jobs>>

ShutdownStops ==
    /\ down = "await_start" /\ start.pc = "done"
    /\ \/ StopConfirmed /\ down' = "join"
       \/ /\ \E reason \in {"shutdown_failed", "kill_refused"} : StopRefused(reason)
          /\ down' = "join_alive"
    /\ UNCHANGED <<jobSlot, start, call, jobs>>

\* The request threads have ended; a child that died meanwhile is dropped.
ShutdownJoins ==
    /\ down \in {"join", "join_alive"} /\ ThreadsDone
    /\ IF ~Alive(broker.handle)
         THEN /\ down' = "down"
              /\ broker' = [Dropped(broker) EXCEPT !.fatal = IF @ = "shutdown_failed" THEN "none" ELSE @]
              /\ ipc' = CloseSlot(broker.slot)
         ELSE /\ down' = "failed"
              /\ UNCHANGED <<broker, ipc>>
    /\ UNCHANGED <<jobSlot, start, child, call, jobs, faults>>

\* A request thread outlives its join timeout.
ShutdownLeavesThread ==
    /\ down \in {"join", "join_alive"} /\ ~ThreadsDone /\ CanFail /\ Spend
    /\ broker' = [broker EXCEPT !.fatal = IF @ = "none" THEN "thread_alive" ELSE @]
    /\ down' = "failed"
    /\ UNCHANGED <<jobSlot, start, child, ipc, call, jobs>>

-----------------------------------------------------------------------------

StartTask == StartNotNeeded \/ StartCreates \/ Spawns \/ StartRecords \/ StartReady
             \/ StartFindsClosed \/ StartTimesOut
Thread(c) == ThreadTakes(c) \/ ThreadSubmits(c) \/ ThreadReceives(c) \/ ThreadGivesUp(c)
Recovery(c) == RecoverStops(c) \/ RecoverStarts(c) \/ Drain(c) \/ DelayedRestart(c)
Child(g) == ChildAnnounces(g) \/ ChildReceives(g) \/ ChildSends(g)
Shutdown == ShutdownStops \/ ShutdownJoins

Next ==
    \/ OwnerStart \/ StartTask \/ SpawnFails \/ StartInvalid
    \/ \E c \in Callers :
         \/ Begin(c) \/ Thread(c) \/ Settle(c) \/ Cancel(c) \/ Recovery(c)
         \/ RecoverKillErrors(c) \/ RecoverIncomplete(c) \/ CancelStartWait(c)
    \/ \E g \in Gens : Child(g) \/ ChildDies(g)
    \/ ReadPid \/ ReadReady
    \/ ShutdownBegins \/ Shutdown \/ ShutdownLeavesThread

Spec == Init /\ [][Next]_vars

\* The event loop, the request threads and the start task are scheduled; a
\* child that boots makes progress.  A render may take for ever: the deadline
\* of ThreadGivesUp ends it.
Fairness ==
    /\ WF_vars(StartTask)
    /\ WF_vars(Shutdown)
    /\ \A c \in Callers : WF_vars(Thread(c)) /\ WF_vars(Settle(c)) /\ WF_vars(Recovery(c))
    /\ \A g \in Gens : WF_vars(ChildAnnounces(g))

FairSpec == Spec /\ Fairness
-----------------------------------------------------------------------------
(* Properties *)

Kinds == {"none", "ready", "render", "ok", "typed", "failed"}
Msgs == [kind : Kinds, job : 0 .. MaxJobs, pg : 0 .. MaxGen, rg : Nat]

TypeOK ==
    /\ broker \in [handle : 0 .. MaxGen, slot : 0 .. MaxGen, ready : BOOLEAN,
                   fatal : Fatals, quiesced : BOOLEAN, gen : 0 .. MaxGen, rgen : Nat,
                   active : BOOLEAN]
    /\ jobSlot \in Callers \cup {NoCaller}
    /\ start \in [pc : {"none", "create", "spawn", "spawned", "boot", "done"}, gen : 0 .. MaxGen]
    /\ child \in [Gens -> [pc : {"gone", "boot", "idle", "busy"}, job : Msgs, signalled : BOOLEAN]]
    /\ ipc \in [Gens -> [open : BOOLEAN, req : Msgs, resp : Msgs]]
    /\ call \in [Callers ->
         [pc : {"idle", "wait", "recover", "recovered", "start_wait", "drain", "delayed", "final_wait"},
          why : {"none", "cancel", "failed", "ipc_corrupt"},
          thread : {"none", "begin", "submit", "poll", "done"}, job : 0 .. MaxJobs,
          pg : 0 .. MaxGen, rg : Nat, out : {"none", "ok", "typed", "failed", "ipc", "ready"},
          answer : 0 .. MaxJobs]]
    /\ down \in {"up", "await_start", "join", "join_alive", "down", "failed"}
    /\ jobs \in 0 .. MaxJobs
    /\ faults \in 0 .. MaxFaults

\* A caller is never handed the picture of another job: not one a timed-out
\* job left in the slot, not one of the child before a restart.
AnswersOwnJob ==
    \A c \in Callers : call[c].out \in {"ok", "typed"} => call[c].answer = call[c].job

\* However starts, recoveries, status reads and the shutdown interleave, no
\* second render process runs beside a live one.
OneChild == Cardinality({g \in Gens : Alive(g)}) <= 1

\* Fail closed: a live process is always one the broker still holds, or one
\* its start task is about to record; none is lost unkilled.
NoLostChild ==
    \A g \in Gens : Alive(g) =>
        g = broker.handle \/ (g = start.gen /\ start.pc = "spawned")

\* Every shared-memory slot that is still linked can still be unlinked: it is
\* the broker's, or that of the process being started.
NoLeakedSlot ==
    \A g \in Gens : ipc[g].open =>
        g = broker.slot \/ (g = start.gen /\ start.pc \in {"spawn", "spawned"})

\* A request thread only runs under the job slot of its caller, also when the
\* caller was cancelled and the broker recovered around it.
ThreadUnderSlot == \A c \in Callers : LiveThread(c) => jobSlot = c

\* The broker keeps account of all it has made, whatever fails on the way: at
\* most one live process, none lost, no slot leaked, no thread without its slot.
BrokerInv == TypeOK /\ OneChild /\ NoLostChild /\ NoLeakedSlot /\ ThreadUnderSlot

\* A shutdown that reported success left no process, no shared memory and no
\* request thread behind, and nothing brings them back.
ShutdownIsFinal ==
    down = "down" => /\ \A g \in Gens : ~Alive(g) /\ ~ipc[g].open
                     /\ start.pc \in {"none", "done"}
                     /\ \A c \in Callers : call[c].thread \notin {"submit", "poll"}

\* Every job comes back to its caller, whatever the child does: it is answered,
\* times out, or is recovered from, and no wait for a replacement is for ever.
JobsReturn == \A c \in Callers : call[c].pc # "idle" ~> call[c].pc = "idle"

\* A shutdown ends, with success or with a report of what is still alive.
ShutdownEnds == down = "await_start" ~> down \in {"down", "failed"}

\* No caller and no shutdown waits for ever.
CallsEnd == JobsReturn /\ ShutdownEnds

=============================================================================
