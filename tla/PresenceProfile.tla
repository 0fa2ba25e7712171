--------------------------- MODULE PresenceProfile ---------------------------
(* Presence polling and profile collection (src/vision/presence_runtime.py,    *)
(* src/vision/profile_push.py, src/vision/profile_state.py,                    *)
(* src/vision/session_state.py and the broadcast tasks of src/app.py).         *)
(*                                                                             *)
(* Four activities share the state: the event loop (registration, the presence *)
(* loop, the collection worker), the thread that polls the top camera, and the *)
(* thread that samples the front camera for a candidate.  The runtime lock     *)
(* covers a poll and the candidate checks; the occupancy gate and the session  *)
(* are also written by the sampling thread, which does not hold it.            *)
EXTENDS Naturals, FiniteSets

CONSTANTS
    Clients,            \* registered WebSocket clients
    PushClients,        \* those with the profile_push capability
    Targets,            \* target signatures no two of which match
    None,
    AbsentMin,          \* TOP_OCCUPANCY_CONFIG.present_min_frames
    ResetAbsentFrames,  \* PROFILE_OCCUPANCY_RESET_ABSENT_FRAMES
    QueuesFill          \* a client's queue may be full

ASSUME PushClientsAreClients == PushClients \subseteq Clients
ASSUME NoneIsNoTarget == None \notin Targets
ASSUME FramesArePositive ==
    /\ AbsentMin \in Nat \ {0} /\ ResetAbsentFrames \in Nat \ {0}
ASSUME QueuesFillIsBoolean == QueuesFill \in BOOLEAN

VARIABLES
    clients,      \* _profile_clients
    heard,        \* per client: what its last queued message was about
    loop,         \* the presence loop: where it is, its snapshot of profile_push
    poll,         \* the poll under way: occupancy, signature, candidate
    filter,       \* ResponsiveOccupancyFilter
    snapshot,     \* latest_snapshot
    gate,         \* ProfileOccupancyGate
    departure,    \* PersonDepartureTracker
    target,       \* profiled_signature and target_change_streak
    generation,   \* collection_generation
    retrying,     \* retry_after lies ahead
    session,      \* state of the active session, "none" without one
    worker,       \* the collection worker and its thread
    cancelled     \* _profile_cancel_event is set

clientVars == <<clients, heard>>
pollVars == <<filter, snapshot, departure>>
sharedVars == <<gate, session>>
runtimeVars == <<target, generation, retrying>>
workVars == <<worker, cancelled>>
vars == <<clientVars, loop, poll, pollVars, sharedVars, runtimeVars, workVars>>

Occupancies == {"none", "single", "multiple", "unknown"}
SessionStates == {"none", "approach_detected", "waiting_front_camera", "profiling",
                  "profile_pushed", "multiple", "unusable"}

(* Generations are compared for equality only, and at most two are alive: the  *)
(* one being collected and the current one.  0 stands for no generation.       *)
Generations == 1..2

Poll == [occ : Occupancies, sig : Targets \cup {None}, cand : Generations \cup {0}]
NoPoll == [occ |-> "none", sig |-> None, cand |-> 0]
NoWorker == [at |-> "idle", gen |-> 0, ret |-> "none"]

TypeOK ==
    /\ clients \subseteq Clients
    /\ heard \in [Clients -> {"nothing", "present", "empty", "sampled", "result"}]
    /\ loop \in [at : {"stopped", "ready", "reading", "entering", "locked", "polled"},
                 push : BOOLEAN]
    /\ poll \in Poll
    /\ filter \in [streak : 0..AbsentMin, last : {"none", "single", "multiple"}]
    /\ snapshot \in [occ : Occupancies, sig : Targets \cup {None}]
    /\ gate \in [state : {"empty", "tracking", "occupied"},
                 absent : 0..(ResetAbsentFrames - 1)]
    /\ departure \in [active : BOOLEAN, absent : 0..ResetAbsentFrames]
    /\ target \in [sig : Targets \cup {None}, streak : 0..1]
    /\ generation \in Generations \cup {0}
    /\ retrying \in BOOLEAN
    /\ session \in SessionStates
    /\ worker \in [at : {"idle", "owner", "sampling", "sampled", "valid", "fit", "commit",
                         "pushed", "returned"},
                   gen : Generations \cup {0},
                   ret : {"none", "status", "result", "error"}]
    /\ cancelled \in BOOLEAN

Init ==
    /\ clients = {}
    /\ heard = [c \in Clients |-> "nothing"]
    /\ loop = [at |-> "stopped", push |-> FALSE]
    /\ poll = NoPoll
    /\ filter = [streak |-> 0, last |-> "none"]
    /\ snapshot = [occ |-> "none", sig |-> None]
    /\ gate = [state |-> "empty", absent |-> 0]
    /\ departure = [active |-> FALSE, absent |-> 0]
    /\ target = [sig |-> None, streak |-> 0]
    /\ generation = 0
    /\ retrying = FALSE
    /\ session = "none"
    /\ worker = NoWorker
    /\ cancelled = FALSE

-----------------------------------------------------------------------------
(* Clients.                                                                    *)

Collecting == worker.at # "idle"

(* unregister_profile_client for every client of gone: the last one cancels    *)
(* the collection.                                                             *)
Unregistered(gone) ==
    /\ clients' = clients \ gone
    /\ cancelled' = (cancelled \/ (Collecting /\ gone # {} /\ clients \subseteq gone))

(* Clients whose queue is full when a message is put.                          *)
Full(audience) == IF QueuesFill THEN SUBSET (audience \cap clients) ELSE {{}}

(* broadcast_profile_update: what each client hears, but for those dropped.    *)
Broadcast(kind, audience, full) ==
    heard' = [c \in Clients |->
                IF c \in full THEN "nothing"
                ELSE IF c \in audience \cap clients THEN kind ELSE heard[c]]

Register(c) ==
    /\ c \notin clients
    /\ clients' = clients \cup {c}
    /\ loop' = IF loop.at = "stopped" THEN [loop EXCEPT !.at = "ready"] ELSE loop
    /\ UNCHANGED <<heard, poll, pollVars, sharedVars, runtimeVars, workVars>>

Unregister(c) ==
    /\ c \in clients
    /\ Unregistered({c})
    /\ heard' = [heard EXCEPT ![c] = "nothing"]
    /\ UNCHANGED <<loop, poll, pollVars, sharedVars, runtimeVars, worker>>

-----------------------------------------------------------------------------
(* The presence loop and its polling thread.                                   *)

(* Slip: an idle loop leaves the cancellation to unregister_profile_client.    *)
LoopBeginWithoutCancel ==
    /\ loop.at = "ready"
    /\ loop' = IF clients = {} THEN [at |-> "stopped", push |-> FALSE]
               ELSE [at |-> "reading", push |-> clients \cap PushClients # {}]
    /\ UNCHANGED <<clientVars, poll, pollVars, sharedVars, runtimeVars, workVars>>

(* Without clients the loop ends and cancels a collection; otherwise it starts *)
(* a poll.                                                                     *)
LoopBegin ==
    /\ loop.at = "ready"
    /\ IF clients = {}
         THEN /\ loop' = [at |-> "stopped", push |-> FALSE]
              /\ cancelled' = Collecting
         ELSE /\ loop' = [at |-> "reading", push |-> clients \cap PushClients # {}]
              /\ UNCHANGED cancelled
    /\ UNCHANGED <<clientVars, poll, pollVars, sharedVars, runtimeVars, worker>>

(* The top camera cannot be read: an error is broadcast.                       *)
PollFails ==
    /\ loop.at = "reading"
    /\ \E full \in Full(clients) :
          /\ Unregistered(full)
          /\ heard' = [c \in Clients |-> IF c \in full THEN "nothing" ELSE heard[c]]
    /\ loop' = [loop EXCEPT !.at = "ready"]
    /\ UNCHANGED <<poll, pollVars, sharedVars, runtimeVars, worker>>

(* ResponsiveOccupancyFilter.update: any evidence counts at once, emptiness    *)
(* only after AbsentMin frames without.                                        *)
Filtered(evidence, occ) ==
    LET streak == IF filter.streak < AbsentMin THEN filter.streak + 1 ELSE AbsentMin
    IN  IF evidence
          THEN [occ |-> occ, streak |-> 0,
                last |-> IF occ \in {"single", "multiple"} THEN occ ELSE filter.last]
        ELSE IF streak >= AbsentMin
          THEN [occ |-> "none", streak |-> streak, last |-> "none"]
        ELSE [occ |-> IF filter.last # "none" THEN filter.last ELSE occ,
              streak |-> streak, last |-> filter.last]

(* A frame is read and classified, and the filter updated; a person in         *)
(* evidence as a single one has a signature.                                   *)
PollObserves(evidence, occ, sig) ==
    LET f == Filtered(evidence, occ)
    IN  /\ loop.at = "reading"
        /\ evidence /\ occ = "single" => sig # None
        /\ filter' = [streak |-> f.streak, last |-> f.last]
        /\ poll' = [occ |-> f.occ, sig |-> IF f.occ = "none" THEN None ELSE sig, cand |-> 0]
        /\ loop' = [loop EXCEPT !.at = "entering"]
        /\ UNCHANGED <<clientVars, snapshot, departure, sharedVars, runtimeVars, workVars>>

GatePresent ==
    [state |-> IF gate.state = "empty" THEN "tracking" ELSE gate.state, absent |-> 0]

(* Slip: absence does not unlock a pushed profile.                             *)
GateAbsentKeepingLock ==
    IF gate.absent + 1 >= ResetAbsentFrames
      THEN [state |-> IF gate.state = "occupied" THEN "occupied" ELSE "empty", absent |-> 0]
      ELSE [gate EXCEPT !.absent = @ + 1]

GateAbsent ==
    IF gate.absent + 1 >= ResetAbsentFrames
      THEN [state |-> "empty", absent |-> 0]
      ELSE [gate EXCEPT !.absent = @ + 1]

(* poll() enters the lock, publishes the snapshot and marks the gate.          *)
PollEnters ==
    /\ loop.at = "entering"
    /\ snapshot' = [occ |-> poll.occ, sig |-> poll.sig]
    /\ gate' = IF poll.occ = "none" THEN GateAbsent ELSE GatePresent
    /\ loop' = [loop EXCEPT !.at = "locked"]
    /\ UNCHANGED <<clientVars, poll, filter, departure, session, runtimeVars, workVars>>

(* The departure tracker sees an empty frame: departs says it announces one.   *)
Departs == departure.active /\ departure.absent + 1 >= ResetAbsentFrames

(* Nobody there: the candidate is invalidated; an announced departure forgets  *)
(* the profiled target and ends the session.                                   *)
PollFindsNobody ==
    /\ loop.at = "locked" /\ poll.occ = "none"
    /\ generation' = 0
    /\ departure' = IF Departs THEN [active |-> FALSE, absent |-> departure.absent + 1]
                    ELSE IF departure.active THEN [departure EXCEPT !.absent = @ + 1]
                    ELSE departure
    /\ target' = IF Departs THEN [sig |-> None, streak |-> 0] ELSE target
    /\ session' = IF Departs THEN "none" ELSE session
    /\ loop' = [loop EXCEPT !.at = "polled"]
    /\ UNCHANGED <<clientVars, poll, filter, snapshot, gate, retrying, workVars>>

(* Somebody there under a pushed profile: frames in a row whose target does    *)
(* not match the profiled one.                                                 *)
Mismatches ==
    IF poll.occ # "single" THEN 0
    ELSE IF gate.state # "occupied" \/ target.sig = None \/ poll.sig = None
      THEN target.streak
    ELSE IF poll.sig = target.sig THEN 0 ELSE target.streak + 1

(* next_generation: no other candidate has it.                                 *)
Fresh == CHOOSE g \in Generations : g # worker.gen

(* One or more people: a stable change of target unlocks the gate; a single    *)
(* person under an open gate becomes the candidate unless one is collected.    *)
PollFindsSomebody ==
    LET unlock == Mismatches >= 2
        open == unlock \/ gate.state # "occupied"
        starts == poll.occ = "single" /\ open /\ generation = 0 /\ ~retrying
    IN  /\ loop.at = "locked" /\ poll.occ # "none"
        /\ departure' = [active |-> TRUE, absent |-> 0]
        /\ gate' = IF unlock THEN [state |-> "tracking", absent |-> 0] ELSE gate
        /\ target' = IF unlock THEN [sig |-> None, streak |-> 0]
                     ELSE [target EXCEPT !.streak = Mismatches]
        /\ session' = CASE poll.occ = "multiple" -> "multiple"
                        [] poll.occ = "unknown" -> "waiting_front_camera"
                        [] poll.occ = "single" /\ ~open -> "profile_pushed"
                        [] OTHER -> "approach_detected"
        /\ generation' = IF poll.occ # "single" THEN 0
                         ELSE IF starts THEN Fresh ELSE generation
        /\ poll' = [poll EXCEPT !.cand = IF starts THEN Fresh ELSE 0]
        /\ loop' = [loop EXCEPT !.at = "polled"]
        /\ UNCHANGED <<clientVars, filter, snapshot, retrying, workVars>>

(* The runtime lock is free: is_candidate_valid, latest and finish_collection  *)
(* wait for it.                                                                *)
Unlocked == loop.at # "locked"

(* Slip: a candidate stays valid under a locked gate.                          *)
ValidUnderLock(g) == generation = g /\ snapshot.occ = "single"

(* is_candidate_valid.                                                         *)
Valid(g) == generation = g /\ snapshot.occ = "single" /\ gate.state # "occupied"

(* Back on the event loop: an invalid collection is cancelled, the update is   *)
(* broadcast, and a candidate starts a collection if none is running.          *)
LoopResumes ==
    /\ loop.at = "polled"
    /\ \E full \in Full(clients) :
          /\ clients' = clients \ full
          /\ Broadcast(IF poll.occ = "none" THEN "empty" ELSE "present", clients, full)
          /\ IF poll.cand # 0 /\ loop.push /\ ~Collecting
               THEN /\ worker' = [at |-> "owner", gen |-> poll.cand, ret |-> "none"]
                    /\ cancelled' = FALSE
               ELSE /\ cancelled' =
                         (\/ cancelled
                          \/ Collecting /\ ~Valid(worker.gen)
                          \/ Collecting /\ full # {} /\ clients \subseteq full)
                    /\ UNCHANGED worker
    /\ poll' = NoPoll
    /\ loop' = [loop EXCEPT !.at = "ready"]
    /\ UNCHANGED <<pollVars, sharedVars, runtimeVars>>

-----------------------------------------------------------------------------
(* The sampling thread: collect_front_profile_update.                          *)

Returns(ret) == worker' = [worker EXCEPT !.at = "returned", !.ret = ret]
GoesOn(at) == worker' = [worker EXCEPT !.at = at]

(* Front-camera ownership is granted, or refused until the wait is over.       *)
AwaitsOwnership ==
    /\ worker.at = "owner"
    /\ \/ GoesOn("sampling") /\ session' = "profiling"
       \/ Returns("status") /\ session' = "waiting_front_camera"
    /\ UNCHANGED <<clientVars, loop, poll, pollVars, gate, runtimeVars, cancelled>>

(* The frames are sampled; the cancellation is seen before a frame, ownership  *)
(* may be lost to a try-on, or the camera may fail.                            *)
Samples ==
    /\ worker.at = "sampling"
    /\ \/ GoesOn("sampled") /\ UNCHANGED session
       \/ cancelled /\ Returns("none") /\ UNCHANGED session
       \/ Returns("status") /\ session' = "waiting_front_camera"
       \/ Returns("error") /\ UNCHANGED session
    /\ UNCHANGED <<clientVars, loop, poll, pollVars, gate, runtimeVars, cancelled>>

(* Slip: the thread waits for its candidate to be valid.                       *)
ValidatesWhenValid ==
    /\ worker.at = "sampled" /\ Unlocked
    /\ ~cancelled /\ Valid(worker.gen) /\ GoesOn("valid")
    /\ UNCHANGED <<clientVars, loop, poll, pollVars, sharedVars, runtimeVars, cancelled>>

(* completion_validator after sampling.                                        *)
Validates ==
    /\ worker.at = "sampled" /\ Unlocked
    /\ IF ~cancelled /\ Valid(worker.gen) THEN GoesOn("valid") ELSE Returns("none")
    /\ UNCHANGED <<clientVars, loop, poll, pollVars, sharedVars, runtimeVars, cancelled>>

(* The samples are unusable, or completion_validator is asked again.           *)
Judges ==
    /\ worker.at = "valid"
    /\ \/ Returns("status") /\ session' = "unusable"
       \/ /\ Unlocked
          /\ IF ~cancelled /\ Valid(worker.gen) THEN GoesOn("fit") ELSE Returns("none")
          /\ UNCHANGED session
    /\ UNCHANGED <<clientVars, loop, poll, pollVars, gate, runtimeVars, cancelled>>

(* completion_occupancy: the latest snapshot must show a single person.        *)
ConfirmsOccupancy ==
    /\ worker.at = "fit" /\ Unlocked
    /\ IF snapshot.occ = "single" THEN GoesOn("commit") ELSE Returns("none")
    /\ UNCHANGED <<clientVars, loop, poll, pollVars, sharedVars, runtimeVars, cancelled>>

(* mark_pushed locks the gate, without the runtime lock.                       *)
LocksGate ==
    /\ worker.at = "commit"
    /\ gate' = [state |-> "occupied", absent |-> 0]
    /\ GoesOn("pushed")
    /\ UNCHANGED <<clientVars, loop, poll, pollVars, session, runtimeVars, cancelled>>

CommitsProfile ==
    /\ worker.at = "pushed"
    /\ session' = "profile_pushed"
    /\ Returns("result")
    /\ UNCHANGED <<clientVars, loop, poll, pollVars, gate, runtimeVars, cancelled>>

-----------------------------------------------------------------------------
(* Back on the event loop: profile_collection_worker.                          *)

(* Slip: the worker broadcasts whatever the thread returned.                   *)
DeliversAnyway == worker.ret \in {"status", "result"}

Delivers == worker.ret \in {"status", "result"} /\ ~cancelled

(* finish_collection: a pushed profile remembers the target of the latest      *)
(* snapshot, anything else waits before the next attempt.                      *)
FinishCollection(pushed) ==
    /\ generation' = IF generation = worker.gen THEN 0 ELSE generation
    /\ target' = IF pushed THEN [sig |-> snapshot.sig, streak |-> 0] ELSE target
    /\ retrying' = (retrying \/ ~pushed)

WorkerReturns ==
    /\ worker.at = "returned" /\ Unlocked
    /\ LET audience == IF worker.ret = "result" THEN PushClients ELSE Clients
           kind == IF worker.ret = "result" THEN "result" ELSE "sampled"
       IN  IF Delivers
             THEN \E full \in Full(audience) :
                     clients' = clients \ full /\ Broadcast(kind, audience, full)
             ELSE IF worker.ret = "error"
             THEN \E full \in Full(clients) :
                     clients' = clients \ full /\ Broadcast("nothing", {}, full)
             ELSE UNCHANGED clientVars
    /\ FinishCollection(Delivers /\ worker.ret = "result")
    /\ worker' = NoWorker
    /\ cancelled' = FALSE
    /\ UNCHANGED <<loop, poll, pollVars, sharedVars>>

(* Half a second after a collection without a result.                          *)
RetryElapses ==
    /\ retrying /\ retrying' = FALSE
    /\ UNCHANGED <<clientVars, loop, poll, pollVars, sharedVars, target, generation,
                   workVars>>

-----------------------------------------------------------------------------

Polling ==
    \/ LoopBegin
    \/ \E evidence \in BOOLEAN, occ \in Occupancies, sig \in Targets \cup {None} :
          PollObserves(evidence, occ, sig)
    \/ PollEnters \/ PollFindsNobody \/ PollFindsSomebody \/ LoopResumes

Collection ==
    \/ AwaitsOwnership \/ Samples \/ Validates \/ Judges \/ ConfirmsOccupancy
    \/ LocksGate \/ CommitsProfile \/ WorkerReturns

Next ==
    \/ \E c \in Clients : Register(c) \/ Unregister(c)
    \/ Polling \/ PollFails \/ Collection \/ RetryElapses

Spec == Init /\ [][Next]_vars

(* The event loop and its threads keep running; every wait of the sampling     *)
(* thread ends at a deadline.                                                  *)
FairSpec == Spec /\ WF_vars(Polling) /\ SF_vars(Collection) /\ WF_vars(RetryElapses)

-----------------------------------------------------------------------------
(* Properties.                                                                 *)

(* What a collection found out never reaches a client after it was told that   *)
(* the scene is empty: the loop cancels an invalidated collection before it    *)
(* broadcasts, whatever the sampling thread is doing.                          *)
NothingStaleAfterEmpty ==
    [][\A c \in Clients :
          heard[c] = "empty" => heard'[c] \notin {"sampled", "result"}]_vars

(* A profile is committed only under an open gate, though the gate is neither  *)
(* written nor read under one lock and an older collection may lock it after   *)
(* the next candidate was chosen.                                              *)
CommitsUnderOpenGate ==
    [][worker.at = "commit" /\ worker'.at = "pushed" => gate.state # "occupied"]_vars

(* When the presence loop has stopped for want of clients, no collection goes  *)
(* on sampling for nobody: the one that may be running is cancelled, also one  *)
(* that was started after the last client had gone.                            *)
StoppedLeavesNoCollection ==
    loop.at = "stopped" => ~Collecting \/ cancelled

(* A person the departure tracker still follows has an open session, through   *)
(* flicker, changes of target and whatever the sampling thread writes.         *)
TrackedPersonHasSession ==
    Unlocked /\ departure.active => session # "none"

(* Collections and sessions follow who is there and who listens.               *)
SceneInv == TypeOK /\ StoppedLeavesNoCollection /\ TrackedPersonHasSession

(* Every collection ends and frees the worker for the next candidate.          *)
CollectionEnds == Collecting ~> ~Collecting

(* In a scene that stays empty, and is polled, the gate does not stay locked,  *)
(* not even by a profile that is committed after its person has left.          *)
EmptySceneUnlocks ==
    []<>(loop.at = "locked") /\ <>[](snapshot.occ = "none") => <>[](gate.state = "empty")

-----------------------------------------------------------------------------
(* The inductive invariant.                                                    *)

(* The tracker announces a departure before its count runs over.               *)
TrackerCounts == departure.active => departure.absent < ResetAbsentFrames

(* From the publication of a snapshot to the loop's resumption nobody else     *)
(* replaces it, and an empty one brings no candidate.                          *)
PollIsLatest ==
    /\ loop.at \in {"locked", "polled"} => snapshot.occ = poll.occ
    /\ poll.occ = "none" => poll.cand = 0

OnlyClientsHear == \A c \in Clients : heard[c] # "nothing" => c \in clients

(* Whoever was told of an empty scene was told so after the cancellation.      *)
EmptyMeansCancelled ==
    (\E c \in Clients : heard[c] = "empty") => (Collecting => cancelled)

(* From its first validation to its commit a collection finds the gate open.   *)
JudgedUnderOpenGate == worker.at \in {"valid", "fit", "commit"} => gate.state # "occupied"

Inductive ==
    /\ TypeOK /\ TrackerCounts /\ PollIsLatest /\ OnlyClientsHear
    /\ EmptyMeansCancelled /\ JudgedUnderOpenGate /\ StoppedLeavesNoCollection
    /\ departure.active => session # "none"
=============================================================================
