# Verification of vending-vision

TLA+ models of the vending machine's vision service, the TLC runs that check
them and the TLAPS proofs about them. Source references are to the repository
this directory accompanies; `src/` is its root.

## 1. The system

One Python process (FastAPI, asyncio) serves a vending machine. The machine's
UI connects over a websocket, starts *Try-On attempts* (capture a customer,
render a garment on the captured frame) and receives *profiles* (who stands in
front of the machine). Threads and child processes own the cameras, the
observation models and the renderer.

| Component (source) | State | Operations | Talks to |
|---|---|---|---|
| Try-On attempt registry (`vision/try_on_attempt_registry.py`) | active attempt, pending admission, cleanup reservation, retained terminals, receipts | prepare and commit an admission, join, publish, cancel, disconnect, replace or revoke a result, shutdown; each an atomic section under one lock | result store (calls), attempt tasks (events, `task.cancel()`) |
| Try-On attempt runtime (`vision/try_on_attempt_runtime.py`) | one task per start message | `run`, `cancel`, `adjust`, `disconnect` | registry, stores, acquisition, render broker, transport |
| Websocket session, shutdown (`app.py`) | task slots, send locks, per-connection receipts and tasks | one receive loop per connection, `on_shutdown` | runtime, profile clients |
| Result store, adjustment store, captured frames (`try_on_result_store.py`, `try_on_adjustment_store.py`, `acquisition_session.py`) | bounded, expiring maps by attempt | admit, get, discard, clear | registry, runtime, HTTP readers |
| Acquisition session and preview (`acquisition_session.py`, `acquisition_preview.py`) | current frame, hold timer, guidance; one MJPEG stream | acquire, capture by hand; open, update, close | camera owner, observer, registry |
| Front camera owner (`camera_owner.py`) | lease: owner, token, time | acquire, release, expire | acquisition, profile workers |
| Observation worker (`acquisition_observer.py`), render broker (`attempt_worker.py`), shared slot (`shared_ipc_slot.py`) | child process, generation, request in flight | start, observe / render, cancel, quiesce, shut down | pipes and shared memory |
| Camera manager, DirectShow broker (`camera_manager.py`, `directshow_broker.py`) | one broker per role, its child and request threads | read, abort, restart, hand over, release | child process, maintenance |
| Camera binding and maintenance (`camera_binding.py`) | candidates, test evidence, bindings and their file | enumerate, preview, test, confirm | camera manager, file system |
| Presence, session, proximity (`presence_runtime.py`, `session_state.py`, `proximity.py`) | who is present, since when | per-frame updates, departure | profile push |
| Profile push and clients (`profile_push.py`, `profile_state.py`, `app.py`) | candidate, collection, per-client queues | collect, validate, push, expire, broadcast | sampling, clients |
| Occupancy (`top_occupancy_detector.py`, `proximity.py`, `profile_state.py`) | tracks, votes, streaks | one update per frame | presence |
| Estimators (`profile_aggregation.py`, `garment_composer.py`, ...) | sample windows or none | pure computation | |

**What is hard here.** Coroutines interleave at every `await`; a lock protects
each gate section and nothing between two of them. An attempt is started by one
task, displaced by a second, cancelled by a receive loop, fenced by a disconnect
and swept by shutdown, in any order; each of them must wait for the physical
end of the previous owner (camera, child process) before the next one begins,
and none may wait for itself. Terminals must be delivered once, replayed as they
were, and forgotten together with the resources they advertise. Child processes
crash, start badly, survive their kill and answer late, while callers are
cancelled and status requests look at them from threads. Retention bounds,
timeouts and slow or lost peers cut across all of this. `PROJECT.json` lists the
hazards at their lines with the properties that cover them.

**What makes the components correct.** Registry and runtime: one owner of the
physical resources; a verdict that stands; results and terminals in step; no
lost wake-up; a disconnect that leaves nothing of its customer behind. Stores:
bounds and expiry hold for entries and bytes at once. Camera owner: one lease,
priority respected. Acquisition: no capture without one stable person, cleanup
whatever happens. Workers: one request at a time, no late answer for the next,
no process or shared memory lost. Cameras: one process per device, none under a
maintenance handoff, no role bound without a test. Presence and profile: no
profile of a visitor who has left; a report that follows the frames.

## 2. Plan and its state

| Step | Modules | State |
|---|---|---|
| 1 | `TryOnRegistry`, `TryOnAttempts`, `AttemptLifecycle` (abstract), `MCTryOnAttempts`, proofs `TryOnAttemptsProofs` | done |
| 2 | `PresenceProfile`, proofs `PresenceProfileProofs` | done |
| 3 | `TryOnStores`, `MCTryOnStores`: result, adjustment and captured-frame stores with the terminals that grant their results; proofs `TryOnStoresProofs` | done |
| 4 | `Acquisition`: camera owner, session, preview and the profile thread that competes for the camera; proofs `AcquisitionProofs` | done |
| 5 | `RenderBroker`, proofs `RenderBrokerProofs` | done |
| 6 | `ObserverWorker`, proofs `ObserverWorkerProofs` | done |
| 7 | `CameraBroker`, proofs `CameraBrokerProofs`; `CameraMaintenance`, `MCCameraMaintenance`, proofs `CameraMaintenanceProofs` | done |
| 8 | `TopOccupancy` | done |
| 9 | the promises in `TryOnAttemptsProofs`: the owner's subscription, the grants, the refinement, progress and verdicts, joiners, media, canonical terminals, the disconnect | done |

What would come next: the queues of the profile clients as sequences, and the
sample windows of the aggregation.

How the modules fit together: `TryOnAttempts` takes acquisition, rendering and
the stores' arithmetic as steps with several outcomes; `Acquisition`,
`RenderBroker` and `TryOnStores` are the inside of these steps. `Acquisition` in
turn takes the observation and the frame source as steps whose inside is
`ObserverWorker` and `CameraBroker`, and relies on what `TryOnAttempts` proves,
that attempts acquire one after another. `CameraMaintenance` takes the handoff
of a camera as a set of candidates; `CameraBroker` has its inside.
`PresenceProfile` takes what a poll observes by choice; `TopOccupancy` computes
it.

## 3. Modules and their correspondence to the code

**`TryOnRegistry`** is the state of `TryOnAttemptRegistry` and its gate sections
as operators. Every `async with self._gate` body contains no `await`, so a
section is atomic.

- `active`, `pending`, `cleanup` are `_active`, `_pending`, `_cleanup`;
  `pendingDone` and `cleanupDone` are the `done` events of reservations, which
  outlive them because waiters keep a reference.
- A receipt (attempt, random token, generation) is minted once per task, so the
  task names it.
- `history` is `_terminals` with the result store: a terminal or none per
  attempt, their insertion order as a relation, and the attempts whose result is
  granted. `Prune`, `Put`, `Grant`, `Concluded`, `Revoke`, `Replace` are
  `_prune_unlocked`, insertion with `move_to_end`, `_admit_unlocked` with the
  retirement of displaced terminals, `_commit_terminal_unlocked`,
  `_revoke_completed_result_unlocked` and `replace_completed_result`. A
  terminal's payload is its kind; times are one bit, *stale*.
- The subscriber table is a set; when full the code drops the first subscriber
  other than the owner, the model any such one.

**`TryOnAttempts`** puts these sections into the coroutines. Code between two
suspension points is one action; every suspension that another coroutine can
exploit is a value of `pc` (attempt tasks) or of `session[s].op` (receive loops).

| Actions | Code |
|---|---|
| `Start`, `Backpressure`, `JoinOrReject`, `JoinOrRejectAgain`, `ReplayLatest` | start branch of `websocket_session`, `reject_v2_try_on_attempt_for_backpressure`, `join_pending_or_reject` |
| `ReplayTerminal` ... `Displace` | branches of `prepare_admission` |
| `AnnounceDisplaced` | publication of the displaced terminal in `run` |
| `JoinPrior`, `JoinTimeout`, `JoinedCleanup`, `AbandonAdmission`, `CommitAdmission` | `commit_prepared_admission`: the 50 ms join, the cleanup join, cancellation, the last gate |
| `BeginAcquiring`, `StartFails`, `PublishAcquiring`, `AcquisitionEnds`, `Released`, `Complete`, `GenerationEnds`, `WorkerJoined`, `End` | `run` after admission |
| `CancelAttempt`, `PublishCanceled`, `LeaveRoute` | `cancel` |
| `BeginAdjust`, `EndAdjust` | `adjust` |
| `PeerLost`, `BeginClose`, `Detach`, `FenceOwned`, `FenceJoined`, `FenceNotify`, `AbortDisconnect`, `FenceDone`, `RevokeOwned` | end of a receive loop and `disconnect` |
| `TerminalExpires`, `MediaExpires` | the clocks of the history and of the two media stores |
| `CleanupFinishes`, `BeginShutdown`, `EndShutdown` | `_finish_cleanup_uncancelled`, `on_shutdown`, `shutdown` |

Choices worth knowing:

- `task.cancel()` adds the task to `cancelled`; it is delivered at the next
  suspension the code can be interrupted at.
- Acquisition (camera, observer, timer) is one step that captures, fails or ends
  as canceled, followed by the release of its resources; garment fetch and
  render are one step each; their inside is the subject of other modules.
- A send to a lost peer fails and one to a peer of `SlowPeers` may time out.
  `sending` are the slow peers a publication still waits for: `PublicationEnds`
  lets it be sent or given up, and then detaches the peer from whatever is live or
  pending by that time, as the code does. The publisher does not wait with them,
  which only adds behaviours. `seen` is what was handed to a connection.
- The owner field of a refused attempt's terminal is `None`, as in the code.
- `CrossSocket` says whether connections address attempts of others: the code
  checks no owner on cancel and adjust. `Expiring`, `Observed` and
  `StartMayFail` switch on expiry, the record of received messages and failing
  workers in the runs about them.
- The server runs `on_shutdown` after the connection scopes have ended
  (uvicorn's order), which `BeginShutdown` requires.
- Definitions whose comment begins with *Slip* are plausible mistakes in the
  definition that follows them. No action uses one; each property is known to
  fail when its slip replaces the definition.

**`AttemptLifecycle`** is the promise of `docs/PROTOCOL.md`: attempts begin one
at a time and only when the previous one's work is over, each gets one verdict,
and the verdict stands until it is forgotten. `ImplementsLifecycle` maps the
service onto it: an attempt is live while active and concluded while a fresh
terminal of it is retained; the worker is the task between the start of the
observation worker and the end of its cleanup.

**`PresenceProfile`** models the other half of the service: who stands in front
of the machine, and the profile of that person. Four activities share its state.

| Activity | Actions | Code |
|---|---|---|
| clients (event loop) | `Register`, `Unregister` | `register_profile_client`, `unregister_profile_client` |
| presence loop (event loop) | `LoopBegin`, `LoopResumes`, `PollFails` | `presence_broadcast_loop` before and after its `to_thread` |
| polling thread | `PollObserves`, `PollEnters`, `PollFindsNobody`, `PollFindsSomebody` | `PresenceRuntime.poll`: outside the runtime lock, then under it (`loop.at = "locked"`) in two steps |
| sampling thread | `AwaitsOwnership`, `Samples`, `Validates`, `Judges`, `ConfirmsOccupancy`, `LocksGate`, `CommitsProfile` | `collect_front_profile_update` |
| collection worker (event loop) | `WorkerReturns`, `RetryElapses` | `profile_collection_worker`, `finish_collection` and its retry delay |

- `gate`, `departure`, `filter` are `ProfileOccupancyGate`,
  `PersonDepartureTracker` and `ResponsiveOccupancyFilter` with their counters
  (capped where the code stops looking); `target` is `profiled_signature` with
  `target_change_streak`; `generation` is `collection_generation`. Generations
  are only compared, and no more than two are alive, so two values are exact.
- The occupancy gate and the session are written by the sampling thread without
  the runtime lock; a poll's lock section is cut after the gate is marked, so
  that thread gets between. Each gate and session method is one step.
- `heard` is what each client's last queued message was about. A poll's message
  about people or emptiness, a status or result of the sampling thread are told
  apart; payloads are not. All clients take presence and departure messages;
  `PushClients` also take profiles. `QueuesFill` lets any queue be full at any
  message, which stands for every `WEBSOCKET_QUEUE_SIZE` and speed of reading.
- A person's signature is one of `Targets`; two targets do not match, one
  matches itself. Scores, boxes and person tracks are left out.
- Camera ownership is granted, refused or lost by choice. Mock scenarios and
  the cancellation of the two tasks at shutdown are left out.

**`RenderBroker`** is the render process and its owner
(`attempt_worker.py`, `shared_ipc_slot.py`, `render_worker_target.py`).

| Actions | Code |
|---|---|
| `OwnerStart`, `StartTask`, `SpawnFails`, `StartInvalid` | the shared start task: create the slot, start the process, wait for its readiness |
| `Begin`, `Thread`, `Settle` | `render` on the event loop and its request thread: write, poll, time out |
| `Cancel`, `Recovery`, `RecoverKillErrors`, `RecoverIncomplete`, `CancelStartWait` | cancellation at each await, `_recover`, the second drain of a thread that outlives the first |
| `Child`, `ChildDies`, `ReadPid`, `ReadReady` | the loop of the child, its crash, status reads that reconcile a dead child |
| `ShutdownBegins`, `Shutdown`, `ShutdownLeavesThread` | `quiesce` and `shutdown` |

A process generation names the child and its slot. The rendered image is one of
three outcomes; encodings and size checks of the slot are left out.

**`ObserverWorker`** is the observation worker (`acquisition_observer.py`). It
looks like the render broker and differs where it is dangerous: everything runs
on the event loop, only some of its awaits are shielded, `abort_async` is
serialised by a lock that a cancellation may tear (`torn`), `pid` is read from a
thread and may close the process under everybody's feet, and the role stop kills
the child at any time. `Begin`, `Caller`, `Cancel` are `observe` and `start`,
`Abort` is `abort_async`, `ReadPid`, `KillChild` are the status and stop
requests, `Shutdown` is `shutdown`.

**`CameraBroker`** is a front camera: the register of brokers in
`camera_manager.py` over `directshow_broker.py`. The reader is an attempt's
frame (a coroutine with a request thread, cancellable), *sync* a thread that
reads for the profile or answers a status request, *maint* a maintenance
handoff; `Rebind` and `ReleaseAll` are a new binding and a bulk release. A broker
that is unregistered keeps existing as long as somebody refers to it, which is
what the properties are about. `scene` says which of the calls occur in a
behaviour.

**`Acquisition`** is how an attempt obtains its photograph: the lease of the front
camera, the I/O lane between the event loop's thread and the profile thread, the
session's loop with its producer, ticker and clean-up, the preview and the
requests that stream it. `SessionMoves`, `ProducerMoves`, `TickerTicks` and
`TellFact` are the coroutines of the session, `Deadline` and `LeaseExpires` the
clock, `Cancel` a cancellation at any await of the loop or of its clean-up,
`Profiles` the sampling thread, `ReaderMoves` an HTTP request. Images are
numbers of frames.

**`CameraMaintenance`** is which camera serves which role: enumeration, preview
and role test (`Accesses`: handoff, lease, capture, and the way back), evidence
that expires, `Confirm` under the lock, the atomic save (`Replace`,
`SaveFails`), and `Crash`, after which the file is all that is left.

**`TryOnStores`** is the arithmetic that `TryOnRegistry` abstracts: bytes, counts
and times. Each store is a sequence, oldest first. A terminal outlives its result
by up to a tick because it is dated later; an adjustment replaces a result
under a new time while the source it was made from keeps its own. What is left of
a store (`Part`) and the bytes it holds (`Bytes`) are recursive functions, which
can be reasoned about where `SelectSeq` and a fold cannot.

**`TopOccupancy`** computes from the frames what a poll reports: greedy matching
of boxes and tracks, the vote (`Detect`), the proximity decision (`Proximity`),
the debounce and the profile's track (`Conclude`). Boxes of persons, faces and
poses have places and sizes of their own; a size is below its detector's
threshold, above it, or close, and `Area` gives each an area in that range. It has
no concurrency; a run explores every sequence of frames.

## 4. Runs

| Run | Instance | Shows |
|---|---|---|
| `one_client` | 1 connection, 3 attempts, 3 tasks, 2 slots, room for all terminals | receipts, disconnect, joiners, order of messages, refinement of `AttemptLifecycle` |
| `two_clients` | 2 connections, 2 attempts, 2 tasks, room for 1 subscriber; one peer may be slow; workers may fail to start; also from a state with a start left behind by an aborted disconnect | the slot and its one worker, standing, subscribers, media, shutdown, with clients that address each other's attempts |
| `tasks_end` | 1 connection, 2 attempts, 2 tasks, room for 1 terminal and 1 result, both expiring; workers start; fairness | results and terminals in step, verdicts stand, tasks, disconnects and attempts end |
| `presence` | 1 client that wants profiles, 2 targets, full queues, departure after 2 empty polls, fairness | no collection for nobody, nothing stale after an empty scene, commits under an open gate, collections end, an empty scene unlocks |
| `render` | 2 callers, 2 jobs, 5 generations, 1 fault, fairness | books of the broker, own answers, final shutdown, every call ends |
| `cameras` | 1 read beside one of four scenes, 2 bindings, 5 brokers, 1 fault, fairness | own answers, registered children, lonely maintenance, every call returns |
| `observer` | 2 callers, 2 observations, 3 processes, 2 cancellations, 1 kill, 1 fault, fairness | books of the worker, every call ends |
| `acquisition` | 2 attempts, 2 frames each, 2 cancellations, 1 expired lease, beside a profile sequence, two readers or the ticker, fairness | lease, lane, preview, order of facts, every acquisition ends |
| `maintenance` | 2 cameras, 2 indexes, 2 threads, 2 enumerations, 2 tests, 1 preview, 1 change of plugs, 1 crash | bindings, leases, tests |
| `stores` | 4 attempts, 3 sizes of which one is too large, 4 bytes, 2 results, 3 terminals, 1 source, 2 photographs, retention of 2 ticks | bounds, grants, times; what is displaced and why |
| `occupancy` | 2 places of persons, 2 of faces and poses, 3 sizes, up to 2 boxes, windows of 1 and 2 frames, matches from 45 percent | the report follows the frames and changes for cause; who stays keeps the track |
| `preview_places` | as `acquisition` | the finding of section 6 |

*Bounds of the attempt runs.* A conflict over the slot needs an owner, one that displaces it, and a
third that waits for or joins either: three tasks, of which two run at once
(`_TRY_ON_ATTEMPT_MAX_TASKS` is 2; a finished task frees its slot). Two
connections suffice to distinguish own from foreign. Bounds of the history and
of the subscriber table are 1 where the run is about reaching them and large
enough never to bind elsewhere. Tasks are used once each, which bounds the runs;
nothing else is bounded. Symmetry is used for safety only. `two_clients` and
`tasks_end` also begin where a long prefix (18 steps of two connections) leads,
so that shutdown finds a pending admission; `Orphaned` describes that state.

*Bounds of the presence runs.* Two targets are what a change of target needs.
Emptiness is debounced over two frames everywhere (`present_min_frames`), gate
and tracker are reset after two. Nothing else is bounded. In `occupancy` no
behaviour is bounded either: every window is at its smallest size above the
trivial one (a lost track is kept for one frame instead of five; of the streak of
close frames only whether there is one is kept, no property reads its length), and two boxes at two places are what it takes for a track
to find its box taken. Places are half
of the greatest centre shift apart, so distances score whole, half and nothing.

*Bounds of the worker runs.* Five generations of render processes are more than
two jobs and one fault can use up. Two callers are the one whose job fails and
the one that finds the broker recovering; a third would repeat the second. One fault suffices because the code
retries nothing that failed twice; what a second one could hit is a state the
first leaves `fatal`, and the proofs of `RenderBroker` have no bound. Two
cancellations are the one that starts a clean-up and the one that interrupts it.
Two attempts are the one that may leave something behind and the one that would
find it. Two tests and two threads are what it takes to test a camera for both
roles side by side.

*Fairness.* The event loop runs each task that can go on, threads return from
bounded waits, a clock reaches every deadline, a signalled child dies unless a
fault has let it survive. In detail: attempts (`Fairness` of `TryOnAttempts`):
tasks, receive loops and cleanup finalizers; acquisition and
generation end by their timeouts; a lost peer makes `receive_text()` raise.
Nothing is assumed of clients, of expiry, or of shutdown beginning. Presence:
the loop, its thread and the retry clock keep running (weak fairness of
`Polling`, which leaves out `PollFails`: a camera may fail for ever); the
sampling thread and its worker need strong fairness, because they wait for the
runtime lock, which every poll takes and releases again; `EmptySceneUnlocks` is
about scenes that are polled: without clients nothing polls. Workers
and cameras: the broker's coroutines and threads and the readiness message of a
child that boots; a render or a read may take for ever, the deadline of the
polling thread ends it. Acquisition: nothing is assumed of clients, of the
profile thread or of the frames. `maintenance`, `stores` and `occupancy` are
about safety and have none.

## 5. Proofs

Everything below holds for all values of the constants, unless an assumption is
named. `PROJECT.json` lists the theorems.

**The registry.** `TryOnAttemptsProofs` begins with the lemmas about the
registry's operators: each keeps a history well-formed and retains only what it
says. It proves `TypeCorrect`, `SlotKept`, `SingleWorkerHolds`,
`ReservationHolds`, `RegistryInvHolds`, `OneStandingHolds`,
`ReceiptsMirrorActiveHolds` and `ShutdownIsQuietHolds`. `SingleWorker` is not
inductive: nothing in it keeps a second task from being admitted while the first
winds down after its fence. `SlotInv` says why none is. While the service is up,
an active attempt excludes a reservation and a cleanup, and only its task works;
a reservation is held by a task that still waits and watches the only task that
may still work; a cleanup names that task; and with all three empty nobody
works. Once shutdown has emptied the slot every connection is closed, so nothing
is admitted, and only the tasks shutdown waits for may work. `Inductive` adds
the types, `OneStandingPerAttempt` and `ReceiptsMirrorActive`. Most actions leave
the slot and its competitors alone; `Frame` states that once and `FrameLemma`
carries the invariant over. The others have a lemma each.

The second part of the module is what the service promises:

- `OwnerStaysSubscribedHolds`. A reservation becomes an
  attempt with its subscribers, so the invariant speaks of both; the steps that
  take an owner out, the detaches, are of a connection that is lost or slow. Of a
  slow one (`SlowPeers`) nothing is claimed (section 6).
- `GrantsMatchTerminalsHolds`. Each gate section keeps
  grants and terminals in step whatever it forgets; the section that could break
  them, a verdict without a result put over a granted one, is never reached,
  because an active or pending attempt has no terminal (`OneStandingPerAttempt`).
- `LifecycleImplemented`: the service implements `AttemptLifecycle`, initial states map to initial states and every step
  to a step or a stutter. Two facts are needed beside the slot. The history is totally ordered by
  insertion and within its bound (`Sound`), so a section that adds a verdict may
  forget others but never the one it adds, and no other section makes room. And the task of the active attempt is not
  cancelled (`Uncancelled`), so it does not let go before its verdict. *Assumption:*
  the observation worker starts (`~StartMayFail`). If it may fail, the task ends
  while its attempt is live, which the abstract specification excludes (section 6).

The remaining five are about messages under way. Their common base is
`ServiceInv`: the invariants above, and that the slot names attempt and connection of its
task. Under it a lemma each says what a step can do to a part of the state,
whichever action it is: to the retained verdicts (`HistoryStep`, `TermsMove`: put
one, forget some, withdraw a grant, replace a result), to the slot (`StepMoves`),
to the media (`MediaMoves`), to the receive loops (`SessionMoves`). What they
assume of the constants the runs that check them satisfy:

| Assumption | Meaning |
|---|---|
| `Fits` | a place in history and result store for every attempt |
| `Roomy` | `Fits`, and nothing expires |
| `Separate` | `Roomy`, and connections address their own attempts (`~CrossSocket`) |
| `Alone` | one connection |

- `ProgressPrecedesTerminalHolds`, an action property, of all constants. Only a
  task whose attempt is active, and so has no verdict (`OneStandingPerAttempt`),
  tells of progress, and the answers on their way are named in the property.
- `JoinersResolveHolds`, under `Fits`. A duplicate of a pending attempt finds a
  verdict, the attempt active, or the admission it waits for (`JoinersWait`), and
  the event it waits for is not set while that admission is pending
  (`PendingOpen`). An eviction between the verdict and the moment the duplicate
  wakes would leave it with none of the three.
- `MediaOnlyOfCompletedHolds`, under `Roomy`. A captured frame is of a task that
  generates from it or has completed with it, a snapshot of one that has
  completed (`MediaInv`). A snapshot may outlive an evicted verdict (section 6).
- `TerminalIsCanonicalHolds`, an action property, under `Alone` or under
  `Separate`. Every step keeps verdict and owner; what is left is that a
  withdrawn grant does not come back: the result has lost its snapshot, and no
  adjustment of it is under way (`RevokedIsOver`). With one connection that holds
  whatever expires or is evicted. With several it takes that each adjusts what it
  owns (`OwnAdjusts`); an adjustment of another connection may grant the result
  again (section 6).
- `DisconnectFencesHolds`, under `Separate`. A live attempt of the connection is
  on the list of the disconnect until it is fenced (`FencesToDo`); the tasks of
  the connection have ended by then, so nothing of it comes back (`ClosedIsOver`).
  Two observations of section 6 are what the assumption excludes: an evicted
  terminal, and the adjustment of another connection.

**The stores.** `TryOnStoresProofs` proves `StoreInvHolds` and the action property
`DisplacedForCauseHolds`, for any sizes, bounds and retention.

- *Invariant.* `Sane` speaks of terminals, results and counter as one value, which
  each operation of the code keeps (`PruneSane`, `AdmitSane`, `RevokedSane`,
  `FailedSane`, `AgedSane`); the actions are made of these. It adds to `StoreInv`
  how the two stores go together: a result has a granted terminal that does not
  expire before it, so a live result has a live terminal; and results and
  terminals are in the same order of age, so whatever displaces the oldest
  terminals displaces the oldest results. `RoleInv` says that the attempt that runs
  has no terminal, hence no result: the source it retains, for the full time,
  cannot outlive one it already has (`SourceExpiresFirst`).
- *Cause.* `PlanHolds` says what the planning loop returns: a suffix that fits,
  while the next longer one does not. `AdmitDisplaces` and `PruneDisplaces` turn
  that, and the bound of the terminals, into what a step takes away and with
  what right. A step that completes an attempt does both, and they do not mix:
  a result that made room has taken its terminal with it, so the prune that
  follows finds a place (`PruneAll`).
- *Sequences.* The facts about `Part`, `Bytes` and suffixes need induction over the
  length. The library's induction theorem takes a predicate and cannot be used;
  `Least` gets a least element of a set of numbers from `WFMin`, `Induct` is induction
  over a set of numbers, and `Recursion` shows with it that the functions `Part` and
  `Bytes` recurse through exist.

**Presence.** `PresenceProfileProofs` proves `PresenceTypeCorrect`,
`StoppedLeavesNoCollectionHolds`, `TrackedPersonHasSessionHolds`,
`SceneInvHolds`, `CommitsUnderOpenGateHolds` and `NothingStaleAfterEmptyHolds`.
The invariant is `Inductive` of `PresenceProfile`. `EmptyMeansCancelled` carries
the argument about stale results: whoever heard of an empty scene heard it in a
step that had found the candidate invalid, so the running collection was
cancelled, and no other starts in a step that announces emptiness
(`PollIsLatest`). `JudgedUnderOpenGate` carries the one about the gate: between
its first validation and its commit a collection is the only one that could lock
it.

**The render broker.** `RenderBrokerProofs` proves `BrokerInvHolds`,
`AnswersOwnJobHolds` and `ShutdownIsFinalHolds`. The invariant adds to them what
the start task may be doing (`StartInv`: while a child is being made the broker
holds none, and it makes the next generation), who may have a thread
(`ThreadInv`), what each stage of the shutdown has ruled out (`DownInv`), and
that generations are never used twice: every message in a slot or a child is of
the past, and one with the generations of a request in flight carries its job
(`MessageInv`). Nearly every step that stops, drops, reconciles or gives up does
one kind of thing, which `Sheds` says once and `ShedsKeep` carries over; the four
steps that begin a child and the steps of threads and children have lemmas of
their own.

**The observation worker.** `ObserverWorkerProofs` proves `WorkerInvHolds`. The
parts of `WorkerInv` say what is left over, not why. The invariant adds that a
process that is not spawned yet has left no trace (`Spawned`), that a closed one
is dead, forgotten and without a slot (`ClosedIsOver`), that a request in a
child's hand is that of the caller who holds the slot and who polls or stops it
(`RequestIsHolders`), and that the shutdown has the worker to itself
(`DownAlone`). `QuietWhenIdle` follows from `RequestIsHolders`.

**Acquisition.** `AcquisitionProofs` proves `CameraInvHolds`, `PreviewInvHolds`
and the action property `FactsInOrderHolds`, all from one invariant: the I/O
lane has one holder, the profile thread or the producer that reads (`LaneInv`);
an attempt owns the lease at most until it releases it, and surely so until its
deadline (`LeaseInv`); frames go from the producer to the observer to the
photograph (`SessionInv`); and the queue at the fact lock holds at most one fact
of each teller, the session's the newest observed, the ticker's between it and
the last told (`FactsInv`), which `WithoutMain` keeps. `PreviewInv` is inductive
beside these. It says when the preview is refused, for held places only, not that
every place is given back: that of a request that left before its body began is
not (`PlacesAreReturned`).

**The camera broker.** `CameraBrokerProofs` proves `AnswersOwnRequestHolds`,
`BrokerInvHolds` and `MaintenanceAloneHolds`, in two halves.

- *Answers.* Which places of a call are places of a read, of a restart and of a
  stop, and with which broker (`OwnInv`, `ModeInv`); a request thread runs
  exactly while its call waits for it or cleans up after it, and has the slot of
  its broker (`SlotInv`); what is being stopped cannot be used (`AbortInv`,
  `HandleInv`). Then the pipe of a broker is clean, or holds the request of the
  thread that has the slot, or its answer, or what a failed thread left and
  nobody will read (`PipeInv`).
- *Children.* Before any status request or bulk release a call works with the
  registered broker, unless its read was cancelled (`RegisteredInv`,
  `Exclusive`), so a live child is registered, about to be stopped, or has
  outlived its kill (`ChildInv`). A stop finds the child it was meant for, and
  nothing starts another behind it (`StopInv`); of a candidate under maintenance
  only the broker that is being quiesced may still start (`MaintInv`); and a
  restart overtaken by a bulk release still stops what it started
  (`OvertakenInv`).

What these properties leave out, the code does not promise. A status request
takes no lock and a bulk release none of the broker's: either may unregister a
broker that a read has taken and not yet started, whose child then starts
unregistered; a handoff that follows quiesces the registered broker only. And a
later read or status request may start a child of the broker of an overtaken
restart, once maintenance has cleared its fatal state. So `ChildIsRegistered`
and `MaintenanceAlone` speak of scenes without these two calls,
`NoRestartAfterRelease` of scenes without a later read or status request;
`AnswersOwnRequest` of all.

**Camera maintenance.** `CameraMaintenanceProofs` proves `BindingInvHolds`,
`HeldInUseHolds` and the action property `ConfirmedAsTestedHolds`. The
invariant says what a save in progress may hold (`SaveInv`), that no enumeration
shows two cameras at one source (`SourceInv`), that of each camera at most one
access is under way and it alone holds the lease and the handoff (`HoldInv`), and
that a test of the present enumeration saw the source the snapshot shows
(`TestInv`). Locks do not carry the last one: a test runs outside the lock, and
its generation is what makes it worthless after another enumeration.

*Assumptions on constants:* bounds that are numbers, positive where the code
requires it, and the null values distinct from the values they stand beside,
each a named ASSUME that the runs evaluate; for presence, positive frame counts
and push clients among the clients. The bounds on faults, cancellations,
processes and calls are arbitrary numbers in the proofs.

*Model-checked only.* Liveness under fairness is outside the prover's reach
(`ProcessesEnd`, `AttemptsEnd`, `CollectionEnds`, `EmptySceneUnlocks`, `CallsEnd`,
`CallsReturn`, `SessionsEnd`).
`ReportInv` and `ChangesForCause` of `TopOccupancy` are not statements about all
constants: the run uses the frame counts of `config.json:41` (one frame with a
person suffices, two without are needed; `vision/config.py:400` has the same) and its
score (`config.json:124`: 0.45, at a greatest shift of 0.35; the default of
`vision/config.py:482` is 0.25). With a `single_min_frames` of 2 a frame with a person
followed by a miss goes unreported.
`PlacesAreReturned` is false (section 6).

## 6. Findings

`preview_places`: the preview handler promises that the generator's finalizer
returns the place of a client that drops (`app.py:586`). The place is reserved
before the response enters the generator; a client that is gone by then leaves a
generator that was never entered, whose `finally` never runs. The place is never
returned, and from then on every attempt finds its preview refused
(`vision/acquisition_preview.py:47`).

**Observed.** More steps the models contain which a maintainer may want to
know of. The properties are stated so that they allow for them.

- `observer.start()` is awaited before the `try` of `run`
  (`vision/try_on_attempt_runtime.py:237`): if it raises, the accepted attempt
  stays active without a terminal until it is displaced or its connection ends.
  `AttemptsEnd` and `LifecycleImplemented` assume that it does not.
- A replaced owner is cancelled only after 50 ms and may send `accepted` after
  its own `canceled` (`vision/try_on_attempt_runtime.py:244`).
- A disconnect does not find an attempt whose terminal was evicted, and its
  adjustment snapshot stays until it expires
  (`vision/try_on_attempt_registry.py:908`).
- An adjustment that another connection has in flight grants a result again
  after the owner's disconnect revoked it (`vision/try_on_attempt_registry.py:940`).
- A cancel of an attempt that is still pending finds no active attempt and is
  dropped (`vision/try_on_attempt_registry.py:686`); a start queued before its
  connection closed still displaces a live attempt
  (`vision/try_on_attempt_runtime.py:229`).
- Terminals are counted against their bound before those with an expired result
  are taken out (`vision/try_on_attempt_registry.py:196`).
- A candidate that the presence loop drops because the previous worker has not
  ended leaves `collection_generation` set; a person who stays is never sampled
  (`app.py:1470`, `vision/presence_runtime.py:230`).
- The presence loop repeats the check of the candidate while its collection
  commits, and cancels a committed profile (`app.py:1455`).
- A report of the sampling thread reopens a session that a departure has ended
  (`vision/session_state.py:184`); a pushed profile remembers the target of the
  latest snapshot (`vision/presence_runtime.py:89`).
- Reading `pid` for a status request terminates a render process that is still
  booting (`vision/attempt_worker.py:259`); an idle one that dies is not replaced
  (`vision/attempt_worker.py:1067`).
- `abort_camera_request` says that it returns only after process and thread are
  gone (`vision/camera_manager.py:700`); `abort_async` looks at the process once
  (`vision/directshow_broker.py:698`), and a request thread that is about to start
  one does so afterwards. `ChildIsRegistered` holds because the broker stays
  registered then.
- A cancellation may tear the abort of a failed observation
  (`vision/acquisition_observer.py:508`), and the child goes on working until the
  next request; `QuietWhenIdle` leaves that case out.
- A publication that times out, or fails otherwise, detaches a peer that is slow
  but connected (`app.py:381`, `app.py:408`), the owner included, and from what is
  live or pending by then, which may be its own next attempt: the owner hears no
  more of it, its terminal included, unless it asks again.
- A miss that the vote bridges keeps the report, not the track: the frame has no
  box, and its signature is the middle of the picture
  (`vision/profile_state.py:314`). A customer more than half of the greatest shift
  from there scores below 0.45, so one missed frame discards the samples that
  `profile_track_max_missing_frames` would keep. With the default threshold of 0.25
  source and a similar size alone suffice for a match wherever the boxes are.
- The age of a camera lease is wall-clock time
  (`vision/camera_owner.py:72`, under the name `updated_monotonic`): a clock set
  ahead takes the lease from an attempt that reads. `Acquisition` assumes that it
  is not.
- A person model that is not ready counts as
  nobody after two polls (`vision/profile_state.py:464`); a departure may be
  announced before the track ends (`vision/profile_state.py:409`).

`docs/PROTOCOL.md:142-144` still says that the captured event is not published;
the code publishes it, and the model follows the code.

## 7. Not modelled

| Component | Why |
|---|---|
| Garment composer, image estimators | numeric image processing without state between calls |
| Frame sources, pipeline, camera capture | device and file input; counters |
| Contract bundle, protocol messages | generated parsers and formatting |
| Configuration, self-check, build identity | read once at start |
| Scripts, server launcher | build, packaging and data tools outside the service |
| Profile sampling and aggregation | windows over measured confidences; `PresenceProfile` takes the verdict of a collection as a choice |

Of modelled components: message texts, HTTP endpoints other than those named,
mock scenarios, handshake and ping, the persistent OpenCV stream of the camera
manager (`ManagedCameraStream`, which `get_frame_source` never returns), the
manual-capture flag of the registry, and what no code of the service calls
(`admit`, `reject_or_replay`, `discard_terminal`, `renew`). `PROJECT.json` gives
each component's status and what is left out of it.
