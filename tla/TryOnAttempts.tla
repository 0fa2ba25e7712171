--------------------------- MODULE TryOnAttempts ---------------------------
(* The Try-On attempt as the service runs it: TryOnAttemptRuntime              *)
(* (vision/try_on_attempt_runtime.py) and the websocket session of app.py on   *)
(* top of TryOnAttemptRegistry.  Three kinds of process interleave at their    *)
(* awaits: one task per accepted start message, one receive loop per           *)
(* connection (which handles cancel, adjust, backpressure and its own          *)
(* disconnect), and the service shutdown.  Code between two suspension points  *)
(* is one action.                                                              *)
EXTENDS TryOnRegistry

CONSTANTS
    TaskSlots,      \* _TRY_ON_ATTEMPT_MAX_TASKS
    Expiring,       \* attempts whose retention may elapse while we look on
    CrossSocket,    \* may a connection address an attempt another one owns?
    SlowPeers,      \* connections whose peer may not take a message in time
    Observed,       \* connections whose received messages are tracked
    StartMayFail    \* may the observation worker fail to start?

ASSUME SlotsAssumption == TaskSlots \in Nat \ {0}
ASSUME SwitchesAssumption ==
    /\ Expiring \subseteq Attempts
    /\ Observed \subseteq Sockets
    /\ SlowPeers \subseteq Sockets
    /\ CrossSocket \in BOOLEAN
    /\ StartMayFail \in BOOLEAN

VARIABLES
    pc,         \* where each task is suspended
    sock,       \* the connection that started the task
    aid,        \* the attempt it runs
    on,         \* the task whose event or end it waits for, or None
    outcome,    \* what its try block has come to
    cancelled,  \* tasks with a task.cancel() not yet delivered
    notice,     \* the displaced attempt a task still has to announce
    session,    \* per connection: the handler its receive loop is in
    up,         \* connections whose peer is reachable
    seen,       \* the last kind of message sent to each peer about each attempt
    sending,    \* slow peers a publication is still waiting for
    captured,   \* captured frames, by the task that stored each
    snapshot,   \* adjustment snapshots, by the task that retained each
    shutdown    \* where on_shutdown is, and what it waits for

taskVars == <<pc, sock, aid, on, outcome, cancelled, notice>>
wireVars == <<seen, sending>>
mediaVars == <<captured, snapshot>>
vars == <<registryVars, taskVars, session, up, wireVars, mediaVars, shutdown>>

PCs == {"idle", "prepare", "awaitCleanup", "awaitPending", "joined", "replay",
        "displacing", "join", "joinCleanup", "admit", "start", "acquire",
        "release", "generate", "stop", "end", "done", "unstarted", "lost"}

(* A task past these points has returned or raised.                            *)
Finished == {t \in Tasks : pc[t] \in {"done", "unstarted", "lost"}}
Running == {t \in Tasks : pc[t] # "idle"} \ Finished

(* A task here may hold the camera, the observation worker or the renderer.    *)
WorkPCs == {"start", "acquire", "release", "generate", "stop", "end"}
Working == {t \in Tasks : pc[t] \in WorkPCs}

Handlers == {"open", "reject", "awaitCleanup", "awaitPending", "replay",
             "publish", "adjust", "closing", "fence", "fenceJoin",
             "fenceNotify", "gather", "closed", "aborted"}

(* op: the handler; id: its attempt; on: what it waits for; subs: whom it will *)
(* notify; todo: the receipts a disconnect has not fenced yet.                 *)
Idle == [op |-> "open", id |-> None, on |-> None, subs |-> {}, todo |-> {}]

Session ==
    [op : Handlers, id : Attempts \cup {None}, on : Tasks \cup {None},
     subs : SUBSET Sockets, todo : SUBSET Tasks]

Alive == {"open", "reject", "awaitCleanup", "awaitPending", "replay", "publish",
          "adjust"}

Notice == [id : Attempts \cup {None}, subs : SUBSET Sockets]
NoNotice == [id |-> None, subs |-> {}]

(* Slip: connection_closed is set at the end of disconnect().                  *)
ConnectionClosedOnceFenced(s) == session[s].op = "closed"

ConnectionClosed(s) == session[s].op \notin Alive

TypeOK ==
    /\ active \in ActiveAttempt \cup {None}
    /\ pending \in PendingAdmission \cup {None}
    /\ cleanup \in Tasks \cup {None}
    /\ pendingDone \subseteq Tasks /\ cleanupDone \subseteq Tasks
    /\ receipts \in [Sockets -> SUBSET Tasks]
    /\ history \in History
    /\ pc \in [Tasks -> PCs]
    /\ sock \in [Tasks -> Sockets \cup {None}]
    /\ aid \in [Tasks -> Attempts \cup {None}]
    /\ on \in [Tasks -> Tasks \cup {None}]
    /\ outcome \in [Tasks -> {"none", "captured", "failed", "canceled"}]
    /\ cancelled \subseteq Tasks
    /\ notice \in [Tasks -> Notice]
    /\ session \in [Sockets -> Session]
    /\ up \subseteq Sockets
    /\ seen \in [Sockets -> [Attempts -> {"none", "live", "ended"}]]
    /\ sending \subseteq SlowPeers
    /\ captured \in [Attempts -> Tasks \cup {None}]
    /\ snapshot \in [Attempts -> Tasks \cup {None}]
    /\ shutdown \in [at : {"up", "draining", "down"},
                      task : Tasks \cup {None}, on : Tasks \cup {None}]

Init ==
    /\ active = None /\ pending = None /\ cleanup = None
    /\ pendingDone = {} /\ cleanupDone = {}
    /\ receipts = [s \in Sockets |-> {}]
    /\ history = [term |-> [a \in Attempts |-> None], older |-> {}, results |-> {}]
    /\ pc = [t \in Tasks |-> "idle"]
    /\ sock = [t \in Tasks |-> None]
    /\ aid = [t \in Tasks |-> None]
    /\ on = [t \in Tasks |-> None]
    /\ outcome = [t \in Tasks |-> "none"]
    /\ cancelled = {}
    /\ notice = [t \in Tasks |-> NoNotice]
    /\ session = [s \in Sockets |-> Idle]
    /\ up = Sockets
    /\ seen = [s \in Sockets |-> [a \in Attempts |-> "none"]]
    /\ sending = {}
    /\ captured = [a \in Attempts |-> None]
    /\ snapshot = [a \in Attempts |-> None]
    /\ shutdown = [at |-> "up", task |-> None, on |-> None]

-----------------------------------------------------------------------------
(* Messages.  Sends to one connection are queued on its send lock, so messages *)
(* reach a live peer in the order they were sent.  A send to a lost peer fails *)
(* and one to a slow peer may time out (_send_json_bounded): sent to it means  *)
(* handed to its queue.                                                        *)

Send(subs, a, kind) ==
    seen' = [s \in Sockets |->
                IF s \in subs \cap up \cap Observed
                  THEN [seen[s] EXCEPT ![a] = kind]
                  ELSE seen[s]]

(* A send to one peer.  One that times out ends its task or, as the loss of the*)
(* peer does, its receive loop; a task that has only the latest observation    *)
(* left to send may still do so here.                                          *)
SendDirect(subs, a, kind) == Send(subs, a, kind) /\ UNCHANGED sending

Silent == UNCHANGED wireVars

(* _publish_try_on_transition on the registry it leaves behind: a lost peer is *)
(* detached at once, a slow one is waited for.  The publisher, who waits with  *)
(* it, may go on here: that adds behaviours and takes none away.               *)
PublishTo(subs, a, kind, act, pend) ==
    /\ Send(subs, a, kind)
    /\ sending' = sending \cup (subs \cap up \cap SlowPeers)
    /\ active' = Detached(act, subs \ up)
    /\ pending' = Detached(pend, subs \ up)

(* The publication to a slow peer is over: it was sent or given up, or its send*)
(* failed, most likely by the timeout, and then whatever is live or pending by *)
(* now loses this subscriber.                                                  *)
PublicationEnds(s) ==
    /\ s \in sending
    /\ sending' = sending \ {s}
    /\ \/ UNCHANGED <<active, pending>>
       \/ active' = Detached(active, {s}) /\ pending' = Detached(pending, {s})
    /\ UNCHANGED <<cleanup, pendingDone, cleanupDone, receipts, history, taskVars,
                   session, up, seen, mediaVars, shutdown>>

Revoked(media, ids) == [a \in Attempts |-> IF a \in ids THEN None ELSE media[a]]

(* _AppAttemptMedia.revoke: the captured frame and the adjustment snapshot go  *)
(* before its first suspension.                                                *)
RevokeMedia(ids) ==
    /\ captured' = Revoked(captured, ids)
    /\ snapshot' = Revoked(snapshot, ids)

Goto(t, label) == pc' = [pc EXCEPT ![t] = label]

WaitFor(t, label, u) == Goto(t, label) /\ on' = [on EXCEPT ![t] = u]

(* Slip: the receipt of a concluded attempt is not discarded.                  *)
ConcludeKeepingReceipt(x, h, kind) ==
    /\ history' = Concluded(h, x.id, kind, x.owner)
    /\ UNCHANGED receipts

(* _commit_terminal_unlocked on the active attempt x: its terminal is retained *)
(* over history h, the receipt is dropped and the slot is free.                *)
Conclude(x, h, kind) ==
    /\ history' = Concluded(h, x.id, kind, x.owner)
    /\ receipts' = DiscardReceipt(x)

(* task.cancel() on a task that has not finished.                              *)
CancelTask(t) == cancelled' = IF t \in Finished THEN cancelled ELSE cancelled \cup {t}

-----------------------------------------------------------------------------
(* The attempt task: admission (prepare_admission, commit_prepared_admission). *)

(* The receive loop takes a free slot and spawns the task.                     *)
Start(s, t, a) ==
    /\ session[s].op = "open" /\ s \in up
    /\ pc[t] = "idle"
    /\ Cardinality(Running) < TaskSlots
    /\ Goto(t, "prepare")
    /\ sock' = [sock EXCEPT ![t] = s]
    /\ aid' = [aid EXCEPT ![t] = a]
    /\ UNCHANGED <<registryVars, on, outcome, cancelled, notice, session, up, wireVars,
                   mediaVars, shutdown>>

quietVars == <<sock, aid, outcome, session, up, mediaVars, shutdown>>

(* A retained terminal is replayed as it is.                                   *)
ReplayTerminal(t) ==
    LET h == Prune(history)
    IN  /\ pc[t] = "prepare"
        /\ aid[t] \in Retained(h)
        /\ history' = h
        /\ SendDirect({sock[t]}, aid[t], "ended")
        /\ Goto(t, "done")
        /\ UNCHANGED <<active, pending, cleanup, pendingDone, cleanupDone, receipts,
                       on, cancelled, notice, quietVars>>

(* The same attempt is live: subscribe, and replay accepted and then, after a  *)
(* suspension, the observation that was the latest at the time.                *)
JoinActive(t) ==
    LET h == Prune(history)
    IN  /\ pc[t] = "prepare"
        /\ aid[t] \notin Retained(h)
        /\ IsActive(aid[t])
        /\ active' \in Attached(active, sock[t])
        /\ history' = h
        /\ SendDirect({sock[t]}, aid[t], "live")
        /\ Goto(t, IF active.latest THEN "replay" ELSE "done")
        /\ UNCHANGED <<pending, cleanup, pendingDone, cleanupDone, receipts,
                       on, cancelled, notice, quietVars>>

SendLatest(t) ==
    /\ pc[t] = "replay"
    /\ SendDirect({sock[t]}, aid[t], "live")
    /\ Goto(t, "done")
    /\ UNCHANGED <<registryVars, on, cancelled, notice, quietVars>>

(* Slip: the retained terminals are not consulted first.                       *)
UnresolvedUnlessActive(t, h) == pc[t] = "prepare" /\ ~IsActive(aid[t])

Unresolved(t, h) ==
    pc[t] = "prepare" /\ aid[t] \notin Retained(h) /\ ~IsActive(aid[t])

WaitForCleanup(t) ==
    LET h == Prune(history)
    IN  /\ Unresolved(t, h)
        /\ cleanup # None
        /\ WaitFor(t, "awaitCleanup", cleanup)
        /\ history' = h
        /\ UNCHANGED <<active, pending, cleanup, pendingDone, cleanupDone, receipts,
                       cancelled, notice, wireVars, quietVars>>

JoinPending(t) ==
    LET h == Prune(history)
    IN  /\ Unresolved(t, h)
        /\ cleanup = None
        /\ IsPending(aid[t])
        /\ pending' \in Attached(pending, sock[t])
        /\ WaitFor(t, "joined", pending.task)
        /\ history' = h
        /\ UNCHANGED <<active, cleanup, pendingDone, cleanupDone, receipts,
                       cancelled, notice, wireVars, quietVars>>

WaitForPending(t) ==
    LET h == Prune(history)
    IN  /\ Unresolved(t, h)
        /\ cleanup = None
        /\ pending # None /\ pending.id # aid[t]
        /\ WaitFor(t, "awaitPending", pending.task)
        /\ history' = h
        /\ UNCHANGED <<active, pending, cleanup, pendingDone, cleanupDone, receipts,
                       cancelled, notice, wireVars, quietVars>>

(* The awaited event is set: the admission loop runs again.                    *)
Retry(t) ==
    /\ \/ pc[t] = "awaitCleanup" /\ on[t] \in cleanupDone
       \/ pc[t] = "awaitPending" /\ on[t] \in pendingDone
    /\ WaitFor(t, "prepare", None)
    /\ UNCHANGED <<registryVars, cancelled, notice, wireVars, quietVars>>

(* Slip: a duplicate start does not wait for the done event.                   *)
ResolveJoinedEarly(t) ==
    LET h == Prune(history)
        a == aid[t]
    IN  /\ pc[t] = "joined"
        /\ history' = h
        /\ \/ a \in Retained(h) /\ SendDirect({sock[t]}, a, "ended") /\ WaitFor(t, "done", None)
           \/ /\ a \notin Retained(h) /\ IsActive(a)
              /\ SendDirect({sock[t]}, a, "live")
              /\ WaitFor(t, IF active.latest THEN "replay" ELSE "done", None)
           \/ /\ a \notin Retained(h) /\ ~IsActive(a)
              /\ WaitFor(t, "lost", None)
              /\ Silent
        /\ UNCHANGED <<active, pending, cleanup, pendingDone, cleanupDone, receipts,
                       cancelled, notice, quietVars>>

(* A duplicate start that waited for the pending admission of its attempt.     *)
ResolveJoined(t) ==
    LET h == Prune(history)
        a == aid[t]
    IN  /\ pc[t] = "joined" /\ on[t] \in pendingDone
        /\ history' = h
        /\ \/ /\ a \in Retained(h)
              /\ SendDirect({sock[t]}, a, "ended")
              /\ WaitFor(t, "done", None)
           \/ /\ a \notin Retained(h) /\ IsActive(a)
              /\ SendDirect({sock[t]}, a, "live")
              /\ WaitFor(t, IF active.latest THEN "replay" ELSE "done", None)
           \/ /\ a \notin Retained(h) /\ ~IsActive(a)
              /\ WaitFor(t, "lost", None)
              /\ Silent
        /\ UNCHANGED <<active, pending, cleanup, pendingDone, cleanupDone, receipts,
                       cancelled, notice, quietVars>>

(* An owner is displaced: its terminal is committed and the admission is       *)
(* reserved in one gate section; its media goes before the first suspension.   *)
Displace(t) ==
    LET h == Prune(history)
    IN  /\ Unresolved(t, h)
        /\ cleanup = None /\ pending = None /\ active # None
        /\ Conclude(active, h, "canceled")
        /\ active' = None
        /\ pending' = [id |-> aid[t], task |-> t, owner |-> sock[t],
                       subs |-> {sock[t]}, prior |-> active.task]
        /\ notice' = [notice EXCEPT ![t] = [id |-> active.id, subs |-> active.subs]]
        /\ RevokeMedia({active.id})
        /\ WaitFor(t, "displacing", active.task)
        /\ UNCHANGED <<cleanup, pendingDone, cleanupDone, cancelled, wireVars,
                       sock, aid, outcome, session, up, shutdown>>

AnnounceDisplaced(t) ==
    /\ pc[t] = "displacing" /\ t \notin cancelled
    /\ PublishTo(notice[t].subs, notice[t].id, "ended", active, pending)
    /\ notice' = [notice EXCEPT ![t] = NoNotice]
    /\ Goto(t, "join")
    /\ UNCHANGED <<cleanup, pendingDone, cleanupDone, receipts, history, on,
                   cancelled, quietVars>>

JoinPrior(t) ==
    /\ pc[t] = "join" /\ t \notin cancelled
    /\ on[t] \in Finished
    /\ WaitFor(t, "admit", None)
    /\ UNCHANGED <<registryVars, cancelled, notice, wireVars, quietVars>>

(* The prior owner did not end within 50 ms: cancel it behind the cleanup      *)
(* reservation.                                                                *)
JoinTimeout(t) ==
    /\ pc[t] = "join" /\ t \notin cancelled
    /\ on[t] \notin Finished
    /\ CancelTask(on[t])
    /\ cleanup' = ReserveCleanup(on[t])
    /\ Goto(t, "joinCleanup")
    /\ UNCHANGED <<active, pending, pendingDone, cleanupDone, receipts, history,
                   on, notice, wireVars, quietVars>>

(* Slip: the prior owner is cancelled but its cleanup is not awaited.          *)
JoinedWithoutCleanup(t) ==
    /\ pc[t] = "joinCleanup" /\ t \notin cancelled
    /\ WaitFor(t, "admit", None)
    /\ UNCHANGED <<registryVars, cancelled, notice, wireVars, quietVars>>

JoinedCleanup(t) ==
    /\ pc[t] = "joinCleanup" /\ t \notin cancelled
    /\ on[t] \in cleanupDone
    /\ WaitFor(t, "admit", None)
    /\ UNCHANGED <<registryVars, cancelled, notice, wireVars, quietVars>>

(* Shutdown cancels a pending owner, which has lost its reservation: it leaves *)
(* once the cleanup of its prior owner is over.                                *)
AbandonAdmission(t) ==
    /\ t \in cancelled
    /\ \/ pc[t] \in {"displacing", "admit"}
       \/ pc[t] \in {"join", "joinCleanup"} /\ cleanup = None
    /\ WaitFor(t, "done", None)
    /\ cancelled' = cancelled \ {t}
    /\ notice' = [notice EXCEPT ![t] = NoNotice]
    /\ UNCHANGED <<registryVars, wireVars, quietVars>>

(* The last gate section of commit_prepared_admission for reservation p over   *)
(* history h, and what run() does with it before it suspends again: refuse     *)
(* when not ready, cancel at once when the connection has closed, else start.  *)
CommitAdmission(t, p, h) ==
    /\ pendingDone' = pendingDone \cup {t}
    /\ \/ /\ history' = Prune(Put(h, p.id, Terminal("failed", None)))
          /\ active' = None /\ pending' = None
          /\ SendDirect({p.owner}, p.id, "ended")
          /\ WaitFor(t, "done", None)
          /\ UNCHANGED receipts
       \/ /\ ConnectionClosed(p.owner)
          /\ history' = Concluded(h, p.id, "canceled", p.owner)
          /\ PublishTo(p.subs, p.id, "ended", None, None)
          /\ WaitFor(t, "done", None)
          /\ UNCHANGED receipts
       \/ /\ ~ConnectionClosed(p.owner)
          /\ history' = h
          /\ active' = [id |-> p.id, task |-> t, owner |-> p.owner,
                        subs |-> p.subs, latest |-> FALSE]
          /\ pending' = None
          /\ receipts' = [receipts EXCEPT ![p.owner] = @ \cup {t}]
          /\ WaitFor(t, "start", None)
          /\ Silent
    /\ UNCHANGED <<cleanup, cleanupDone, cancelled, notice, quietVars>>

(* Slip: an admission does not look for a cleanup under way.                   *)
AdmitFreeDespiteCleanup(t) ==
    LET h == Prune(history)
    IN  /\ Unresolved(t, h)
        /\ pending = None /\ active = None
        /\ CommitAdmission(t, [id |-> aid[t], task |-> t, owner |-> sock[t],
                               subs |-> {sock[t]}, prior |-> None], h)

(* Nobody to displace: the reservation is committed without a suspension.      *)
AdmitFree(t) ==
    LET h == Prune(history)
    IN  /\ Unresolved(t, h)
        /\ cleanup = None /\ pending = None /\ active = None
        /\ CommitAdmission(t, [id |-> aid[t], task |-> t, owner |-> sock[t],
                               subs |-> {sock[t]}, prior |-> None], h)

Admit(t) ==
    /\ pc[t] = "admit" /\ t \notin cancelled
    /\ CommitAdmission(t, pending, Prune(history))

-----------------------------------------------------------------------------
(* The attempt task: acquisition and generation (TryOnAttemptRuntime.run).     *)

heldVars == <<cleanup, pendingDone, cleanupDone>>

(* The observation worker is up; accepted is sent to the owner, or the send    *)
(* fails, with a slow owner by its timeout.                                    *)
BeginAcquiring(t) ==
    /\ pc[t] = "start" /\ t \notin cancelled
    /\ \/ sock[t] \in up /\ Goto(t, "acquire") /\ UNCHANGED outcome
       \/ /\ sock[t] \notin up \/ sock[t] \in SlowPeers
          /\ Goto(t, "end")
          /\ outcome' = [outcome EXCEPT ![t] = IF sock[t] \in up THEN "canceled"
                                                                ELSE "failed"]
    /\ SendDirect({sock[t]}, aid[t], "live")
    /\ UNCHANGED <<registryVars, sock, aid, on, cancelled, notice, session, up,
                   mediaVars, shutdown>>

(* observer.start() is awaited before the try block: an error or a             *)
(* cancellation there leaves the task at once.                                 *)
StartFails(t) ==
    /\ pc[t] = "start"
    /\ \/ StartMayFail /\ t \notin cancelled /\ Goto(t, "unstarted")
       \/ t \in cancelled /\ Goto(t, "done")
    /\ cancelled' = cancelled \ {t}
    /\ UNCHANGED <<registryVars, on, notice, wireVars, quietVars>>

(* Slip: the owner of the task is told even when it has been fenced.           *)
PublishObservationUnfenced(t) ==
    IF IsCurrent(t)
      THEN PublishTo(active.subs, aid[t], "live", [active EXCEPT !.latest = TRUE],
                     pending)
      ELSE SendDirect({sock[t]}, aid[t], "live") /\ UNCHANGED <<active, pending>>

(* publish_nonterminal, then the publication: nothing once the owner is fenced.*)
PublishObservation(t) ==
    IF IsCurrent(t)
      THEN PublishTo(active.subs, aid[t], "live", [active EXCEPT !.latest = TRUE],
                     pending)
      ELSE UNCHANGED <<wireVars, active, pending>>

PublishAcquiring(t) ==
    /\ pc[t] = "acquire" /\ IsCurrent(t)
    /\ PublishObservation(t)
    /\ UNCHANGED <<heldVars, receipts, history, pc, on, cancelled, notice, quietVars>>

(* The acquisition session returns a frame, or raises: a deadline, a fenced    *)
(* read or a cancellation end as canceled, any other error as failed.          *)
AcquisitionEnds(t) ==
    /\ pc[t] = "acquire"
    /\ \E result \in {"captured", "failed", "canceled"} :
          /\ t \in cancelled => result = "canceled"
          /\ outcome' = [outcome EXCEPT ![t] = result]
    /\ cancelled' = cancelled \ {t}
    /\ Goto(t, "release")
    /\ UNCHANGED <<registryVars, sock, aid, on, notice, session, up, wireVars,
                   mediaVars, shutdown>>

(* Preview closed, lease released, observer idle.  A captured frame is then    *)
(* stored, even by an owner fenced meanwhile, and captured and generating are  *)
(* published.                                                                  *)
Released(t) ==
    /\ pc[t] = "release"
    /\ \/ /\ outcome[t] = "captured" /\ t \notin cancelled
          /\ captured' = [captured EXCEPT ![aid[t]] = t]
          /\ outcome' = [outcome EXCEPT ![t] = "none"]
          /\ PublishObservation(t)
          /\ Goto(t, "generate")
       \/ /\ outcome[t] # "captured" \/ t \in cancelled
          /\ outcome' = [outcome EXCEPT ![t] = IF @ = "captured" THEN "canceled" ELSE @]
          /\ Goto(t, "end")
          /\ UNCHANGED <<captured, active, pending, wireVars>>
    /\ cancelled' = cancelled \ {t}
    /\ UNCHANGED <<heldVars, receipts, history, sock, aid, on, notice, session, up,
                   snapshot, shutdown>>

(* The garment is fetched and the render is in; the last is_current check, the *)
(* adjustment snapshot and the completed terminal share one step.              *)
Complete(t) ==
    /\ pc[t] = "generate" /\ IsCurrent(t)
    /\ snapshot' = [snapshot EXCEPT ![aid[t]] = t]
    /\ Conclude(active, history, "completed")
    /\ PublishTo(active.subs, aid[t], "ended", None, pending)
    /\ Goto(t, "done")
    /\ UNCHANGED <<heldVars, sock, aid, on, outcome, cancelled, notice, session, up,
                   captured, shutdown>>

(* Fetch or render fails, times out, or is fenced or cancelled: the worker is  *)
(* cancelled and joined.                                                       *)
GenerationEnds(t) ==
    /\ pc[t] = "generate"
    /\ \E result \in {"failed", "canceled"} :
          /\ t \in cancelled => result = "canceled"
          /\ outcome' = [outcome EXCEPT ![t] = result]
    /\ cancelled' = cancelled \ {t}
    /\ Goto(t, "stop")
    /\ UNCHANGED <<registryVars, sock, aid, on, notice, session, up, wireVars,
                   mediaVars, shutdown>>

WorkerJoined(t) ==
    /\ pc[t] = "stop"
    /\ Goto(t, "end")
    /\ UNCHANGED <<registryVars, on, cancelled, notice, wireVars, quietVars>>

(* Slip: an attempt that did not complete keeps its media.                     *)
EndKeepingMedia(t) ==
    /\ pc[t] = "end"
    /\ IF IsCurrent(t)
         THEN /\ Conclude(active, history, outcome[t])
              /\ PublishTo(active.subs, aid[t], "ended", None, pending)
         ELSE UNCHANGED <<history, receipts, active, pending, wireVars>>
    /\ cancelled' = cancelled \ {t}
    /\ Goto(t, "done")
    /\ outcome' = [outcome EXCEPT ![t] = "none"]
    /\ UNCHANGED <<heldVars, sock, aid, on, notice, session, up, shutdown,
                   mediaVars>>

(* Slip: an attempt that ends as canceled commits no terminal.                 *)
EndUnlessCanceled(t) ==
    /\ pc[t] = "end"
    /\ RevokeMedia({aid[t]})
    /\ IF IsCurrent(t) /\ outcome[t] = "failed"
         THEN /\ Conclude(active, history, outcome[t])
              /\ PublishTo(active.subs, aid[t], "ended", None, pending)
         ELSE UNCHANGED <<history, receipts, active, pending, wireVars>>
    /\ cancelled' = cancelled \ {t}
    /\ Goto(t, "done")
    /\ outcome' = [outcome EXCEPT ![t] = "none"]
    /\ UNCHANGED <<heldVars, sock, aid, on, notice, session, up, shutdown>>

(* Not completed: the media go, and the terminal is committed if this receipt  *)
(* still is the active one.                                                    *)
End(t) ==
    /\ pc[t] = "end"
    /\ RevokeMedia({aid[t]})
    /\ IF IsCurrent(t)
         THEN /\ Conclude(active, history, outcome[t])
              /\ PublishTo(active.subs, aid[t], "ended", None, pending)
         ELSE UNCHANGED <<history, receipts, active, pending, wireVars>>
    /\ cancelled' = cancelled \ {t}
    /\ Goto(t, "done")
    /\ outcome' = [outcome EXCEPT ![t] = "none"]
    /\ UNCHANGED <<heldVars, sock, aid, on, notice, session, up, shutdown>>

-----------------------------------------------------------------------------
(* The receive loop of one connection.                                         *)

Handle(s, handler) == session' = [session EXCEPT ![s] = handler]

Handling(s, op) == [session[s] EXCEPT !.op = op]

calmVars == <<taskVars, up, shutdown>>

(* The code checks no owner on cancel and adjust; CrossSocket = FALSE describes*)
(* clients that address their own attempts only.                               *)
MayAddress(s, a) ==
    \/ CrossSocket
    \/ /\ IsActive(a) => active.owner = s
       /\ a \in Retained(history) => history.term[a].owner \in {s, None}

(* Every slot is taken: the start message is answered inline by                *)
(* join_pending_or_reject.                                                     *)
Backpressure(s, a) ==
    /\ session[s].op = "open" /\ s \in up
    /\ Cardinality(Running) >= TaskSlots
    /\ Handle(s, [Idle EXCEPT !.op = "reject", !.id = a])
    /\ UNCHANGED <<registryVars, wireVars, mediaVars, calmVars>>

JoinOrReject(s) ==
    LET h == Prune(history)
        a == session[s].id
    IN  /\ session[s].op = "reject"
        /\ \/ /\ a \in Retained(h)
              /\ history' = h
              /\ SendDirect({s}, a, "ended") /\ Handle(s, Idle)
              /\ UNCHANGED <<active, pending>>
           \/ /\ a \notin Retained(h) /\ IsActive(a)
              /\ history' = h
              /\ active' \in Attached(active, s)
              /\ SendDirect({s}, a, "live")
              /\ Handle(s, IF active.latest THEN Handling(s, "replay") ELSE Idle)
              /\ UNCHANGED pending
           \/ /\ a \notin Retained(h) /\ IsPending(a)
              /\ history' = h
              /\ pending' \in Attached(pending, s)
              /\ Handle(s, [Handling(s, "awaitPending") EXCEPT !.on = pending.task])
              /\ UNCHANGED <<active, wireVars>>
           \/ /\ a \notin Retained(h) /\ ~IsActive(a) /\ ~IsPending(a)
              /\ cleanup # None
              /\ history' = h
              /\ Handle(s, [Handling(s, "awaitCleanup") EXCEPT !.on = cleanup])
              /\ UNCHANGED <<active, pending, wireVars>>
           \/ /\ a \notin Retained(h) /\ ~IsActive(a) /\ ~IsPending(a)
              /\ cleanup = None
              /\ history' = Prune(Put(h, a, Terminal("failed", None)))
              /\ SendDirect({s}, a, "ended") /\ Handle(s, Idle)
              /\ UNCHANGED <<active, pending>>
        /\ UNCHANGED <<heldVars, receipts, mediaVars, calmVars>>

JoinOrRejectAgain(s) ==
    /\ \/ session[s].op = "awaitCleanup" /\ session[s].on \in cleanupDone
       \/ session[s].op = "awaitPending" /\ session[s].on \in pendingDone
    /\ Handle(s, [Handling(s, "reject") EXCEPT !.on = None])
    /\ UNCHANGED <<registryVars, wireVars, mediaVars, calmVars>>

ReplayLatest(s) ==
    /\ session[s].op = "replay"
    /\ SendDirect({s}, session[s].id, "live")
    /\ Handle(s, Idle)
    /\ UNCHANGED <<registryVars, mediaVars, calmVars>>

(* Fence the active attempt a with a canceled terminal, cancel its task behind *)
(* the cleanup reservation: the gate of cancel_current and of                  *)
(* cancel_owner_and_join.                                                      *)
FenceActive ==
    /\ Conclude(active, history, "canceled")
    /\ CancelTask(active.task)
    /\ cleanup' = IF active.task \in Finished THEN cleanup
                                              ELSE ReserveCleanup(active.task)
    /\ active' = None
    /\ UNCHANGED <<pending, pendingDone, cleanupDone>>

CancelAttempt(s, a) ==
    /\ session[s].op = "open" /\ s \in up
    /\ IsActive(a) /\ MayAddress(s, a)
    /\ FenceActive
    /\ RevokeMedia({a})
    /\ Handle(s, [Idle EXCEPT !.op = "publish", !.id = a, !.subs = active.subs])
    /\ UNCHANGED <<pc, sock, aid, on, outcome, notice, up, wireVars, shutdown>>

PublishCanceled(s) ==
    /\ session[s].op = "publish"
    /\ PublishTo(session[s].subs, session[s].id, "ended", active, pending)
    /\ Handle(s, Idle)
    /\ UNCHANGED <<heldVars, receipts, history, mediaVars, calmVars>>

(* cancel with route_leave for an attempt that is not active.                  *)
LeaveRoute(s, a) ==
    LET h == Prune(history)
    IN  /\ session[s].op = "open" /\ s \in up
        /\ ~IsActive(a) /\ MayAddress(s, a)
        /\ history' = IF Completed(h, a) THEN Revoke(h, {a}) ELSE h
        /\ RevokeMedia({a})
        /\ UNCHANGED <<active, pending, heldVars, receipts, session, wireVars, calmVars>>

(* adjust: the snapshot is looked up, a render is awaited, and then the result *)
(* of the completed terminal is replaced.                                      *)
BeginAdjust(s, a) ==
    /\ session[s].op = "open" /\ s \in up
    /\ snapshot[a] # None
    /\ MayAddress(s, a)
    /\ Handle(s, [Idle EXCEPT !.op = "adjust", !.id = a])
    /\ UNCHANGED <<registryVars, wireVars, mediaVars, calmVars>>

EndAdjust(s) ==
    LET h == Prune(history)
        a == session[s].id
    IN  /\ session[s].op = "adjust"
        /\ \/ history' = IF Completed(h, a) THEN Replace(h, a) ELSE h
           \/ UNCHANGED history
        /\ Handle(s, Idle)
        /\ UNCHANGED <<active, pending, heldVars, receipts, wireVars, mediaVars, calmVars>>

-----------------------------------------------------------------------------
(* The end of a connection.                                                    *)

PeerLost(s) ==
    /\ s \in up
    /\ up' = up \ {s}
    /\ seen' = [seen EXCEPT ![s] = [a \in Attempts |-> "none"]]
    /\ UNCHANGED <<registryVars, taskVars, session, sending, mediaVars, shutdown>>

(* The receive loop sees the disconnect, or its scope is cancelled inside a    *)
(* handler: connection_closed is set and disconnect() begins.                  *)
BeginClose(s) ==
    /\ s \notin up
    /\ session[s].op \in Alive
    /\ Handle(s, [Idle EXCEPT !.op = "closing"])
    /\ UNCHANGED <<registryVars, wireVars, mediaVars, calmVars>>

Detach(s) ==
    /\ session[s].op = "closing"
    /\ active' = Detached(active, {s})
    /\ pending' = Detached(pending, {s})
    /\ Handle(s, [Idle EXCEPT !.op = "fence", !.todo = receipts[s]])
    /\ UNCHANGED <<heldVars, receipts, history, wireVars, mediaVars, calmVars>>

(* cancel_owner_and_join for the next receipt of the snapshot.                 *)
FenceOwned(s, r) ==
    /\ session[s].op = "fence" /\ r \in session[s].todo
    /\ IF IsCurrent(r)
         THEN /\ FenceActive
              /\ Handle(s, [op |-> IF r \in Finished THEN "fenceNotify" ELSE "fenceJoin",
                            id |-> active.id, on |-> ReserveCleanup(r),
                            subs |-> active.subs, todo |-> session[s].todo \ {r}])
         ELSE /\ Handle(s, [session[s] EXCEPT !.todo = @ \ {r}])
              /\ UNCHANGED <<registryVars, cancelled>>
    /\ UNCHANGED <<pc, sock, aid, on, outcome, notice, up, wireVars, mediaVars, shutdown>>

FenceJoined(s) ==
    /\ session[s].op = "fenceJoin"
    /\ session[s].on \in cleanupDone
    /\ Handle(s, Handling(s, "fenceNotify"))
    /\ UNCHANGED <<registryVars, wireVars, mediaVars, calmVars>>

FenceNotify(s) ==
    /\ session[s].op = "fenceNotify"
    /\ PublishTo(session[s].subs, session[s].id, "ended", active, pending)
    /\ Handle(s, [Idle EXCEPT !.op = "fence", !.todo = session[s].todo])
    /\ UNCHANGED <<heldVars, receipts, history, mediaVars, calmVars>>

(* The server cancels the scope while that publication is being sent: the rest *)
(* of disconnect() is skipped.                                                 *)
AbortDisconnect(s) ==
    /\ session[s].op = "fenceNotify" /\ session[s].subs # {}
    /\ PublishTo(session[s].subs, session[s].id, "ended", active, pending)
    /\ Handle(s, [Idle EXCEPT !.op = "aborted"])
    /\ UNCHANGED <<heldVars, receipts, history, mediaVars, calmVars>>

FenceDone(s) ==
    /\ session[s].op = "fence" /\ session[s].todo = {}
    /\ Handle(s, Handling(s, "gather"))
    /\ UNCHANGED <<registryVars, wireVars, mediaVars, calmVars>>

(* Slip: the grants are revoked without waiting for the tasks.                 *)
RevokeOwnedAtOnce(s) ==
    LET h == Prune(history)
        ids == OwnedCompleted(h, s)
    IN  /\ session[s].op = "gather"
        /\ history' = Revoke(h, ids)
        /\ RevokeMedia(ids)
        /\ Handle(s, [Idle EXCEPT !.op = "closed"])
        /\ UNCHANGED <<active, pending, heldVars, receipts, wireVars, calmVars>>

(* Every task of the connection has ended: its completed grants and their      *)
(* media are revoked.                                                          *)
RevokeOwned(s) ==
    LET h == Prune(history)
        ids == OwnedCompleted(h, s)
    IN  /\ session[s].op = "gather"
        /\ \A t \in Running : sock[t] # s
        /\ history' = Revoke(h, ids)
        /\ RevokeMedia(ids)
        /\ Handle(s, [Idle EXCEPT !.op = "closed"])
        /\ UNCHANGED <<active, pending, heldVars, receipts, wireVars, calmVars>>

-----------------------------------------------------------------------------
(* Clocks, cleanup and shutdown.                                               *)

(* Retention of the oldest live terminal elapses; the next gate section will   *)
(* prune it.  (300 s: no task that was woken for this attempt is still asleep.)*)
TerminalExpires(a) ==
    /\ a \in Expiring /\ a \in Retained(history) \ Expired(history)
    /\ \A b \in Retained(history) : <<b, a>> \in history.older => history.term[b].stale
    /\ \A t \in Tasks : pc[t] = "joined" => aid[t] # a
    /\ history' = [history EXCEPT !.term[a].stale = TRUE]
    /\ UNCHANGED <<active, pending, heldVars, receipts, session, wireVars, mediaVars,
                   calmVars>>

MediaExpires(a) ==
    /\ a \in Expiring /\ Completed(history, a)
    /\ captured[a] # None \/ snapshot[a] # None
    /\ RevokeMedia({a})
    /\ UNCHANGED <<registryVars, session, wireVars, calmVars>>

CleanupFinishes ==
    /\ FinishCleanup(Finished)
    /\ UNCHANGED <<session, wireVars, mediaVars, calmVars>>

(* on_shutdown runs once every connection scope has ended: captured frames are *)
(* cleared, and the registry fences the active attempt or drops the pending    *)
(* admission.                                                                  *)
BeginShutdown ==
    /\ shutdown.at = "up"
    /\ \A s \in Sockets : session[s].op \in {"closed", "aborted"}
    /\ captured' = [a \in Attempts |-> None]
    /\ \/ /\ active # None
          /\ Conclude(active, history, "canceled")
          /\ CancelTask(active.task)
          /\ shutdown' = [at |-> "draining", task |-> active.task, on |-> cleanup]
          /\ active' = None
          /\ UNCHANGED <<pending, heldVars>>
       \/ /\ active = None /\ pending # None
          /\ history' = Prune(Put(history, pending.id, Terminal("canceled", None)))
          /\ CancelTask(pending.task)
          /\ cleanup' = ReserveCleanup(pending.prior)
          /\ shutdown' = [at |-> "draining", task |-> pending.task,
                          on |-> ReserveCleanup(pending.prior)]
          /\ pending' = None
          /\ pendingDone' = pendingDone \cup {pending.task}
          /\ UNCHANGED <<active, cleanupDone, receipts>>
       \/ /\ active = None /\ pending = None
          /\ shutdown' = [at |-> "draining", task |-> None, on |-> cleanup]
          /\ UNCHANGED <<registryVars, cancelled>>
    /\ UNCHANGED <<pc, sock, aid, on, outcome, notice, session, up, wireVars, snapshot>>

EndShutdown ==
    /\ shutdown.at = "draining"
    /\ shutdown.on = None \/ shutdown.on \in cleanupDone
    /\ shutdown.task = None \/ shutdown.task \in Finished
    /\ shutdown' = [at |-> "down", task |-> None, on |-> None]
    /\ UNCHANGED <<registryVars, taskVars, session, up, wireVars, mediaVars>>

(* The service is down and every task has ended.                               *)
Terminated ==
    /\ shutdown.at = "down"
    /\ Running = {}
    /\ UNCHANGED vars

-----------------------------------------------------------------------------

Admission(t) ==
    \/ ReplayTerminal(t) \/ JoinActive(t) \/ SendLatest(t) \/ WaitForCleanup(t)
    \/ JoinPending(t) \/ WaitForPending(t) \/ Retry(t) \/ ResolveJoined(t)
    \/ Displace(t) \/ AnnounceDisplaced(t) \/ JoinPrior(t) \/ JoinTimeout(t)
    \/ JoinedCleanup(t) \/ AbandonAdmission(t) \/ AdmitFree(t) \/ Admit(t)

Work(t) ==
    \/ BeginAcquiring(t) \/ StartFails(t) \/ AcquisitionEnds(t) \/ Released(t)
    \/ Complete(t) \/ GenerationEnds(t) \/ WorkerJoined(t) \/ End(t)

(* What a receive loop does without a new message.                             *)
Progress(s) ==
    \/ JoinOrReject(s) \/ JoinOrRejectAgain(s) \/ ReplayLatest(s)
    \/ PublishCanceled(s) \/ EndAdjust(s)

Disconnect(s) ==
    \/ Detach(s) \/ (\E r \in Tasks : FenceOwned(s, r)) \/ FenceJoined(s)
    \/ FenceNotify(s) \/ AbortDisconnect(s) \/ FenceDone(s) \/ RevokeOwned(s)

Message(s, a) ==
    \/ \E t \in Tasks : Start(s, t, a)
    \/ Backpressure(s, a) \/ CancelAttempt(s, a) \/ LeaveRoute(s, a) \/ BeginAdjust(s, a)

Next ==
    \/ \E t \in Tasks : Admission(t) \/ Work(t) \/ PublishAcquiring(t)
    \/ \E s \in Sockets : \/ Progress(s) \/ Disconnect(s) \/ PeerLost(s)
                         \/ BeginClose(s) \/ PublicationEnds(s)
    \/ \E s \in Sockets, a \in Attempts : Message(s, a)
    \/ \E a \in Attempts : TerminalExpires(a) \/ MediaExpires(a)
    \/ CleanupFinishes \/ BeginShutdown \/ EndShutdown \/ Terminated

Spec == Init /\ [][Next]_vars

(* asyncio runs every ready coroutine; acquisition ends by its deadline and    *)
(* generation by its timeouts; receive_text() raises for a lost peer.  A task  *)
(* or a receive loop is at one point at a time, so one condition per process   *)
(* is enough.  No fairness is assumed of clients.                              *)
Fairness ==
    /\ \A t \in Tasks : WF_vars(Admission(t) \/ Work(t))
    /\ \A s \in Sockets : WF_vars(Progress(s) \/ Disconnect(s) \/ BeginClose(s))
    /\ WF_vars(CleanupFinishes \/ EndShutdown)

FairSpec == Spec /\ Fairness

-----------------------------------------------------------------------------
(* Safety.                                                                     *)

(* At most one task is anywhere between the start of the observation worker    *)
(* and the end of its cleanup, whatever replacement, cancel, disconnect and    *)
(* shutdown do ("there is never concurrent ownership of those resources",      *)
(* cancel_current).                                                            *)
SingleWorker == \A t, u \in Working : t = u

(* A task past its reservation still holds it and no terminal of its attempt   *)
(* is retained, unless shutdown cancelled the task: the branches of            *)
(* commit_prepared_admission for a lost reservation are unreachable.           *)
ReservationHeld ==
    \A t \in Tasks \ cancelled :
        pc[t] \in {"displacing", "join", "joinCleanup", "admit"} =>
            /\ pending # None /\ pending.task = t /\ pending.id = aid[t]
            /\ aid[t] \notin Retained(history)

(* An attempt has a retained terminal, or is active, or is pending, and never  *)
(* two of these.                                                               *)
OneStandingPerAttempt ==
    /\ active # None => active.id \notin Retained(history)
    /\ pending # None => pending.id \notin Retained(history)
    /\ active = None \/ pending = None

(* The capability in the result store and the terminal that advertises it come *)
(* and go together (the comment in _prune_unlocked: a duplicate must not       *)
(* receive a dead capability URL).                                             *)
GrantsMatchTerminals ==
    \A a \in Attempts :
        a \in history.results <=> Completed(history, a) /\ history.term[a].granted

(* The receipts a disconnect will fence are exactly the live attempt of that   *)
(* connection, so none is missed and none is stale.                            *)
ReceiptsMirrorActive ==
    \A s \in Sockets :
        receipts[s] = {t \in Tasks : IsCurrent(t) /\ active.owner = s}

(* An owner that is reachable and takes what it is sent in time stays          *)
(* subscribed to its live attempt, however many duplicates subscribe and       *)
(* however late the publications to slow subscribers are given up.             *)
OwnerStaysSubscribed ==
    active # None /\ active.owner \in up \ SlowPeers => active.owner \in active.subs

(* A finished task leaves a captured frame or an adjustment snapshot behind    *)
(* only for an attempt that completed (or was forgotten since).                *)
MediaOnlyOfCompleted ==
    \A a \in Attempts, t \in Finished :
        captured[a] = t \/ snapshot[a] = t =>
            a \notin Retained(history) \/ Completed(history, a)

(* Once disconnect() has returned, the connection owns no live attempt, no     *)
(* result grant and no retained source material.                               *)
DisconnectFences ==
    \A s \in Sockets : session[s].op = "closed" =>
        /\ active # None => active.owner # s
        /\ \A a \in history.results : history.term[a].owner # s
        /\ \A a \in Attempts, t \in Tasks :
              captured[a] = t \/ snapshot[a] = t => sock[t] # s

(* No task dies on "pending Try-On admission resolved without state".          *)
JoinersResolve == \A t \in Tasks : pc[t] # "lost"

(* After on_shutdown is past the registry, no task works and none ever will,   *)
(* not even a start that an aborted disconnect left behind.                    *)
ShutdownIsQuiet == shutdown.at = "down" => Working = {} /\ active = None

-----------------------------------------------------------------------------
(* The inductive invariant: why SingleWorker holds.  The slot (active, pending,*)
(* cleanup) always names the only task that may still work, until shutdown     *)
(* empties it; from then on nothing begins.                                    *)

Reserving == {t \in Tasks : pc[t] \in {"displacing", "join", "joinCleanup", "admit"}}

PastAdmission == WorkPCs \cup {"done", "unstarted", "lost"}

(* What a task or a handler needs to know about its own message.               *)
TasksKnowTheirStart ==
    \A t \in Tasks :
        /\ pc[t] # "idle" => sock[t] \in Sockets /\ aid[t] \in Attempts
        /\ pc[t] = "end" => outcome[t] \in {"failed", "canceled"}
        /\ pc[t] = "release" => outcome[t] # "none"
        /\ pc[t] = "stop" => outcome[t] \in {"failed", "canceled"}

HandlersKnowTheirAttempt ==
    \A s \in Sockets :
        session[s].op \in {"reject", "awaitCleanup", "awaitPending"} =>
            session[s].id \in Attempts

(* An active attempt excludes everybody else.                                  *)
ActiveExcludes ==
    active # None =>
        /\ pending = None /\ cleanup = None
        /\ pc[active.task] \in PastAdmission
        /\ Working \subseteq {active.task}

(* A reservation is held by the task that made it, and that task watches the   *)
(* only one that may still work.                                               *)
PendingExcludes ==
    pending # None =>
        LET t == pending.task
        IN  /\ active = None
            /\ t \in Reserving \ cancelled
            /\ pc[t] = "admit" => cleanup = None /\ Working = {}
            /\ pc[t] # "admit" =>
                  /\ on[t] \in Tasks /\ pending.prior = on[t]
                  /\ pc[on[t]] \in PastAdmission
                  /\ Working \subseteq {on[t]}
            /\ pc[t] \in {"displacing", "join"} => cleanup = None
            /\ pc[t] = "joinCleanup" => cleanup \in {None, on[t]}

(* Nobody believes in a reservation that is gone.                              *)
ReserversPend ==
    \A t \in Reserving \ cancelled :
        pending # None /\ pending.task = t /\ pending.id = aid[t]

CleanupExcludes ==
    cleanup # None =>
        /\ active = None
        /\ pc[cleanup] \in PastAdmission /\ cleanup \notin cleanupDone
        /\ Working \subseteq {cleanup}

SlotGuards ==
    /\ ActiveExcludes /\ PendingExcludes /\ ReserversPend /\ CleanupExcludes
    /\ active = None /\ pending = None /\ cleanup = None => Working = {}
    /\ \A t \in cancelled : pc[t] \in PastAdmission

SlotEmptied ==
    /\ active = None /\ pending = None
    /\ \A s \in Sockets : session[s].op \in {"closed", "aborted"}
    /\ Reserving \subseteq cancelled
    /\ Working \subseteq {shutdown.task, shutdown.on}
    /\ shutdown.at = "down" => Working = {}

SlotInv ==
    /\ TasksKnowTheirStart /\ HandlersKnowTheirAttempt
    /\ SingleWorker
    /\ cleanupDone \subseteq Finished
    /\ IF shutdown.at = "up" THEN SlotGuards ELSE SlotEmptied

(* The registry's slot, reservation and cleanup agree with the tasks that work *)
(* or wait, in every order of replacement, cancel, disconnect and shutdown.    *)
RegistryInv == TypeOK /\ SlotInv /\ ReservationHeld

-----------------------------------------------------------------------------
(* Action properties.                                                          *)

(* A retained terminal never changes its verdict or its owner, and a revoked   *)
(* result is not granted again: what a duplicate start is told of kind, owner  *)
(* and grant stays the same until the terminal is forgotten.                   *)
TerminalIsCanonical ==
    [][\A a \in (Retained(history) \ Expired(history)) \cap Retained(history') :
          /\ history.term[a].kind = history'.term[a].kind
          /\ history.term[a].owner = history'.term[a].owner
          /\ history'.term[a].granted => history.term[a].granted]_vars

(* After the terminal of an attempt a peer hears of its progress no more.  What *)
(* may still come is an answer under way: accepted to its owner, or the replay *)
(* to one who has just asked for it.                                           *)
ProgressPrecedesTerminal ==
    [][\A s \in up' \cap Observed, a \in Retained(history) \ Expired(history) :
          (seen[s][a] = "ended" /\ seen'[s][a] = "live") =>
             \/ session[s].op = "replay" /\ session[s].id = a
             \/ \E t \in Tasks : /\ sock[t] = s /\ aid[t] = a
                                  /\ pc[t] \in {"start", "replay"} /\ pc'[t] # pc[t]]_vars

-----------------------------------------------------------------------------
(* Liveness.                                                                   *)

(* Every spawned task ends and frees its slot (each task runs one start        *)
(* message, so again and again none is running): no admission waits for an     *)
(* event that nobody sets.                                                     *)
TasksEnd == []<>(Running = {})

(* Every accepted attempt reaches a terminal: the registry is free again and   *)
(* again.                                                                      *)
AttemptsEnd == []<>(active = None)

(* Every lost connection finishes its disconnect.                              *)
DisconnectEnds ==
    \A s \in Sockets : s \notin up ~> session[s].op \in {"closed", "aborted"}

(* Neither a task nor a disconnect waits for ever.                             *)
ProcessesEnd == TasksEnd /\ DisconnectEnds

-----------------------------------------------------------------------------
(* Refinement: an attempt is live while it is active and concluded while an    *)
(* unexpired terminal of it is retained.                                       *)

Stage(a) ==
    IF IsActive(a) THEN "live"
    ELSE IF a \in Retained(history) \ Expired(history) THEN history.term[a].kind
    ELSE "unknown"

(* The attempt whose task works; SingleWorker says there is at most one.       *)
Worker == IF Working = {} THEN None ELSE aid[CHOOSE t \in Working : TRUE]

Lifecycle == INSTANCE AttemptLifecycle WITH
    stage <- [a \in Attempts |-> Stage(a)],
    worker <- Worker

(* The service implements the abstract lifecycle: replacement, cancel,         *)
(* disconnect, backpressure and shutdown together never let an attempt begin   *)
(* before the previous one has let go of camera and renderer, never overwrite  *)
(* a verdict, and never complete an attempt that was not live.                 *)
ImplementsLifecycle == Lifecycle!Spec

=============================================================================
