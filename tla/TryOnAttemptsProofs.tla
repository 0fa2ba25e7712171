------------------------ MODULE TryOnAttemptsProofs ------------------------
(* What TryOnAttempts keeps for every set of attempts, connections and tasks   *)
(* and for every bound.                                                        *)
(*                                                                             *)
(* The first part is the invariant that everything rests on: SlotInv together  *)
(* with the types gives SingleWorker, ReservationHeld, OneStandingPerAttempt,  *)
(* ReceiptsMirrorActive and ShutdownIsQuiet.  Most actions leave the slot      *)
(* (active, pending, cleanup) and the tasks that compete for it as they are,   *)
(* which Frame states once.                                                    *)
(*                                                                             *)
(* The second part is what the service promises: the owner of a slot stays     *)
(* subscribed, results are granted exactly where terminals say so, the service *)
(* implements the abstract lifecycle, progress ends with the verdict, no       *)
(* joiner is left with nothing, media are of completed attempts, terminals are *)
(* canonical and a disconnect fences all that is its own.  The last four ask   *)
(* for room in the history, or for fewer clients.                              *)
EXTENDS TryOnAttempts, TLAPS, FiniteSetTheorems

-----------------------------------------------------------------------------
(* What the gate sections of TryOnRegistry do to the retained history, the     *)
(* subscribers and the receipts.                                               *)

Kinds == {"completed", "failed", "canceled"}

(* None stands apart from everything it can be confused with.                  *)
LEMMA NoneApart ==
    /\ None \notin Attempts /\ None \notin Sockets /\ None \notin Tasks
    /\ None \notin ActiveAttempt /\ None \notin PendingAdmission
    /\ None \notin TerminalAttempt
BY NoneAssumption DEF ActiveAttempt, PendingAdmission, TerminalAttempt

(* Forgetting keeps a well-formed history and retains nothing new.             *)
LEMMA ForgetLemma ==
    ASSUME NEW h \in History, NEW ids
    PROVE  /\ Forget(h, ids) \in History
           /\ Retained(Forget(h, ids)) \subseteq Retained(h)
           /\ \A a \in Retained(Forget(h, ids)) : Forget(h, ids).term[a] = h.term[a]
BY DEF Forget, History, Retained

(* Pruning keeps a well-formed history and retains nothing new.                *)
LEMMA PruneLemma ==
    ASSUME NEW h \in History
    PROVE  /\ Prune(h) \in History
           /\ Retained(Prune(h)) \subseteq Retained(h)
           /\ \A a \in Retained(Prune(h)) : Prune(h).term[a] = h.term[a]
BY ForgetLemma DEF Prune

(* A terminal is inserted for its attempt and for no other.                    *)
LEMMA PutLemma ==
    ASSUME NEW h \in History, NEW a \in Attempts, NEW t \in TerminalAttempt
    PROVE  /\ Put(h, a, t) \in History
           /\ Retained(Put(h, a, t)) = Retained(h) \cup {a}
           /\ Put(h, a, t).term[a] = t
           /\ \A b \in Attempts \ {a} : Put(h, a, t).term[b] = h.term[b]
<1>1. t # None
  BY NoneApart
<1>2. Put(h, a, t).term = [h.term EXCEPT ![a] = t]
  BY DEF Put, History
<1>3. Put(h, a, t).results = h.results
  BY DEF Put, History
<1>4. Put(h, a, t).older = {p \in h.older : p[1] # a /\ p[2] # a}
                               \cup ((Retained(h) \ {a}) \X {a})
  BY DEF Put, History
<1>6. Put(h, a, t).older \in SUBSET (Attempts \X Attempts)
  BY <1>4 DEF History, Retained
<1>7. Put(h, a, t).term \in [Attempts -> TerminalAttempt \cup {None}]
  BY <1>2 DEF History
<1>8. Put(h, a, t) \in History
  BY <1>4, <1>6, <1>2, <1>7 DEF History, Put
<1> QED
  BY <1>1, <1>2, <1>8 DEF History, Retained

(* A new grant retires other attempts only.                                    *)
LEMMA GrantLemma ==
    ASSUME NEW h \in History, NEW a \in Attempts
    PROVE  /\ Grant(h, a) \in History
           /\ Retained(Grant(h, a)) \subseteq Retained(h)
           /\ \A b \in Retained(Grant(h, a)) : Grant(h, a).term[b] = h.term[b]
           /\ Grant(h, a).term[a] = h.term[a]
<1> DEFINE room == Forget(h, Displaced(h, a) \ {a})
<1>1. /\ room \in History
      /\ Retained(room) \subseteq Retained(h)
      /\ \A b \in Retained(room) : room.term[b] = h.term[b]
  BY ForgetLemma
<1>2. room.term[a] = h.term[a]
  BY DEF Forget
<1>3. Grant(h, a) \in History /\ Grant(h, a).term = room.term
  BY <1>1 DEF Grant, History
<1> HIDE DEF room
<1> QED
  BY <1>1, <1>2, <1>3 DEF History, Retained

(* A concluded attempt adds its own terminal at most.                          *)
LEMMA ConcludedLemma ==
    ASSUME NEW h \in History, NEW a \in Attempts, NEW kind \in Kinds,
           NEW owner \in Sockets \cup {None}
    PROVE  /\ Concluded(h, a, kind, owner) \in History
           /\ Retained(Concluded(h, a, kind, owner)) \subseteq Retained(h) \cup {a}
<1>1. Terminal(kind, owner) \in TerminalAttempt
  BY DEF Terminal, TerminalAttempt, Kinds
<1> DEFINE room == IF kind = "completed" THEN Grant(h, a) ELSE h
<1>2. room \in History /\ Retained(room) \subseteq Retained(h)
  BY GrantLemma
<1>3. Concluded(h, a, kind, owner) = Prune(Put(room, a, Terminal(kind, owner)))
  BY DEF Concluded
<1> HIDE DEF room
<1>4. /\ Put(room, a, Terminal(kind, owner)) \in History
      /\ Retained(Put(room, a, Terminal(kind, owner))) = Retained(room) \cup {a}
  BY <1>1, <1>2, PutLemma
<1> QED
  BY <1>2, <1>3, <1>4, PruneLemma

(* A verdict without a result, given in one gate section with its pruning.     *)
LEMMA RefusedLemma ==
    ASSUME NEW h \in History, NEW a \in Attempts, NEW kind \in {"failed", "canceled"}
    PROVE  /\ Prune(Put(h, a, Terminal(kind, None))) \in History
           /\ Retained(Prune(Put(h, a, Terminal(kind, None))))
                 \subseteq Retained(h) \cup {a}
<1>1. Terminal(kind, None) \in TerminalAttempt
  BY DEF Terminal, TerminalAttempt
<1>2. /\ Put(h, a, Terminal(kind, None)) \in History
      /\ Retained(Put(h, a, Terminal(kind, None))) = Retained(h) \cup {a}
  BY <1>1, PutLemma
<1> QED
  BY <1>2, PruneLemma

(* Revoking grants changes no terminal's presence.                             *)
LEMMA RevokeLemma ==
    ASSUME NEW h \in History, NEW ids
    PROVE  Revoke(h, ids) \in History /\ Retained(Revoke(h, ids)) = Retained(h)
<1>1. Revoke(h, ids).term =
        [a \in Attempts |-> IF a \in ids /\ h.term[a] # None
                              THEN [h.term[a] EXCEPT !.granted = FALSE]
                              ELSE h.term[a]]
  BY DEF Revoke, History
<1>2. \A a \in Attempts :
        h.term[a] # None =>
          /\ [h.term[a] EXCEPT !.granted = FALSE] \in TerminalAttempt
          /\ [h.term[a] EXCEPT !.granted = FALSE] # None
  BY NoneApart DEF History, TerminalAttempt
<1>3. Revoke(h, ids) \in History
  BY <1>2 DEF Revoke, History
<1> QED
  BY <1>1, <1>2, <1>3 DEF History, Retained

(* An adjusted result stays with the terminal it belongs to.                   *)
LEMMA ReplaceLemma ==
    ASSUME NEW h \in History, NEW a \in Attempts, Completed(h, a)
    PROVE  Replace(h, a) \in History /\ Retained(Replace(h, a)) \subseteq Retained(h)
<1> DEFINE t == [h.term[a] EXCEPT !.granted = TRUE, !.stale = FALSE]
<1>1. a \in Retained(h) /\ t \in TerminalAttempt
  BY DEF Completed, Retained, History, TerminalAttempt
<1>2. Replace(h, a) = Put(Grant(h, a), a, t)
  BY DEF Replace
<1> HIDE DEF t
<1> QED
  BY <1>1, <1>2, GrantLemma, PutLemma

(* Subscribing somebody changes the subscribers and nothing else.              *)
LEMMA AttachedLemma ==
    ASSUME NEW x, NEW s \in Sockets, NEW y \in Attached(x, s)
    PROVE  /\ x \in ActiveAttempt =>
                /\ y \in ActiveAttempt
                /\ y.id = x.id /\ y.task = x.task /\ y.owner = x.owner
           /\ x \in PendingAdmission =>
                /\ y \in PendingAdmission
                /\ y.id = x.id /\ y.task = x.task /\ y.owner = x.owner
                /\ y.prior = x.prior
<1>1. y = x \/ \E subs : y = [x EXCEPT !.subs = subs] /\ subs \subseteq x.subs \cup {s}
  <2>1. CASE s \in x.subs \/ Cardinality(x.subs) < SubscriberMax
    BY <2>1 DEF Attached
  <2>2. CASE ~(s \in x.subs \/ Cardinality(x.subs) < SubscriberMax)
    BY <2>2 DEF Attached
  <2> QED
    BY <2>1, <2>2
<1> QED
  BY <1>1 DEF ActiveAttempt, PendingAdmission

(* Detaching keeps None, and else changes the subscribers only.                *)
LEMMA DetachedLemma ==
    ASSUME NEW x, NEW gone
    PROVE  /\ Detached(None, gone) = None
           /\ x \in ActiveAttempt =>
                /\ Detached(x, gone) \in ActiveAttempt
                /\ Detached(x, gone).id = x.id /\ Detached(x, gone).task = x.task
                /\ Detached(x, gone).owner = x.owner
           /\ x \in PendingAdmission =>
                /\ Detached(x, gone) \in PendingAdmission
                /\ Detached(x, gone).id = x.id /\ Detached(x, gone).task = x.task
                /\ Detached(x, gone).owner = x.owner
                /\ Detached(x, gone).prior = x.prior
BY NoneApart DEF Detached, ActiveAttempt, PendingAdmission

-----------------------------------------------------------------------------
(* The invariant.                                                              *)

Inductive == TypeOK /\ SlotInv /\ OneStandingPerAttempt /\ ReceiptsMirrorActive

USE DEF vars, registryVars, taskVars, wireVars, mediaVars, quietVars, calmVars, heldVars,
        SendDirect

(* The slot is as before but for subscribers and the latest observation.       *)
SameSlot ==
    /\ active' = None <=> active = None
    /\ active # None => /\ active'.id = active.id /\ active'.task = active.task
                        /\ active'.owner = active.owner
    /\ pending' = None <=> pending = None
    /\ pending # None => /\ pending'.id = pending.id /\ pending'.task = pending.task
                         /\ pending'.prior = pending.prior
    /\ UNCHANGED <<cleanup, cleanupDone, shutdown, receipts>>
    /\ \A a \in Retained(history') \ Retained(history) : ~IsActive(a) /\ ~IsPending(a)

(* Nobody enters or leaves a reservation, nobody begins to work, and nobody    *)
(* comes back.                                                                 *)
SameTasks ==
    /\ Reserving' = Reserving
    /\ \A t \in Reserving : pc'[t] = pc[t] /\ on'[t] = on[t] /\ aid'[t] = aid[t]
    /\ Working' \subseteq Working /\ Finished \subseteq Finished'
    /\ \A t \in Tasks : pc[t] \in PastAdmission => pc'[t] \in PastAdmission
    /\ cancelled' \subseteq cancelled /\ cancelled \cap Reserving \subseteq cancelled'

(* A closed connection stays closed.                                           *)
SameEnds ==
    \A s \in Sockets :
        session[s].op \in {"closed", "aborted"} =>
            session'[s].op \in {"closed", "aborted"}

Frame ==
    /\ SameSlot /\ SameTasks /\ SameEnds
    /\ TasksKnowTheirStart' /\ HandlersKnowTheirAttempt'

(* A step within the frame keeps the invariant.                                *)
LEMMA FrameLemma ==
    ASSUME Inductive, TypeOK', Frame
    PROVE  Inductive'
<1> USE DEF Inductive, Frame
<1>1. OneStandingPerAttempt'
  BY NoneApart DEF TypeOK, ActiveAttempt, PendingAdmission, OneStandingPerAttempt,
     SameSlot, IsActive, IsPending, Retained
<1>2. ReceiptsMirrorActive'
  BY DEF ReceiptsMirrorActive, SameSlot, IsCurrent
<1>3. SingleWorker'
  BY DEF SlotInv, SingleWorker, SameTasks
<1>4. (cleanupDone \subseteq Finished)'
  BY DEF SlotInv, SameSlot, SameTasks
<1>5. CASE shutdown.at = "up"
  <2>1. SlotGuards
    BY <1>5 DEF SlotInv
  <2>2. ActiveExcludes'
    BY <2>1, NoneApart DEF TypeOK, ActiveAttempt, SlotGuards, ActiveExcludes,
       SameSlot, SameTasks
  <2>3. PendingExcludes'
    BY <2>1, NoneApart DEF TypeOK, PendingAdmission, SlotGuards, PendingExcludes,
       SameSlot, SameTasks
  <2>4. ReserversPend'
    BY <2>1, NoneApart DEF SlotGuards, ReserversPend, SameSlot, SameTasks
  <2>5. CleanupExcludes'
    BY <2>1, NoneApart DEF TypeOK, SlotGuards, CleanupExcludes, SameSlot,
       SameTasks
  <2>6. SlotGuards'
    BY <2>1, <2>2, <2>3, <2>4, <2>5 DEF TypeOK, SlotGuards, SameSlot,
       SameTasks
  <2> QED
    BY <1>1, <1>2, <1>3, <1>4, <1>5, <2>6 DEF SlotInv, SameSlot
<1>6. CASE shutdown.at # "up"
  <2>1. SlotEmptied
    BY <1>6 DEF SlotInv
  <2>2. SlotEmptied'
    BY <2>1 DEF SlotEmptied, SameSlot, SameTasks, SameEnds
  <2> QED
    BY <1>1, <1>2, <1>3, <1>4, <1>6, <2>2 DEF SlotInv, SameSlot
<1> QED
  BY <1>5, <1>6

-----------------------------------------------------------------------------
(* What the shared parts of the actions do.                                    *)

(* A send is remembered as the last message of its kind.                       *)
LEMMA SeenLemma ==
    ASSUME TypeOK, NEW subs, NEW a, NEW kind \in {"live", "ended"}, Send(subs, a, kind)
    PROVE  seen' \in [Sockets -> [Attempts -> {"none", "live", "ended"}]]
BY DEF TypeOK, Send

(* A handler that moves on keeps its attempt.                                  *)
LEMMA HandlingLemma ==
    ASSUME TypeOK, NEW s \in Sockets, NEW op \in Handlers, NEW t \in Tasks \cup {None}
    PROVE  /\ Handling(s, op) \in Session
           /\ Handling(s, op).op = op /\ Handling(s, op).id = session[s].id
           /\ [Handling(s, op) EXCEPT !.on = t] \in Session
           /\ [Handling(s, op) EXCEPT !.on = t].op = op
           /\ [Handling(s, op) EXCEPT !.on = t].id = session[s].id
<1>0. session[s] \in Session
  BY DEF TypeOK
<1>1. \A y \in Session :
        /\ [y EXCEPT !.op = op] \in Session
        /\ [y EXCEPT !.op = op].op = op /\ [y EXCEPT !.op = op].id = y.id
  BY DEF Session
<1>2. \A y \in Session :
        /\ [y EXCEPT !.on = t] \in Session
        /\ [y EXCEPT !.on = t].op = y.op /\ [y EXCEPT !.on = t].id = y.id
  BY DEF Session
<1> QED
  BY <1>0, <1>1, <1>2 DEF Handling

(* A handler that goes on, its slots only narrowed by a publication, is typed. *)
LEMMA HandlerTypeLemma ==
    ASSUME TypeOK, NEW s \in Sockets, NEW y \in Session, Handle(s, y),
           active' \in ActiveAttempt \cup {None},
           pending' \in PendingAdmission \cup {None},
           seen' \in [Sockets -> [Attempts -> {"none", "live", "ended"}]],
           sending' \subseteq SlowPeers,
           UNCHANGED <<heldVars, receipts, history, mediaVars, calmVars>>
    PROVE  TypeOK'
<1>1. session' \in [Sockets -> Session]
  BY DEF TypeOK, Handle
<1> QED
  BY <1>1 DEF TypeOK

(* A publication to a set of connections detaches the dead ones.               *)
LEMMA PublishLemma ==
    ASSUME TypeOK, NEW subs, NEW a, PublishTo(subs, a, "ended", active, pending)
    PROVE  /\ seen' \in [Sockets -> [Attempts -> {"none", "live", "ended"}]]
           /\ sending' \subseteq SlowPeers
           /\ active' \in ActiveAttempt \cup {None}
           /\ pending' \in PendingAdmission \cup {None}
<1>1. active \in ActiveAttempt \cup {None} /\ pending \in PendingAdmission \cup {None}
  BY DEF TypeOK
<1>2. Send(subs, a, "ended")
  BY DEF PublishTo
<1> QED
  BY <1>1, <1>2, DetachedLemma, SeenLemma DEF PublishTo, TypeOK

(* The idle handlers a connection falls back to.                               *)
LEMMA FallBackLemma ==
    ASSUME TypeOK, NEW s \in Sockets
    PROVE  /\ Idle \in Session
           /\ [Idle EXCEPT !.op = "aborted"] \in Session
           /\ [Idle EXCEPT !.op = "fence", !.todo = receipts[s]] \in Session
           /\ [Idle EXCEPT !.op = "fence", !.todo = session[s].todo] \in Session
<1>1. receipts[s] \in SUBSET Tasks /\ session[s].todo \in SUBSET Tasks
  BY DEF TypeOK, Session
<1> QED
  BY <1>1 DEF Idle, Session, Handlers

(* publish_nonterminal and its publication leave the slot as it is.            *)
LEMMA ObservationLemma ==
    ASSUME TypeOK, NEW t \in Tasks, PublishObservation(t)
    PROVE  /\ seen' \in [Sockets -> [Attempts -> {"none", "live", "ended"}]]
           /\ sending' \subseteq SlowPeers
           /\ active' \in ActiveAttempt \cup {None}
           /\ pending' \in PendingAdmission \cup {None}
           /\ active' = None <=> active = None
           /\ active # None =>
                /\ active'.id = active.id /\ active'.task = active.task
                /\ active'.owner = active.owner
           /\ pending' = None <=> pending = None
           /\ pending # None =>
                /\ pending'.id = pending.id /\ pending'.task = pending.task
                /\ pending'.prior = pending.prior
<1>1. CASE IsCurrent(t)
  <2> DEFINE x == [active EXCEPT !.latest = TRUE]
  <2>1. /\ x \in ActiveAttempt
        /\ x.id = active.id /\ x.task = active.task /\ x.owner = active.owner
    BY <1>1 DEF TypeOK, IsCurrent, ActiveAttempt
  <2>2. /\ active' = Detached(x, active.subs \ up)
        /\ pending' = Detached(pending, active.subs \ up)
        /\ Send(active.subs, aid[t], "live")
        /\ sending' = sending \cup (active.subs \cap up \cap SlowPeers)
    BY <1>1 DEF PublishObservation, PublishTo
  <2> HIDE DEF x
  <2> QED
    BY <1>1, <2>1, <2>2, DetachedLemma, SeenLemma, NoneApart DEF TypeOK, IsCurrent
<1>2. CASE ~IsCurrent(t)
  BY <1>2 DEF PublishObservation, TypeOK
<1> QED
  BY <1>1, <1>2

(* A terminal of the active attempt adds one retained attempt at most and drops*)
(* its receipt.                                                                *)
LEMMA ConcludeLemma ==
    ASSUME TypeOK, active # None, NEW h \in History, NEW kind \in Kinds,
           Conclude(active, h, kind)
    PROVE  /\ history' \in History
           /\ Retained(history') \subseteq Retained(h) \cup {active.id}
           /\ receipts' \in [Sockets -> SUBSET Tasks]
           /\ receipts' = [receipts EXCEPT ![active.owner] = @ \ {active.task}]
<1>1. active.id \in Attempts /\ active.owner \in Sockets /\ active.task \in Tasks
  BY DEF TypeOK, ActiveAttempt
<1> QED
  BY <1>1, ConcludedLemma DEF TypeOK, Conclude, DiscardReceipt

(* Revoked media are gone; nothing else changes.                               *)
LEMMA RevokeMediaLemma ==
    ASSUME TypeOK, NEW ids, RevokeMedia(ids)
    PROVE  /\ captured' \in [Attempts -> Tasks \cup {None}]
           /\ snapshot' \in [Attempts -> Tasks \cup {None}]
BY DEF TypeOK, RevokeMedia, Revoked

(* Fencing empties the slot.                                                   *)
LEMMA FenceActiveLemma ==
    ASSUME TypeOK, active # None, FenceActive
    PROVE  /\ active' = None /\ pending' = pending
           /\ cleanup' \in Tasks \cup {None} /\ cancelled' \subseteq Tasks
           /\ UNCHANGED <<pendingDone, cleanupDone>>
           /\ history' \in History
           /\ Retained(history') \subseteq Retained(history) \cup {active.id}
           /\ receipts' \in [Sockets -> SUBSET Tasks]
           /\ receipts' = [receipts EXCEPT ![active.owner] = @ \ {active.task}]
<1>1. active.task \in Tasks
  BY DEF TypeOK, ActiveAttempt
<1> QED
  BY <1>1, ConcludeLemma DEF FenceActive, CancelTask, ReserveCleanup, TypeOK, Kinds

-----------------------------------------------------------------------------
(* The steps within the frame.                                                 *)

USE DEF Frame, SameSlot, SameTasks, SameEnds
USE DEF SlotInv, SlotGuards, ActiveExcludes, PendingExcludes, ReserversPend,
        CleanupExcludes, SlotEmptied, SingleWorker, TasksKnowTheirStart,
        HandlersKnowTheirAttempt
USE DEF Working, WorkPCs, Reserving, PastAdmission, Finished

(* A task that asks for admission, or learns what became of it.                *)
LEMMA AskingStep ==
    ASSUME Inductive, NEW t \in Tasks,
           ReplayTerminal(t) \/ JoinActive(t) \/ SendLatest(t) \/
           WaitForCleanup(t) \/ JoinPending(t) \/ WaitForPending(t) \/ Retry(t)
           \/ ResolveJoined(t)
    PROVE  Inductive'
<1>1. CASE ReplayTerminal(t)
  <2>1. TypeOK'
    BY <1>1, PruneLemma DEF Inductive, TypeOK, PCs, ReplayTerminal, Send, Goto
  <2>2. Frame
    BY <1>1, PruneLemma DEF Inductive, TypeOK, ReplayTerminal, Goto
  <2> QED
    BY <2>1, <2>2, FrameLemma
<1>2. CASE JoinActive(t)
  <2>1. TypeOK'
    BY <1>2, PruneLemma, AttachedLemma DEF Inductive, TypeOK, PCs, JoinActive,
       Send, Goto, IsActive, SlotInv, TasksKnowTheirStart
  <2>2. Frame
    BY <1>2, PruneLemma, AttachedLemma, NoneApart DEF Inductive, TypeOK,
       JoinActive, Goto, IsActive
  <2> QED
    BY <2>1, <2>2, FrameLemma
<1>3. CASE SendLatest(t)
  <2>1. TypeOK'
    BY <1>3 DEF Inductive, TypeOK, PCs, SendLatest, Send, Goto
  <2>2. Frame
    BY <1>3 DEF Inductive, TypeOK, SendLatest, Goto
  <2> QED
    BY <2>1, <2>2, FrameLemma
<1>4. CASE WaitForCleanup(t)
  <2>1. TypeOK'
    BY <1>4, PruneLemma DEF Inductive, TypeOK, PCs, WaitForCleanup, WaitFor,
       Goto
  <2>2. Frame
    BY <1>4, PruneLemma DEF Inductive, TypeOK, WaitForCleanup, WaitFor, Goto,
       Unresolved
  <2> QED
    BY <2>1, <2>2, FrameLemma
<1>5. CASE JoinPending(t)
  <2>1. TypeOK'
    BY <1>5, PruneLemma, AttachedLemma DEF Inductive, TypeOK, PCs, JoinPending,
       WaitFor, Goto, IsPending, Unresolved, SlotInv, TasksKnowTheirStart,
       PendingAdmission
  <2>2. Frame
    BY <1>5, PruneLemma, AttachedLemma, NoneApart DEF Inductive, TypeOK,
       JoinPending, WaitFor, Goto, IsPending, Unresolved
  <2> QED
    BY <2>1, <2>2, FrameLemma
<1>6. CASE WaitForPending(t)
  <2>1. TypeOK'
    BY <1>6, PruneLemma DEF Inductive, TypeOK, PCs, WaitForPending, WaitFor,
       Goto, PendingAdmission
  <2>2. Frame
    BY <1>6, PruneLemma DEF Inductive, TypeOK, WaitForPending, WaitFor, Goto,
       Unresolved
  <2> QED
    BY <2>1, <2>2, FrameLemma
<1>7. CASE Retry(t)
  <2>1. TypeOK'
    BY <1>7 DEF Inductive, TypeOK, PCs, Retry, WaitFor, Goto
  <2>2. Frame
    BY <1>7 DEF Inductive, TypeOK, Retry, WaitFor, Goto
  <2> QED
    BY <2>1, <2>2, FrameLemma
<1>8. CASE ResolveJoined(t)
  <2>1. history' \in History /\ Retained(history') \subseteq Retained(history)
    BY <1>8, PruneLemma DEF ResolveJoined, Inductive, TypeOK
  <2>2. seen' \in [Sockets -> [Attempts -> {"none", "live", "ended"}]] /\ sending' = sending
    BY <1>8, SeenLemma DEF ResolveJoined, Silent, Inductive, TypeOK
  <2>3. pc' \in [Tasks -> PCs] /\ on' \in [Tasks -> Tasks \cup {None}]
    BY <1>8 DEF ResolveJoined, WaitFor, Goto, PCs, Inductive, TypeOK
  <2>4. TypeOK'
    BY <1>8, <2>1, <2>2, <2>3 DEF ResolveJoined, Inductive, TypeOK
  <2>5. Frame
    BY <1>8, <2>1 DEF ResolveJoined, WaitFor, Goto, Inductive, TypeOK
  <2> QED
    BY <2>4, <2>5, FrameLemma
<1> QED
  BY <1>1, <1>2, <1>3, <1>4, <1>5, <1>6, <1>7, <1>8

(* A working task that goes on or winds down.                                  *)
LEMMA WorkingStep ==
    ASSUME Inductive, NEW t \in Tasks,
           BeginAcquiring(t) \/ StartFails(t) \/ PublishAcquiring(t) \/
           AcquisitionEnds(t) \/ Released(t) \/ GenerationEnds(t) \/
           WorkerJoined(t)
    PROVE  Inductive'
<1>1. CASE BeginAcquiring(t)
  <2>1. TypeOK'
    BY ZenonT(40), <1>1 DEF Inductive, TypeOK, PCs, BeginAcquiring, Goto, Send
  <2>2. Frame
    BY <1>1 DEF Inductive, TypeOK, BeginAcquiring, Goto
  <2> QED
    BY <2>1, <2>2, FrameLemma
<1>2. CASE StartFails(t)
  <2>1. TypeOK'
    <3>1. pc' \in [Tasks -> PCs] /\ cancelled' \subseteq Tasks
      BY <1>2 DEF Inductive, TypeOK, PCs, StartFails, Goto
    <3> QED
      BY <1>2, <3>1 DEF Inductive, TypeOK, StartFails
  <2>2. Frame
    BY <1>2 DEF Inductive, TypeOK, StartFails, Goto
  <2> QED
    BY <2>1, <2>2, FrameLemma
<1>3. CASE PublishAcquiring(t)
  <2>1. PublishObservation(t)
    BY <1>3 DEF PublishAcquiring
  <2>2. TypeOK'
    BY <1>3, <2>1, ObservationLemma DEF PublishAcquiring, Inductive, TypeOK
  <2>3. Frame
    BY <1>3, <2>1, ObservationLemma DEF PublishAcquiring, Inductive, TypeOK
  <2> QED
    BY <2>2, <2>3, FrameLemma
<1>4. CASE AcquisitionEnds(t)
  <2>1. TypeOK'
    BY <1>4 DEF Inductive, TypeOK, PCs, AcquisitionEnds, Goto
  <2>2. Frame
    BY <1>4 DEF Inductive, TypeOK, AcquisitionEnds, Goto
  <2> QED
    BY <2>1, <2>2, FrameLemma
<1>5. CASE Released(t)
  <2>1. CASE PublishObservation(t)
    <3>1. captured' \in [Attempts -> Tasks \cup {None}]
      BY <1>5 DEF Released, Inductive, TypeOK
    <3>2. outcome' \in [Tasks -> {"none", "captured", "failed", "canceled"}]
      BY <1>5 DEF Released, Inductive, TypeOK
    <3>3. pc' \in [Tasks -> PCs] /\ cancelled' \subseteq Tasks
      BY <1>5 DEF Released, Goto, PCs, Inductive, TypeOK
    <3>4. TypeOK'
      BY <1>5, <2>1, <3>1, <3>2, <3>3, ObservationLemma
         DEF Released, Inductive, TypeOK
    <3>5. Frame
      BY <1>5, <2>1, ObservationLemma DEF Released, Goto, Inductive, TypeOK
    <3> QED
      BY <3>4, <3>5, FrameLemma
  <2>2. CASE ~PublishObservation(t)
    <3>1. outcome' = [outcome EXCEPT ![t] = IF @ = "captured" THEN "canceled" ELSE @]
      BY <1>5, <2>2 DEF Released
    <3>2. outcome' \in [Tasks -> {"none", "captured", "failed", "canceled"}]
      BY <3>1 DEF Inductive, TypeOK
    <3>3. pc' \in [Tasks -> PCs]
      BY <1>5, <2>2 DEF Released, Goto, PCs, Inductive, TypeOK
    <3>4. TypeOK'
      BY <1>5, <2>2, <3>2, <3>3 DEF Released, Inductive, TypeOK
    <3>5. Frame
      BY <1>5, <2>2 DEF Released, Goto, Inductive, TypeOK
    <3> QED
      BY <3>4, <3>5, FrameLemma
  <2> QED
    BY <2>1, <2>2
<1>6. CASE GenerationEnds(t)
  <2>1. TypeOK'
    BY <1>6 DEF Inductive, TypeOK, PCs, GenerationEnds, Goto
  <2>2. Frame
    BY <1>6 DEF Inductive, TypeOK, GenerationEnds, Goto
  <2> QED
    BY <2>1, <2>2, FrameLemma
<1>7. CASE WorkerJoined(t)
  <2>1. TypeOK'
    BY <1>7 DEF Inductive, TypeOK, PCs, WorkerJoined, Goto
  <2>2. Frame
    BY <1>7 DEF Inductive, TypeOK, WorkerJoined, Goto
  <2> QED
    BY <2>1, <2>2, FrameLemma
<1> QED
  BY <1>1, <1>2, <1>3, <1>4, <1>5, <1>6, <1>7

(* A receive loop that goes on with the message it is handling.                *)
LEMMA AnsweringStep ==
    ASSUME Inductive, NEW s \in Sockets,
           JoinOrReject(s) \/ JoinOrRejectAgain(s) \/ ReplayLatest(s)
           \/ PublishCanceled(s) \/ EndAdjust(s)
    PROVE  Inductive'
<1>1. CASE JoinOrReject(s)
  <2> DEFINE h == Prune(history)
  <2> DEFINE x == session[s].id
  <2>1. h \in History /\ Retained(h) \subseteq Retained(history)
    BY PruneLemma DEF Inductive, TypeOK
  <2>2. x \in Attempts /\ session[s].op = "reject"
    BY <1>1 DEF JoinOrReject, Inductive
  <2>3. /\ history' \in History
        /\ \A b \in Retained(history') \ Retained(history) :
              ~IsActive(b) /\ ~IsPending(b)
    BY <1>1, <2>1, <2>2, RefusedLemma DEF JoinOrReject
  <2>4. active' = active \/ (active' \in Attached(active, s) /\ active # None)
    BY <1>1 DEF JoinOrReject, IsActive
  <2>5. pending' = pending \/ (pending' \in Attached(pending, s) /\ pending # None)
    BY <1>1 DEF JoinOrReject, IsPending
  <2>6. seen' \in [Sockets -> [Attempts -> {"none", "live", "ended"}]] /\ sending' = sending
    BY <1>1, <2>2, SeenLemma DEF JoinOrReject, Inductive, TypeOK
  <2>7. \E y \in Session :
           /\ session' = [session EXCEPT ![s] = y]
           /\ y.op \in Alive /\ (y.op # "open" => y.id = x)
    <3> DEFINE Goes(y) == session' = [session EXCEPT ![s] = y]
    <3>1. Idle \in Session /\ Idle.op = "open"
      BY DEF Idle, Session, Handlers
    <3>2. /\ Handling(s, "replay") \in Session
          /\ Handling(s, "replay").op = "replay" /\ Handling(s, "replay").id = x
      <4>1. "replay" \in Handlers
        BY DEF Handlers
      <4>2. TypeOK
        BY DEF Inductive
      <4> QED
        BY <4>1, <4>2, HandlingLemma
    <3> DEFINE Waits(y, op) == y \in Session /\ y.op = op /\ y.id = x
    <3>3. ASSUME NEW u \in Tasks \cup {None}
          PROVE  /\ Waits([Handling(s, "awaitPending") EXCEPT !.on = u], "awaitPending")
                 /\ Waits([Handling(s, "awaitCleanup") EXCEPT !.on = u], "awaitCleanup")
      <4>1. "awaitPending" \in Handlers /\ "awaitCleanup" \in Handlers
        BY DEF Handlers
      <4> QED
        BY <4>1, HandlingLemma DEF Inductive
    <3>4. \/ Goes(Idle)
          \/ Goes(Handling(s, "replay"))
          \/ /\ pending # None
             /\ Goes([Handling(s, "awaitPending") EXCEPT !.on = pending.task])
          \/ Goes([Handling(s, "awaitCleanup") EXCEPT !.on = cleanup])
      BY <1>1 DEF JoinOrReject, Handle, IsPending
    <3>5. cleanup \in Tasks \cup {None} /\ (pending # None => pending.task \in Tasks)
      BY DEF Inductive, TypeOK, PendingAdmission
    <3> QED
      BY <3>1, <3>2, <3>3, <3>4, <3>5 DEF Alive
  <2>8. UNCHANGED <<heldVars, receipts, mediaVars, calmVars>>
    BY <1>1 DEF JoinOrReject
  <2> HIDE DEF h, x
  <2>9. TypeOK'
    BY <2>3, <2>4, <2>5, <2>6, <2>7, <2>8, AttachedLemma DEF Inductive, TypeOK
  <2>10. Frame
    BY <2>2, <2>3, <2>4, <2>5, <2>7, <2>8, AttachedLemma, NoneApart
       DEF Alive, Inductive, TypeOK
  <2> QED
    BY <2>9, <2>10, FrameLemma
<1>2. CASE JoinOrRejectAgain(s)
  <2>1. TypeOK'
    <3>1. "reject" \in Handlers /\ TypeOK
      BY DEF Handlers, Inductive
    <3>2. [Handling(s, "reject") EXCEPT !.on = None] \in Session
      BY <3>1, HandlingLemma
    <3>3. /\ Handle(s, [Handling(s, "reject") EXCEPT !.on = None])
          /\ UNCHANGED <<registryVars, wireVars, mediaVars, calmVars>>
      BY <1>2 DEF JoinOrRejectAgain
    <3> QED
      BY <3>1, <3>2, <3>3, HandlerTypeLemma DEF TypeOK
  <2>2. Frame
    BY <1>2 DEF Inductive, TypeOK, JoinOrRejectAgain, Handle, Handling, Session
  <2> QED
    BY <2>1, <2>2, FrameLemma
<1>3. CASE ReplayLatest(s)
  <2>1. TypeOK'
    BY <1>3 DEF Inductive, TypeOK, Handlers, Session, ReplayLatest, Handle,
       Idle, Send
  <2>2. Frame
    BY <1>3 DEF Inductive, TypeOK, ReplayLatest, Handle, Idle
  <2> QED
    BY <2>1, <2>2, FrameLemma
<1>4. CASE PublishCanceled(s)
  <2>1. TypeOK'
    <3>1. TypeOK
      BY DEF Inductive
    <3>2. /\ PublishTo(session[s].subs, session[s].id, "ended", active, pending)
          /\ Handle(s, Idle)
          /\ UNCHANGED <<heldVars, receipts, history, mediaVars, calmVars>>
      BY <1>4 DEF PublishCanceled
    <3> QED
      BY <3>1, <3>2, PublishLemma, FallBackLemma, HandlerTypeLemma
  <2>2. Frame
    BY <1>4, DetachedLemma, NoneApart DEF Inductive, TypeOK, PublishCanceled,
       Handle, Idle, PublishTo
  <2> QED
    BY <2>1, <2>2, FrameLemma
<1>5. CASE EndAdjust(s)
  <2> DEFINE h == Prune(history)
  <2>1. \/ history' = history
        \/ history' = h
        \/ history' = Replace(h, session[s].id) /\ Completed(h, session[s].id)
    BY <1>5 DEF EndAdjust
  <2>2. Completed(h, session[s].id) => session[s].id \in Attempts
    BY DEF Completed, Retained
  <2>3. h \in History /\ Retained(h) \subseteq Retained(history)
    BY PruneLemma DEF Inductive, TypeOK
  <2> HIDE DEF h
  <2>4. history' \in History /\ Retained(history') \subseteq Retained(history)
    BY <2>1, <2>2, <2>3, ReplaceLemma DEF Inductive, TypeOK
  <2>5. TypeOK'
    BY <1>5, <2>4 DEF EndAdjust, Handle, Idle, Handlers, Session, Inductive, TypeOK
  <2>6. Frame
    BY <1>5, <2>4 DEF EndAdjust, Handle, Idle, Inductive, TypeOK
  <2> QED
    BY <2>5, <2>6, FrameLemma
<1> QED
  BY <1>1, <1>2, <1>3, <1>4, <1>5

(* A message that takes the slot from nobody.                                  *)
LEMMA MessageStep ==
    ASSUME Inductive, NEW s \in Sockets, NEW a \in Attempts,
           (\E t \in Tasks : Start(s, t, a)) \/ Backpressure(s, a)
           \/ LeaveRoute(s, a) \/ BeginAdjust(s, a)
    PROVE  Inductive'
<1>1. ASSUME NEW t \in Tasks, Start(s, t, a)
      PROVE  Inductive'
  <2>1. TypeOK'
    BY <1>1 DEF Inductive, TypeOK, Start, Goto, PCs
  <2>2. Frame
    BY <1>1 DEF Inductive, TypeOK, Start, Goto
  <2> QED
    BY <2>1, <2>2, FrameLemma
<1>2. CASE Backpressure(s, a)
  <2>1. TypeOK'
    BY <1>2 DEF Inductive, TypeOK, Handlers, Session, Backpressure, Handle,
       Idle
  <2>2. Frame
    BY <1>2 DEF Inductive, TypeOK, Backpressure, Handle, Idle
  <2> QED
    BY <2>1, <2>2, FrameLemma
<1>3. CASE LeaveRoute(s, a)
  <2>1. TypeOK'
    BY <1>3, PruneLemma, RevokeLemma DEF Inductive, TypeOK, LeaveRoute,
       RevokeMedia, Revoked
  <2>2. Frame
    BY <1>3, PruneLemma, RevokeLemma DEF Inductive, TypeOK, LeaveRoute
  <2> QED
    BY <2>1, <2>2, FrameLemma
<1>4. CASE BeginAdjust(s, a)
  <2>1. TypeOK'
    BY <1>4 DEF Inductive, TypeOK, Handlers, Session, BeginAdjust, Handle, Idle
  <2>2. Frame
    BY <1>4 DEF Inductive, TypeOK, BeginAdjust, Handle, Idle
  <2> QED
    BY <2>1, <2>2, FrameLemma
<1> QED
  BY <1>1, <1>2, <1>3, <1>4

(* A connection on its way out.                                                *)
LEMMA LeavingStep ==
    ASSUME Inductive, NEW s \in Sockets,
           PeerLost(s) \/ BeginClose(s) \/ Detach(s) \/ FenceJoined(s) \/
           FenceNotify(s) \/ AbortDisconnect(s) \/ FenceDone(s) \/
           RevokeOwned(s) \/ PublicationEnds(s)
    PROVE  Inductive'
<1>1. CASE PeerLost(s)
  <2>1. TypeOK'
    BY <1>1 DEF Inductive, TypeOK, PeerLost
  <2>2. Frame
    BY <1>1 DEF Inductive, TypeOK, PeerLost
  <2> QED
    BY <2>1, <2>2, FrameLemma
<1>2. CASE BeginClose(s)
  <2>1. TypeOK'
    BY <1>2 DEF Inductive, TypeOK, Handlers, Session, BeginClose, Handle, Idle,
       Alive
  <2>2. Frame
    BY <1>2 DEF Inductive, TypeOK, BeginClose, Handle, Idle, Alive
  <2> QED
    BY <2>1, <2>2, FrameLemma
<1>3. CASE Detach(s)
  <2>1. TypeOK'
    <3>1. TypeOK
      BY DEF Inductive
    <3>2. active' = Detached(active, {s}) /\ pending' = Detached(pending, {s})
      BY <1>3 DEF Detach
    <3>3. /\ active' \in ActiveAttempt \cup {None}
          /\ pending' \in PendingAdmission \cup {None}
      BY <3>1, <3>2, DetachedLemma DEF TypeOK
    <3>4. /\ Handle(s, [Idle EXCEPT !.op = "fence", !.todo = receipts[s]])
          /\ UNCHANGED <<heldVars, receipts, history, wireVars, mediaVars, calmVars>>
      BY <1>3 DEF Detach
    <3> QED
      BY <3>1, <3>3, <3>4, FallBackLemma, HandlerTypeLemma DEF TypeOK
  <2>2. Frame
    BY <1>3, DetachedLemma, NoneApart DEF Inductive, TypeOK, Detach, Handle,
       Idle
  <2> QED
    BY <2>1, <2>2, FrameLemma
<1>4. CASE FenceJoined(s)
  <2>1. TypeOK'
    <3>1. "fenceNotify" \in Handlers /\ TypeOK
      BY DEF Handlers, Inductive
    <3>2. Handling(s, "fenceNotify") \in Session
      BY <3>1, HandlingLemma
    <3>3. /\ Handle(s, Handling(s, "fenceNotify"))
          /\ UNCHANGED <<registryVars, wireVars, mediaVars, calmVars>>
      BY <1>4 DEF FenceJoined
    <3> QED
      BY <3>1, <3>2, <3>3, HandlerTypeLemma DEF TypeOK
  <2>2. Frame
    BY <1>4 DEF Inductive, TypeOK, FenceJoined, Handle, Handling
  <2> QED
    BY <2>1, <2>2, FrameLemma
<1>5. CASE FenceNotify(s)
  <2>1. TypeOK'
    <3>1. TypeOK
      BY DEF Inductive
    <3>2. /\ PublishTo(session[s].subs, session[s].id, "ended", active, pending)
          /\ Handle(s, [Idle EXCEPT !.op = "fence", !.todo = session[s].todo])
          /\ UNCHANGED <<heldVars, receipts, history, mediaVars, calmVars>>
      BY <1>5 DEF FenceNotify
    <3> QED
      BY <3>1, <3>2, PublishLemma, FallBackLemma, HandlerTypeLemma
  <2>2. Frame
    BY <1>5, DetachedLemma, NoneApart DEF Inductive, TypeOK, FenceNotify,
       Handle, Idle, PublishTo
  <2> QED
    BY <2>1, <2>2, FrameLemma
<1>6. CASE AbortDisconnect(s)
  <2>1. TypeOK'
    <3>1. TypeOK
      BY DEF Inductive
    <3>2. /\ PublishTo(session[s].subs, session[s].id, "ended", active, pending)
          /\ Handle(s, [Idle EXCEPT !.op = "aborted"])
          /\ UNCHANGED <<heldVars, receipts, history, mediaVars, calmVars>>
      BY <1>6 DEF AbortDisconnect
    <3> QED
      BY <3>1, <3>2, PublishLemma, FallBackLemma, HandlerTypeLemma
  <2>2. Frame
    BY <1>6, DetachedLemma, NoneApart DEF Inductive, TypeOK, AbortDisconnect,
       Handle, Idle, PublishTo
  <2> QED
    BY <2>1, <2>2, FrameLemma
<1>7. CASE FenceDone(s)
  <2>1. TypeOK'
    <3>1. "gather" \in Handlers /\ TypeOK
      BY DEF Handlers, Inductive
    <3>2. Handling(s, "gather") \in Session
      BY <3>1, HandlingLemma
    <3>3. /\ Handle(s, Handling(s, "gather"))
          /\ UNCHANGED <<registryVars, wireVars, mediaVars, calmVars>>
      BY <1>7 DEF FenceDone
    <3> QED
      BY <3>1, <3>2, <3>3, HandlerTypeLemma DEF TypeOK
  <2>2. Frame
    BY <1>7 DEF Inductive, TypeOK, FenceDone, Handle, Handling
  <2> QED
    BY <2>1, <2>2, FrameLemma
<1>8. CASE RevokeOwned(s)
  <2>1. TypeOK'
    BY <1>8, PruneLemma, RevokeLemma DEF Inductive, TypeOK, Handlers, Session,
       RevokeOwned, Handle, Idle, RevokeMedia, Revoked
  <2>2. Frame
    BY <1>8, PruneLemma, RevokeLemma DEF Inductive, TypeOK, RevokeOwned,
       Handle, Idle
  <2> QED
    BY <2>1, <2>2, FrameLemma
<1>9. CASE PublicationEnds(s)
  <2>1. TypeOK'
    BY <1>9, DetachedLemma DEF Inductive, TypeOK, PublicationEnds
  <2>2. Frame
    BY <1>9, DetachedLemma, NoneApart DEF Inductive, TypeOK, PublicationEnds
  <2> QED
    BY <2>1, <2>2, FrameLemma
<1> QED
  BY <1>1, <1>2, <1>3, <1>4, <1>5, <1>6, <1>7, <1>8, <1>9

(* Retention elapses, or nothing happens.                                      *)
LEMMA ClockStep ==
    ASSUME Inductive,
           (\E a \in Attempts : TerminalExpires(a) \/ MediaExpires(a)) \/ UNCHANGED vars
    PROVE  Inductive'
<1>1. ASSUME NEW a \in Attempts, TerminalExpires(a)
      PROVE  Inductive'
  <2>1. history.term[a] \in TerminalAttempt
    BY <1>1 DEF TerminalExpires, Retained, History, Inductive, TypeOK
  <2>2. history' \in History /\ Retained(history') = Retained(history)
    <3>1. \A y \in TerminalAttempt : [y EXCEPT !.stale = TRUE] \in TerminalAttempt
      BY DEF TerminalAttempt
    <3>2. /\ history' = [history EXCEPT !.term =
                            [history.term EXCEPT ![a] = [@ EXCEPT !.stale = TRUE]]]
          /\ history.term[a] # None
      BY <1>1 DEF TerminalExpires, Retained
    <3>3. [history.term EXCEPT ![a] = [@ EXCEPT !.stale = TRUE]]
             \in [Attempts -> TerminalAttempt \cup {None}]
      BY <2>1, <3>1 DEF History, Inductive, TypeOK
    <3>4. history' \in History
      BY <3>2, <3>3 DEF History, Inductive, TypeOK
    <3>5. \A b \in Attempts : history'.term[b] = None <=> history.term[b] = None
      BY <2>1, <3>1, <3>2, NoneApart DEF History, Inductive, TypeOK
    <3> QED
      BY <3>4, <3>5 DEF Retained
  <2>3. TypeOK'
    BY <1>1, <2>2 DEF TerminalExpires, Inductive, TypeOK
  <2>4. Frame
    BY <1>1, <2>2 DEF TerminalExpires, Inductive, TypeOK
  <2> QED
    BY <2>3, <2>4, FrameLemma
<1>2. ASSUME NEW a \in Attempts, MediaExpires(a)
      PROVE  Inductive'
  <2>1. TypeOK'
    BY <1>2, RevokeMediaLemma DEF Inductive, TypeOK, MediaExpires
  <2>2. Frame
    BY <1>2 DEF Inductive, TypeOK, MediaExpires
  <2> QED
    BY <2>1, <2>2, FrameLemma
<1>3. CASE UNCHANGED vars
  <2>1. TypeOK'
    BY <1>3 DEF Inductive, TypeOK
  <2>2. Frame
    BY <1>3 DEF Inductive, TypeOK
  <2> QED
    BY <2>1, <2>2, FrameLemma
<1> QED
  BY <1>1, <1>2, <1>3

-----------------------------------------------------------------------------
(* The steps that hand the slot on.                                            *)

(* The owner of the slot is displaced by a reservation.                        *)
LEMMA DisplaceStep ==
    ASSUME Inductive, NEW t \in Tasks, Displace(t)
    PROVE  Inductive'
<1> DEFINE h == Prune(history)
<1>1. h \in History /\ Retained(h) \subseteq Retained(history)
  BY PruneLemma DEF Inductive, TypeOK
<1>2. /\ active # None /\ active.task \in Tasks /\ shutdown.at = "up"
      /\ aid[t] \in Attempts /\ sock[t] \in Sockets
      /\ t \notin cancelled /\ t # active.task /\ pc[t] = "prepare"
      /\ aid[t] \notin Retained(h) /\ aid[t] # active.id
  BY DEF Displace, Unresolved, IsActive, ActiveAttempt, Inductive, TypeOK
<1>3. /\ active' = None /\ cleanup = None
      /\ Conclude(active, h, "canceled") /\ RevokeMedia({active.id})
      /\ pc' = [pc EXCEPT ![t] = "displacing"] /\ on' = [on EXCEPT ![t] = active.task]
      /\ notice' = [notice EXCEPT ![t] = [id |-> active.id, subs |-> active.subs]]
      /\ UNCHANGED <<cleanup, pendingDone, cleanupDone, cancelled, wireVars,
                      sock, aid, outcome, session, up, shutdown>>
  BY DEF Displace, WaitFor, Goto
<1>4. /\ pending' \in PendingAdmission /\ pending' # None
      /\ pending'.task = t /\ pending'.id = aid[t] /\ pending'.prior = active.task
  <2>1. pending' = [id |-> aid[t], task |-> t, owner |-> sock[t],
                    subs |-> {sock[t]}, prior |-> active.task]
    BY DEF Displace
  <2>2. pending' \in PendingAdmission
    BY <1>2, <2>1 DEF PendingAdmission
  <2> QED
    BY <2>1, <2>2, NoneApart
<1> HIDE DEF h
<1>5. /\ history' \in History
      /\ Retained(history') \subseteq Retained(h) \cup {active.id}
      /\ receipts' \in [Sockets -> SUBSET Tasks]
      /\ receipts' = [receipts EXCEPT ![active.owner] = @ \ {active.task}]
  BY <1>1, <1>2, <1>3, ConcludeLemma DEF Kinds, Inductive
<1>6. TypeOK'
  BY <1>2, <1>3, <1>4, <1>5, RevokeMediaLemma DEF PCs, Notice, ActiveAttempt,
     Inductive, TypeOK
<1>7. SlotInv'
  BY <1>2, <1>3, <1>4, NoneApart DEF Inductive, TypeOK
<1>8. OneStandingPerAttempt'
  BY <1>1, <1>2, <1>3, <1>4, <1>5 DEF OneStandingPerAttempt
<1>9. ReceiptsMirrorActive'
  BY <1>2, <1>3, <1>5 DEF ReceiptsMirrorActive, IsCurrent, ActiveAttempt, Inductive,
     TypeOK
<1> QED
  BY <1>6, <1>7, <1>8, <1>9 DEF Inductive

(* The displaced owner is announced.                                           *)
LEMMA AnnounceDisplacedStep ==
    ASSUME Inductive, NEW t \in Tasks, AnnounceDisplaced(t)
    PROVE  Inductive'
<1>1. TypeOK'
  BY DetachedLemma, SeenLemma, NoneApart DEF AnnounceDisplaced, PublishTo,
     Goto, PCs, Notice, NoNotice, Inductive, TypeOK
<1>2. SlotInv'
  BY DetachedLemma, NoneApart DEF AnnounceDisplaced, PublishTo, Goto,
     Inductive, TypeOK
<1>3. OneStandingPerAttempt'
  BY DetachedLemma, NoneApart DEF AnnounceDisplaced, PublishTo,
     OneStandingPerAttempt, Inductive, TypeOK
<1>4. ReceiptsMirrorActive'
  BY DetachedLemma, NoneApart DEF AnnounceDisplaced, PublishTo,
     ReceiptsMirrorActive, IsCurrent, Inductive, TypeOK
<1> QED
  BY <1>1, <1>2, <1>3, <1>4 DEF Inductive

(* The prior owner has ended.                                                  *)
LEMMA JoinPriorStep ==
    ASSUME Inductive, NEW t \in Tasks, JoinPrior(t)
    PROVE  Inductive'
<1>1. TypeOK'
  BY NoneApart DEF JoinPrior, WaitFor, Goto, PCs, Inductive, TypeOK
<1>2. SlotInv'
  BY NoneApart DEF JoinPrior, WaitFor, Goto, Inductive, TypeOK
<1>3. OneStandingPerAttempt'
  BY DEF JoinPrior, OneStandingPerAttempt, Inductive, TypeOK
<1>4. ReceiptsMirrorActive'
  BY DEF JoinPrior, ReceiptsMirrorActive, IsCurrent, Inductive, TypeOK
<1> QED
  BY <1>1, <1>2, <1>3, <1>4 DEF Inductive

(* The prior owner is cancelled behind the cleanup reservation.                *)
LEMMA JoinTimeoutStep ==
    ASSUME Inductive, NEW t \in Tasks, JoinTimeout(t)
    PROVE  Inductive'
<1>1. TypeOK'
  BY NoneApart DEF JoinTimeout, CancelTask, ReserveCleanup, Goto, PCs,
     Inductive, TypeOK
<1>2. SlotInv'
  BY NoneApart DEF JoinTimeout, CancelTask, ReserveCleanup, Goto, Inductive,
     TypeOK
<1>3. OneStandingPerAttempt'
  BY DEF JoinTimeout, OneStandingPerAttempt, Inductive, TypeOK
<1>4. ReceiptsMirrorActive'
  BY DEF JoinTimeout, ReceiptsMirrorActive, IsCurrent, Inductive, TypeOK
<1> QED
  BY <1>1, <1>2, <1>3, <1>4 DEF Inductive

(* The cleanup of the prior owner is over.                                     *)
LEMMA JoinedCleanupStep ==
    ASSUME Inductive, NEW t \in Tasks, JoinedCleanup(t)
    PROVE  Inductive'
<1>1. TypeOK'
  BY NoneApart DEF JoinedCleanup, WaitFor, Goto, PCs, Inductive, TypeOK
<1>2. SlotInv'
  BY NoneApart DEF JoinedCleanup, WaitFor, Goto, Inductive, TypeOK
<1>3. OneStandingPerAttempt'
  BY DEF JoinedCleanup, OneStandingPerAttempt, Inductive, TypeOK
<1>4. ReceiptsMirrorActive'
  BY DEF JoinedCleanup, ReceiptsMirrorActive, IsCurrent, Inductive, TypeOK
<1> QED
  BY <1>1, <1>2, <1>3, <1>4 DEF Inductive

(* A reservation taken away by shutdown is left.                               *)
LEMMA AbandonAdmissionStep ==
    ASSUME Inductive, NEW t \in Tasks, AbandonAdmission(t)
    PROVE  Inductive'
<1>1. TypeOK'
  BY NoneApart DEF AbandonAdmission, WaitFor, Goto, PCs, Notice, NoNotice,
     Inductive, TypeOK
<1>2. SlotInv'
  BY NoneApart DEF AbandonAdmission, WaitFor, Goto, Inductive, TypeOK
<1>3. OneStandingPerAttempt'
  BY DEF AbandonAdmission, OneStandingPerAttempt, Inductive, TypeOK
<1>4. ReceiptsMirrorActive'
  BY DEF AbandonAdmission, ReceiptsMirrorActive, IsCurrent, Inductive, TypeOK
<1> QED
  BY <1>1, <1>2, <1>3, <1>4 DEF Inductive

(* The last gate section of an admission, whoever reserved it: nobody works    *)
(* when it admits, and it admits nobody after shutdown.                        *)
LEMMA CommitLemma ==
    ASSUME Inductive, NEW t \in Tasks, NEW p \in PendingAdmission, NEW h \in History,
           p.id = aid[t], Retained(h) \subseteq Retained(history), p.id \notin Retained(h),
           active = None, cleanup = None, pending # None => pending.task = t,
           shutdown.at = "up" => Working = {},
           shutdown.at = "up" => t \notin cancelled, pc[t] \in {"prepare", "admit"},
           \A u \in Reserving \ cancelled : u = t,
           CommitAdmission(t, p, h)
    PROVE  Inductive'
<1>1. p.id \in Attempts /\ p.owner \in Sockets
  BY DEF PendingAdmission
<1>2. UNCHANGED <<cleanup, cleanupDone, cancelled, notice, quietVars>>
  BY DEF CommitAdmission
<1>3. on' = [on EXCEPT ![t] = None] /\ pendingDone' \subseteq Tasks
  BY DEF CommitAdmission, WaitFor, Inductive, TypeOK
<1>4. CASE /\ active' = None /\ pending' = None
           /\ history' \in History /\ UNCHANGED receipts
           /\ seen' \in [Sockets -> [Attempts -> {"none", "live", "ended"}]]
           /\ sending' \subseteq SlowPeers
           /\ pc' = [pc EXCEPT ![t] = "done"]
  <2>1. TypeOK'
    BY <1>2, <1>4, <1>3 DEF Inductive, TypeOK, PCs
  <2>2. SlotInv'
    BY <1>2, <1>4, <1>3, NoneApart DEF Inductive, TypeOK
  <2>3. OneStandingPerAttempt' /\ ReceiptsMirrorActive'
    BY <1>2, <1>4 DEF OneStandingPerAttempt, ReceiptsMirrorActive, Inductive, IsCurrent
  <2> QED
    BY <2>1, <2>2, <2>3 DEF Inductive
<1>5. CASE /\ ~ConnectionClosed(p.owner)
           /\ history' = h
           /\ active' = [id |-> p.id, task |-> t, owner |-> p.owner,
                         subs |-> p.subs, latest |-> FALSE]
           /\ pending' = None
           /\ receipts' = [receipts EXCEPT ![p.owner] = @ \cup {t}]
           /\ pc' = [pc EXCEPT ![t] = "start"] /\ UNCHANGED <<seen, sending>>
  <2>1. /\ active' \in ActiveAttempt /\ active' # None
        /\ active'.id = p.id /\ active'.task = t /\ active'.owner = p.owner
    <3>1. p.subs \subseteq Sockets
      BY DEF PendingAdmission
    <3>2. active' \in ActiveAttempt
      BY <1>1, <1>5, <3>1 DEF ActiveAttempt
    <3> QED
      BY <1>5, <3>2, NoneApart
  <2>2. TypeOK'
    BY <1>1, <1>2, <1>5, <1>3, <2>1 DEF Inductive, TypeOK, PCs
  <2>3. shutdown.at = "up"
    BY <1>1, <1>5 DEF ConnectionClosed, Alive, Inductive
  <2>4. SlotInv'
    BY <1>1, <1>2, <1>5, <1>3, <2>1, <2>3, NoneApart DEF Inductive, TypeOK
  <2>5. OneStandingPerAttempt'
    BY <1>5, <2>1 DEF OneStandingPerAttempt
  <2>6. ReceiptsMirrorActive'
    BY <1>1, <1>5, <2>1 DEF ReceiptsMirrorActive, Inductive, TypeOK, IsCurrent
  <2> QED
    BY <2>2, <2>4, <2>5, <2>6 DEF Inductive
<1>6. \/ /\ history' = Prune(Put(h, p.id, Terminal("failed", None)))
         /\ active' = None /\ pending' = None
         /\ SendDirect({p.owner}, p.id, "ended")
         /\ pc' = [pc EXCEPT ![t] = "done"] /\ UNCHANGED receipts
      \/ /\ history' = Concluded(h, p.id, "canceled", p.owner)
         /\ PublishTo(p.subs, p.id, "ended", None, None)
         /\ pc' = [pc EXCEPT ![t] = "done"] /\ UNCHANGED receipts
      \/ <1>5!1
  BY DEF CommitAdmission, WaitFor, Goto, Silent, Inductive, TypeOK
<1>7. ASSUME NEW subs, Send(subs, p.id, "ended"),
             sending' = sending \/ sending' = sending \cup (subs \cap up \cap SlowPeers)
      PROVE  /\ seen' \in [Sockets -> [Attempts -> {"none", "live", "ended"}]]
             /\ sending' \subseteq SlowPeers
  BY <1>7, SeenLemma DEF Inductive, TypeOK
<1> QED
  <2>1. CASE <1>6!1
    <3>1. history' \in History
      BY <1>1, <2>1, RefusedLemma DEF Kinds, Inductive
    <3> QED
      BY <1>4, <1>7, <2>1, <3>1
  <2>2. CASE <1>6!2
    <3>1. history' \in History
      BY <1>1, <2>2, ConcludedLemma DEF Kinds, Inductive
    <3>2. active' = None /\ pending' = None
      BY <2>2 DEF PublishTo, Detached
    <3> QED
      BY <1>4, <1>7, <2>2, <3>1, <3>2 DEF PublishTo
  <2> QED
    BY <1>5, <1>6, <2>1, <2>2

(* Nobody is displaced.                                                        *)
LEMMA AdmitFreeStep ==
    ASSUME Inductive, NEW t \in Tasks, AdmitFree(t)
    PROVE  Inductive'
<1> DEFINE h == Prune(history)
<1> DEFINE p == [id |-> aid[t], task |-> t, owner |-> sock[t],
                 subs |-> {sock[t]}, prior |-> None]
<1>1. /\ active = None /\ pending = None /\ cleanup = None
      /\ aid[t] \in Attempts /\ sock[t] \in Sockets /\ pc[t] = "prepare"
      /\ aid[t] \notin Retained(h)
      /\ CommitAdmission(t, p, h)
  BY DEF AdmitFree, Unresolved, Inductive
<1>2. p \in PendingAdmission /\ p.id = aid[t]
  BY <1>1 DEF PendingAdmission
<1>3. h \in History /\ Retained(h) \subseteq Retained(history)
  BY PruneLemma DEF Inductive, TypeOK
<1>4. /\ shutdown.at = "up" => Working = {}
      /\ shutdown.at = "up" => t \notin cancelled
      /\ \A u \in Reserving \ cancelled : u = t
  BY <1>1 DEF Inductive
<1> HIDE DEF p, h
<1> QED
  BY <1>1, <1>2, <1>3, <1>4, CommitLemma

(* The reservation is committed after the prior owner has ended.               *)
LEMMA AdmitStep ==
    ASSUME Inductive, NEW t \in Tasks, Admit(t)
    PROVE  Inductive'
<1> DEFINE h == Prune(history)
<1>1. pc[t] = "admit" /\ t \notin cancelled /\ CommitAdmission(t, pending, h)
  BY DEF Admit
<1>2. /\ pending # None /\ pending.task = t /\ pending.id = aid[t]
      /\ active = None /\ cleanup = None /\ Working = {}
      /\ \A u \in Reserving \ cancelled : u = t
  BY <1>1 DEF Inductive
<1>3. h \in History /\ Retained(h) \subseteq Retained(history)
  BY PruneLemma DEF Inductive, TypeOK
<1>4. pending \in PendingAdmission /\ pending.id \notin Retained(history)
  BY <1>2 DEF OneStandingPerAttempt, Inductive, TypeOK
<1> HIDE DEF h
<1> QED
  BY <1>1, <1>2, <1>3, <1>4, CommitLemma

(* The owner completes: the slot is free and it no longer works.               *)
LEMMA CompleteStep ==
    ASSUME Inductive, NEW t \in Tasks, Complete(t)
    PROVE  Inductive'
<1>1. TypeOK'
  BY DetachedLemma, ConcludedLemma, SeenLemma, NoneApart DEF Complete,
     Conclude, DiscardReceipt, PublishTo, Goto, ActiveAttempt, IsCurrent,
     Kinds, PCs, Inductive, TypeOK
<1>2. SlotInv'
  BY DetachedLemma, NoneApart DEF Complete, Conclude, PublishTo, Goto,
     IsCurrent, Inductive, TypeOK
<1>3. OneStandingPerAttempt'
  BY DetachedLemma DEF Complete, PublishTo, OneStandingPerAttempt, IsCurrent,
     Inductive, TypeOK
<1>4. ReceiptsMirrorActive'
  BY DetachedLemma, NoneApart DEF Complete, Conclude, PublishTo,
     DiscardReceipt, ActiveAttempt, ReceiptsMirrorActive, IsCurrent, Inductive,
     TypeOK
<1> QED
  BY <1>1, <1>2, <1>3, <1>4 DEF Inductive

(* The owner ends without completing, fenced or not.                           *)
LEMMA EndStep ==
    ASSUME Inductive, NEW t \in Tasks, End(t)
    PROVE  Inductive'
<1>1. TypeOK'
  <2>1. CASE IsCurrent(t)
    <3>1. active # None /\ outcome[t] \in Kinds
      BY <2>1 DEF IsCurrent, End, Inductive, Kinds
    <3>2. /\ PublishTo(active.subs, aid[t], "ended", None, pending)
          /\ Conclude(active, history, outcome[t])
      BY <2>1 DEF End
    <3>3. /\ seen' \in [Sockets -> [Attempts -> {"none", "live", "ended"}]]
          /\ sending' \subseteq SlowPeers
          /\ active' = None /\ pending' \in PendingAdmission \cup {None}
      BY <3>2, SeenLemma, DetachedLemma DEF PublishTo, Inductive, TypeOK
    <3> QED
      BY <2>1, <3>1, <3>2, <3>3, ConcludeLemma, RevokeMediaLemma
         DEF End, Goto, PCs, Inductive, TypeOK
  <2>2. CASE ~IsCurrent(t)
    BY <2>2, RevokeMediaLemma DEF End, Goto, PCs, Inductive, TypeOK
  <2> QED
    BY <2>1, <2>2
<1>2. SlotInv'
  BY DetachedLemma, NoneApart DEF End, Conclude, PublishTo, Goto, IsCurrent,
     Inductive, TypeOK
<1>3. OneStandingPerAttempt'
  BY DetachedLemma DEF End, PublishTo, OneStandingPerAttempt, IsCurrent,
     Inductive, TypeOK
<1>4. ReceiptsMirrorActive'
  BY DetachedLemma, NoneApart DEF End, Conclude, PublishTo, IsCurrent,
     DiscardReceipt, ActiveAttempt, ReceiptsMirrorActive, IsCurrent, Inductive,
     TypeOK
<1> QED
  BY <1>1, <1>2, <1>3, <1>4 DEF Inductive

(* A client cancels the owner.                                                 *)
LEMMA CancelAttemptStep ==
    ASSUME Inductive, NEW s \in Sockets, NEW a \in Attempts, CancelAttempt(s, a)
    PROVE  Inductive'
<1>1. active # None /\ FenceActive
  BY DEF CancelAttempt, IsActive
<1>2. session' \in [Sockets -> Session]
  BY DEF CancelAttempt, IsActive, Handle, Idle, Handlers, Session, ActiveAttempt,
     Inductive, TypeOK
<1>3. TypeOK'
  BY <1>1, <1>2, FenceActiveLemma, RevokeMediaLemma DEF CancelAttempt, Inductive,
     TypeOK
<1>4. SlotInv'
  BY <1>1, NoneApart DEF CancelAttempt, FenceActive, CancelTask, ReserveCleanup,
     Handle, Idle, ActiveAttempt, Inductive, TypeOK
<1>5. OneStandingPerAttempt'
  BY <1>1, FenceActiveLemma DEF OneStandingPerAttempt, Inductive
<1>6. ReceiptsMirrorActive'
  BY <1>1, FenceActiveLemma DEF ReceiptsMirrorActive, IsCurrent, ActiveAttempt,
     Inductive, TypeOK
<1> QED
  BY <1>3, <1>4, <1>5, <1>6 DEF Inductive

(* A disconnect fences the next receipt of its snapshot, or passes it over.    *)
LEMMA FenceOwnedStep ==
    ASSUME Inductive, NEW s \in Sockets, NEW r \in Tasks, FenceOwned(s, r)
    PROVE  Inductive'
<1>1. CASE ~IsCurrent(r)
  <2>1. /\ session' = [session EXCEPT ![s] =
                          [session[s] EXCEPT !.todo = session[s].todo \ {r}]]
        /\ UNCHANGED <<registryVars, taskVars, up, wireVars, mediaVars, shutdown>>
    BY <1>1 DEF FenceOwned, Handle
  <2>2. \A y \in Session :
          /\ [y EXCEPT !.todo = y.todo \ {r}] \in Session
          /\ [y EXCEPT !.todo = y.todo \ {r}].op = y.op
          /\ [y EXCEPT !.todo = y.todo \ {r}].id = y.id
    BY DEF Session
  <2>3. session[s] \in Session /\ session \in [Sockets -> Session]
    BY DEF Inductive, TypeOK
  <2>4. /\ session' \in [Sockets -> Session]
        /\ \A x \in Sockets : /\ session'[x].op = session[x].op
                              /\ session'[x].id = session[x].id
    BY <2>1, <2>2, <2>3
  <2>5. TypeOK'
    BY <2>1, <2>4 DEF Inductive, TypeOK
  <2>6. Frame
    BY <2>1, <2>4 DEF Inductive, TypeOK
  <2> QED
    BY <2>5, <2>6, FrameLemma
<1>2. CASE IsCurrent(r)
  <2>1. active # None /\ active.task = r /\ FenceActive
    BY <1>2 DEF FenceOwned, IsCurrent
  <2>2. session' \in [Sockets -> Session]
    BY <1>2, <2>1 DEF FenceOwned, Handle, ReserveCleanup, Handlers, Session,
       ActiveAttempt, Inductive, TypeOK
  <2>3. TypeOK'
    BY <2>1, <2>2, FenceActiveLemma DEF FenceOwned, Inductive, TypeOK
  <2>4. SlotInv'
    BY <1>2, <2>1, NoneApart DEF FenceOwned, FenceActive, CancelTask, ReserveCleanup,
       Handle, ActiveAttempt, Inductive, TypeOK
  <2>5. OneStandingPerAttempt'
    BY <2>1, FenceActiveLemma DEF OneStandingPerAttempt, Inductive
  <2>6. ReceiptsMirrorActive'
    BY <2>1, FenceActiveLemma DEF ReceiptsMirrorActive, IsCurrent, ActiveAttempt,
       Inductive, TypeOK
  <2> QED
    BY <2>3, <2>4, <2>5, <2>6 DEF Inductive
<1> QED
  BY <1>1, <1>2

(* The cleanup reservation is released.                                        *)
LEMMA CleanupFinishesStep ==
    ASSUME Inductive, CleanupFinishes
    PROVE  Inductive'
<1>1. TypeOK'
  BY NoneApart DEF CleanupFinishes, FinishCleanup, Inductive, TypeOK
<1>2. SlotInv'
  BY NoneApart DEF CleanupFinishes, FinishCleanup, Inductive, TypeOK
<1>3. OneStandingPerAttempt'
  BY DEF CleanupFinishes, FinishCleanup, OneStandingPerAttempt, Inductive,
     TypeOK
<1>4. ReceiptsMirrorActive'
  BY DEF CleanupFinishes, FinishCleanup, ReceiptsMirrorActive, IsCurrent,
     Inductive, TypeOK
<1> QED
  BY <1>1, <1>2, <1>3, <1>4 DEF Inductive

(* Shutdown empties the slot for good.                                         *)
LEMMA BeginShutdownStep ==
    ASSUME Inductive, BeginShutdown
    PROVE  Inductive'
<1>1. /\ shutdown.at = "up" /\ \A s \in Sockets : session[s].op \in {"closed", "aborted"}
      /\ captured' \in [Attempts -> Tasks \cup {None}]
      /\ UNCHANGED <<pc, sock, aid, on, outcome, notice, session, up, wireVars, snapshot>>
  BY DEF BeginShutdown
<1>2. CASE active # None /\ Conclude(active, history, "canceled") /\ CancelTask(active.task)
          /\ shutdown' = [at |-> "draining", task |-> active.task, on |-> cleanup]
          /\ active' = None
          /\ UNCHANGED <<pending, heldVars>>
  <2>1. active.task \in Tasks
    BY <1>2 DEF Inductive, TypeOK, ActiveAttempt
  <2>2. TypeOK'
    BY <1>1, <1>2, <2>1, ConcludeLemma DEF Inductive, TypeOK, CancelTask, Kinds
  <2>3. SlotInv'
    BY <1>1, <1>2, <2>1 DEF Inductive, TypeOK, CancelTask
  <2>4. OneStandingPerAttempt'
    BY <1>2 DEF OneStandingPerAttempt, Inductive
  <2>5. ReceiptsMirrorActive'
    BY <1>2, ConcludeLemma DEF Inductive, ReceiptsMirrorActive, TypeOK, IsCurrent,
       ActiveAttempt, Kinds
  <2> QED
    BY <2>2, <2>3, <2>4, <2>5 DEF Inductive
<1>3. CASE active = None /\ pending # None
          /\ history' = Prune(Put(history, pending.id, Terminal("canceled", None)))
          /\ CancelTask(pending.task)
          /\ cleanup' = ReserveCleanup(pending.prior)
          /\ shutdown' = [at |-> "draining", task |-> pending.task,
                          on |-> ReserveCleanup(pending.prior)]
          /\ pending' = None
          /\ pendingDone' = pendingDone \cup {pending.task}
          /\ UNCHANGED <<active, cleanupDone, receipts>>
  <2>1. pending.task \in Tasks /\ pending.id \in Attempts /\ pending.prior \in Tasks \cup {None}
     BY <1>3 DEF Inductive, TypeOK, PendingAdmission
  <2>2. TypeOK'
    BY <1>1, <1>3, <2>1, RefusedLemma DEF Inductive, TypeOK, CancelTask,
       ReserveCleanup
  <2>3. SlotInv'
    BY <1>1, <1>3, <2>1, NoneApart DEF Inductive, TypeOK, CancelTask, ReserveCleanup
  <2>4. OneStandingPerAttempt'
    BY <1>3 DEF OneStandingPerAttempt, Inductive
  <2>5. ReceiptsMirrorActive'
    BY <1>3 DEF Inductive, ReceiptsMirrorActive, IsCurrent
  <2> QED
    BY <2>2, <2>3, <2>4, <2>5 DEF Inductive
<1>4. CASE active = None /\ pending = None
          /\ shutdown' = [at |-> "draining", task |-> None, on |-> cleanup]
          /\ UNCHANGED <<registryVars, cancelled>>
  <2>2. TypeOK'
    BY <1>1, <1>4 DEF Inductive, TypeOK
  <2>3. SlotInv'
    BY <1>1, <1>4, NoneApart DEF Inductive, TypeOK
  <2>4. OneStandingPerAttempt'
    BY <1>4 DEF OneStandingPerAttempt, Inductive
  <2>5. ReceiptsMirrorActive'
    BY <1>4 DEF Inductive, ReceiptsMirrorActive, IsCurrent
  <2> QED
    BY <2>2, <2>3, <2>4, <2>5 DEF Inductive
<1> QED
  BY <1>1, <1>2, <1>3, <1>4 DEF BeginShutdown

(* Shutdown has waited for the last task that could work.                      *)
LEMMA EndShutdownStep ==
    ASSUME Inductive, EndShutdown
    PROVE  Inductive'
<1>1. TypeOK'
  BY NoneApart DEF EndShutdown, Inductive, TypeOK
<1>2. SlotInv'
  <2>1. shutdown.at # "up" /\ shutdown'.at = "down"
    BY DEF EndShutdown, Inductive
  <2>2. Working = {}
    BY <2>1, NoneApart DEF EndShutdown, Inductive, TypeOK
  <2> QED
    BY <2>1, <2>2, NoneApart DEF EndShutdown, Inductive, TypeOK
<1>3. OneStandingPerAttempt'
  BY DEF EndShutdown, OneStandingPerAttempt, Inductive, TypeOK
<1>4. ReceiptsMirrorActive'
  BY DEF EndShutdown, ReceiptsMirrorActive, IsCurrent, Inductive, TypeOK
<1> QED
  BY <1>1, <1>2, <1>3, <1>4 DEF Inductive

-----------------------------------------------------------------------------
(* The theorems.                                                               *)

(* The service starts within the invariant.                                   *)
LEMMA InitLemma == Init => Inductive
BY NoneApart DEF Init, Inductive, TypeOK, OneStandingPerAttempt, ReceiptsMirrorActive,
   History, PCs, Notice, NoNotice, Session, Idle, Handlers, IsCurrent

(* Every step of the service keeps the invariant.                              *)
LEMMA NextLemma == Inductive /\ [Next]_vars => Inductive'
<1> SUFFICES ASSUME Inductive, [Next]_vars
             PROVE  Inductive'
  OBVIOUS
<1>1. ASSUME NEW t \in Tasks, Admission(t)
      PROVE  Inductive'
  BY <1>1, AskingStep, DisplaceStep, AnnounceDisplacedStep, JoinPriorStep,
     JoinTimeoutStep, JoinedCleanupStep, AbandonAdmissionStep, AdmitFreeStep, AdmitStep
     DEF Admission
<1>2. ASSUME NEW t \in Tasks, Work(t) \/ PublishAcquiring(t)
      PROVE  Inductive'
  BY <1>2, WorkingStep, CompleteStep, EndStep DEF Work
<1>3. ASSUME NEW s \in Sockets, Progress(s)
      PROVE  Inductive'
  BY <1>3, AnsweringStep DEF Progress
<1>4. ASSUME NEW s \in Sockets, Disconnect(s) \/ PeerLost(s) \/ BeginClose(s)
               \/ PublicationEnds(s)
      PROVE  Inductive'
  BY <1>4, LeavingStep, FenceOwnedStep DEF Disconnect
<1>5. ASSUME NEW s \in Sockets, NEW a \in Attempts, Message(s, a)
      PROVE  Inductive'
  BY <1>5, MessageStep, CancelAttemptStep DEF Message
<1>6. CASE Terminated \/ UNCHANGED vars
  <2>1. UNCHANGED vars
    BY <1>6 DEF Terminated
  <2> QED
    BY <2>1, ClockStep
<1>7. ASSUME NEW a \in Attempts, TerminalExpires(a) \/ MediaExpires(a)
      PROVE  Inductive'
  BY <1>7, ClockStep
<1> QED
  BY <1>1, <1>2, <1>3, <1>4, <1>5, <1>6, <1>7, CleanupFinishesStep, BeginShutdownStep,
     EndShutdownStep DEF Next

(* The service never leaves the invariant.                                     *)
THEOREM Invariance == Spec => []Inductive
BY InitLemma, NextLemma, PTL DEF Spec

(* Type correctness: every variable of the registry, of the attempt tasks and  *)
(* of the receive loops keeps to the values the code gives it.                 *)
THEOREM TypeCorrect == Spec => []TypeOK
<1>1. Inductive => TypeOK
  BY DEF Inductive
<1> QED
  BY <1>1, Invariance, PTL

(* The slot invariant holds in every state: an active attempt, a reservation   *)
(* and a cleanup each name the only task that may still work.                  *)
THEOREM SlotKept == Spec => []SlotInv
<1>1. Inductive => SlotInv
  BY DEF Inductive
<1> QED
  BY <1>1, Invariance, PTL

(* Camera, observation worker and renderer have one task at a time, from the   *)
(* commit of its admission to the end of its cleanup, whatever replacement,    *)
(* cancel, disconnect and shutdown do.                                         *)
THEOREM SingleWorkerHolds == Spec => []SingleWorker
<1>1. Inductive => SingleWorker
  BY DEF Inductive
<1> QED
  BY <1>1, Invariance, PTL

(* A task that reserved the admission and was not cancelled finds its          *)
(* reservation, and no terminal of its attempt, when it commits: the lost and  *)
(* terminal branches of commit_prepared_admission are unreachable for it.      *)
THEOREM ReservationHolds == Spec => []ReservationHeld
<1>1. Inductive => ReservationHeld
  <2> SUFFICES ASSUME Inductive, NEW t \in Tasks \ cancelled, t \in Reserving
               PROVE  /\ pending # None /\ pending.task = t /\ pending.id = aid[t]
                      /\ aid[t] \notin Retained(history)
    BY DEF ReservationHeld
  <2>1. pending # None /\ pending.task = t /\ pending.id = aid[t]
    BY DEF Inductive
  <2> QED
    BY <2>1 DEF OneStandingPerAttempt, Inductive
<1> QED
  BY <1>1, Invariance, PTL

(* The slot of the registry, whatever replacement, cancel, disconnect and      *)
(* shutdown do: typed, naming the only task that may still work, and a         *)
(* reservation that is still there when its task commits (_active, _pending,   *)
(* _cleanup of TryOnAttemptRegistry).                                          *)
THEOREM RegistryInvHolds == Spec => []RegistryInv
<1>1. TypeOK /\ SlotInv /\ ReservationHeld => RegistryInv
  BY DEF RegistryInv
<1> QED
  BY <1>1, TypeCorrect, SlotKept, ReservationHolds, PTL

(* An attempt is retained with a terminal, or active, or pending, and never    *)
(* two of these.                                                               *)
THEOREM OneStandingHolds == Spec => []OneStandingPerAttempt
<1>1. Inductive => OneStandingPerAttempt
  BY DEF Inductive
<1> QED
  BY <1>1, Invariance, PTL

(* The receipts that a disconnect will fence are the live attempt of its       *)
(* connection and nothing else.                                                *)
THEOREM ReceiptsMirrorActiveHolds == Spec => []ReceiptsMirrorActive
<1>1. Inductive => ReceiptsMirrorActive
  BY DEF Inductive
<1> QED
  BY <1>1, Invariance, PTL

(* Once on_shutdown is past the registry nothing holds the camera, the         *)
(* observation worker or the renderer, and nothing will.                       *)
THEOREM ShutdownIsQuietHolds == Spec => []ShutdownIsQuiet
<1>1. Inductive => ShutdownIsQuiet
  BY DEF ShutdownIsQuiet, Inductive
<1> QED
  BY <1>1, Invariance, PTL

-----------------------------------------------------------------------------
(* The promises.  From here on the parts of the slot's invariant are opened    *)
(* where they are needed.                                                      *)

HIDE DEF Frame, SameSlot, SameTasks, SameEnds
HIDE DEF SlotInv, SlotGuards, ActiveExcludes, PendingExcludes, ReserversPend,
         CleanupExcludes, SlotEmptied, SingleWorker, TasksKnowTheirStart,
         HandlersKnowTheirAttempt
HIDE DEF Working, WorkPCs, Reserving, PastAdmission, Finished

-----------------------------------------------------------------------------
(* Owners.                                                                     *)
(*                                                                             *)
(* OwnerStaysSubscribed for every set of attempts, connections and tasks and   *)
(* every bound of the subscriber table.  A reservation carries its subscribers *)
(* into the attempt it becomes, so the invariant speaks of both, and of the    *)
(* one step that may take an owner out: a detach, of a connection that is lost *)
(* or of one too slow for a publication (sending \subseteq SlowPeers).         *)

(* The owner of x is among its subscribers while its peer can be reached in    *)
(* time.                                                                       *)
HasOwner(x) == x # None /\ x.owner \in up \ SlowPeers => x.owner \in x.subs

SubscriberInv ==
    /\ HasOwner(active) /\ HasOwner(pending)
    /\ \A s \in Sockets : session[s].op = "closing" => s \notin up

(* y is x with other subscribers, of which an owner in reach still is one.     *)
KeepsOwner(x, y) ==
    \/ y = None
    \/ /\ x # None /\ y # None /\ y.owner = x.owner
       /\ x.owner \in up \ SlowPeers /\ x.owner \in x.subs => x.owner \in y.subs

(* What every step but the two that make a new owner does.                     *)
Steady ==
    /\ KeepsOwner(active, active') /\ KeepsOwner(pending, pending')
    /\ up' \subseteq up
    /\ \A s \in Sockets :
          session'[s].op = "closing" => session[s].op = "closing" \/ s \notin up

LEMMA SteadyLemma ==
    ASSUME SubscriberInv, Steady
    PROVE  SubscriberInv'
BY DEF SubscriberInv, Steady, HasOwner, KeepsOwner

(* A full table drops a subscriber other than the owner.                       *)
LEMMA AttachedKeepsOwner ==
    ASSUME NEW x \in ActiveAttempt \cup PendingAdmission, NEW s \in Sockets,
           NEW y \in Attached(x, s)
    PROVE  KeepsOwner(x, y)
<1>1. x # None
  BY NoneApart
<1>2. /\ x.subs \in SUBSET Sockets
      /\ \A subs \in SUBSET Sockets :
            /\ [x EXCEPT !.subs = subs] \in ActiveAttempt \cup PendingAdmission
            /\ [x EXCEPT !.subs = subs].owner = x.owner
            /\ [x EXCEPT !.subs = subs].subs = subs
  BY DEF ActiveAttempt, PendingAdmission
<1>3. /\ x.subs \cup {s} \in SUBSET Sockets
      /\ \A o : (x.subs \ {o}) \cup {s} \in SUBSET Sockets
  BY <1>2
<1>4. CASE y = x
  BY <1>1, <1>4 DEF KeepsOwner
<1>5. CASE y = [x EXCEPT !.subs = x.subs \cup {s}]
  BY <1>1, <1>2, <1>3, <1>5, NoneApart DEF KeepsOwner
<1>6. ASSUME NEW o \in x.subs \ {x.owner},
             y = [x EXCEPT !.subs = (x.subs \ {o}) \cup {s}]
      PROVE  KeepsOwner(x, y)
  BY <1>1, <1>2, <1>3, <1>6, NoneApart DEF KeepsOwner
<1> QED
  BY <1>4, <1>5, <1>6 DEF Attached

(* Only lost and slow connections are detached by a publication.               *)
LEMMA DetachedKeepsOwner ==
    ASSUME NEW x \in ActiveAttempt \cup PendingAdmission \cup {None}, NEW gone,
           gone \cap (up \ SlowPeers) = {}
    PROVE  KeepsOwner(x, Detached(x, gone))
<1>1. CASE x = None
  BY <1>1 DEF Detached, KeepsOwner
<1>2. CASE x # None
  <2>1. x.subs \ gone \in SUBSET Sockets
    BY <1>2 DEF ActiveAttempt, PendingAdmission
  <2>2. /\ [x EXCEPT !.subs = x.subs \ gone] \in ActiveAttempt \cup PendingAdmission
        /\ [x EXCEPT !.subs = x.subs \ gone].owner = x.owner
        /\ [x EXCEPT !.subs = x.subs \ gone].subs = x.subs \ gone
    BY <1>2, <2>1 DEF ActiveAttempt, PendingAdmission
  <2> QED
    BY <1>2, <2>2, NoneApart DEF Detached, KeepsOwner
<1> QED
  BY <1>1, <1>2

LEMMA PublishKeepsOwner ==
    ASSUME TypeOK, NEW subs, NEW a, NEW kind,
           NEW x \in ActiveAttempt \cup {None},
           PublishTo(subs, a, kind, x, pending)
    PROVE  KeepsOwner(x, active') /\ KeepsOwner(pending, pending')
<1>1. pending \in PendingAdmission \cup {None} /\ (subs \ up) \cap (up \ SlowPeers) = {}
  BY DEF TypeOK
<1> QED
  BY <1>1, DetachedKeepsOwner DEF PublishTo

(* The latest observation is replaced; the subscribers are not.                *)
LEMMA ObservationKeepsOwner ==
    ASSUME TypeOK, NEW t \in Tasks, PublishObservation(t)
    PROVE  KeepsOwner(active, active') /\ KeepsOwner(pending, pending')
<1>1. CASE ~IsCurrent(t)
  BY <1>1 DEF PublishObservation, KeepsOwner
<1>2. CASE IsCurrent(t)
  <2> DEFINE x == [active EXCEPT !.latest = TRUE]
  <2>1. x \in ActiveAttempt /\ x.owner = active.owner /\ x.subs = active.subs
    BY <1>2 DEF TypeOK, ActiveAttempt, IsCurrent
  <2>2. PublishTo(active.subs, aid[t], "live", x, pending)
    BY <1>2 DEF PublishObservation
  <2>3. KeepsOwner(x, active') /\ KeepsOwner(pending, pending')
    BY <2>1, <2>2, PublishKeepsOwner
  <2> HIDE DEF x
  <2> QED
    BY <1>2, <2>1, <2>3 DEF KeepsOwner, IsCurrent
<1> QED
  BY <1>1, <1>2

(* The slot emptied or left alone keeps whatever owner it had.                 *)
LEMMA SlotKeepsOwner ==
    ASSUME active' \in {active, None}, pending' \in {pending, None}
    PROVE  KeepsOwner(active, active') /\ KeepsOwner(pending, pending')
BY DEF KeepsOwner

-----------------------------------------------------------------------------
(* The steps.                                                                  *)

(* A handler that moves on anywhere but to its close.                          *)
LEMMA HandleSteady ==
    ASSUME TypeOK, NEW s \in Sockets, NEW y \in Session, Handle(s, y),
           y.op # "closing"
    PROVE  \A r \in Sockets : session'[r].op = "closing" => session[r].op = "closing"
BY DEF TypeOK, Handle

(* The handlers a receive loop may go on with.                                 *)
LEMMA HandlersMoveOn ==
    ASSUME TypeOK, NEW s \in Sockets, NEW op \in Handlers
    PROVE  Handling(s, op) \in Session /\ Handling(s, op).op = op
<1>1. session[s] \in Session
  BY DEF TypeOK
<1>2. \A y \in Session : [y EXCEPT !.op = op] \in Session /\ [y EXCEPT !.op = op].op = op
  BY DEF Session
<1> QED
  BY <1>1, <1>2 DEF Handling

(* The last gate section of an admission makes the reservation the attempt.    *)
LEMMA CommitKeepsOwner ==
    ASSUME TypeOK, SubscriberInv, NEW t \in Tasks, NEW h,
           NEW p \in PendingAdmission, HasOwner(p), CommitAdmission(t, p, h)
    PROVE  SubscriberInv'
<1>1. CASE active' = None /\ pending' = None /\ UNCHANGED <<up, session>>
  BY <1>1 DEF SubscriberInv, HasOwner
<1>2. CASE /\ active' = [id |-> p.id, task |-> t, owner |-> p.owner,
                         subs |-> p.subs, latest |-> FALSE]
           /\ pending' = None /\ UNCHANGED <<up, session>>
  BY <1>2, NoneApart DEF SubscriberInv, HasOwner
<1> QED
  BY <1>1, <1>2 DEF CommitAdmission, PublishTo, Detached

LEMMA AdmissionKeeps ==
    ASSUME Inductive, Inductive', SubscriberInv, NEW t \in Tasks, Admission(t)
    PROVE  SubscriberInv'
<1> USE DEF Inductive
<1>t. TypeOK /\ (pc[t] # "idle" => sock[t] \in Sockets /\ aid[t] \in Attempts)
  BY DEF SlotInv, TasksKnowTheirStart
<1>1. CASE \/ ReplayTerminal(t) \/ SendLatest(t) \/ WaitForCleanup(t)
           \/ WaitForPending(t) \/ Retry(t) \/ ResolveJoined(t) \/ JoinPrior(t)
           \/ JoinTimeout(t) \/ JoinedCleanup(t) \/ AbandonAdmission(t)
  <2>1. UNCHANGED <<active, pending, up, session>>
    BY <1>1 DEF ReplayTerminal, SendLatest, WaitForCleanup, WaitForPending, Retry,
       ResolveJoined, JoinPrior, JoinTimeout, JoinedCleanup, AbandonAdmission
  <2> QED
    BY <2>1 DEF SubscriberInv, HasOwner
<1>2. CASE JoinActive(t)
  <2>1. /\ active \in ActiveAttempt /\ sock[t] \in Sockets
        /\ active' \in Attached(active, sock[t])
        /\ UNCHANGED <<pending, up, session>>
    BY <1>t, <1>2 DEF JoinActive, TypeOK, IsActive
  <2>2. KeepsOwner(active, active') /\ KeepsOwner(pending, pending')
    BY <2>1, AttachedKeepsOwner DEF KeepsOwner
  <2> QED
    BY <2>1, <2>2, SteadyLemma DEF Steady
<1>3. CASE JoinPending(t)
  <2>1. /\ pending \in PendingAdmission /\ sock[t] \in Sockets
        /\ pending' \in Attached(pending, sock[t])
        /\ UNCHANGED <<active, up, session>>
    BY <1>t, <1>3 DEF JoinPending, Unresolved, TypeOK, IsPending
  <2>2. KeepsOwner(active, active') /\ KeepsOwner(pending, pending')
    BY <2>1, AttachedKeepsOwner DEF KeepsOwner
  <2> QED
    BY <2>1, <2>2, SteadyLemma DEF Steady
<1>4. CASE Displace(t)
  <2>1. /\ active' = None /\ UNCHANGED <<up, session>>
        /\ pending'.owner = sock[t] /\ pending'.subs = {sock[t]}
    BY <1>4 DEF Displace
  <2> QED
    BY <2>1 DEF SubscriberInv, HasOwner
<1>5. CASE AnnounceDisplaced(t)
  <2>1. /\ PublishTo(notice[t].subs, notice[t].id, "ended", active, pending)
        /\ active \in ActiveAttempt \cup {None} /\ UNCHANGED <<up, session>>
    BY <1>t, <1>5 DEF AnnounceDisplaced, TypeOK
  <2>2. KeepsOwner(active, active') /\ KeepsOwner(pending, pending')
    BY <1>t, <2>1, PublishKeepsOwner
  <2> QED
    BY <2>1, <2>2, SteadyLemma DEF Steady
<1>6. CASE AdmitFree(t)
  <2> DEFINE p == [id |-> aid[t], task |-> t, owner |-> sock[t],
                   subs |-> {sock[t]}, prior |-> None]
  <2>1. CommitAdmission(t, p, Prune(history)) /\ pc[t] = "prepare"
    BY <1>6 DEF AdmitFree, Unresolved
  <2>2. p \in PendingAdmission /\ HasOwner(p)
    BY <1>t, <2>1 DEF PendingAdmission, HasOwner
  <2> QED
    BY <1>t, <2>1, <2>2, CommitKeepsOwner
<1>7. CASE Admit(t)
  <2>1. pc[t] = "admit" /\ t \notin cancelled
    BY <1>7 DEF Admit
  <2>2. pending # None
    BY <1>t, <2>1 DEF SlotInv, SlotGuards, SlotEmptied, ReserversPend, Reserving
  <2> QED
    BY <1>t, <1>7, <2>2, CommitKeepsOwner DEF Admit, TypeOK, SubscriberInv
<1> QED
  BY <1>1, <1>2, <1>3, <1>4, <1>5, <1>6, <1>7 DEF Admission

LEMMA WorkKeeps ==
    ASSUME Inductive, SubscriberInv, NEW t \in Tasks,
           Work(t) \/ PublishAcquiring(t)
    PROVE  SubscriberInv'
<1>t. TypeOK
  BY DEF Inductive
<1>1. CASE \/ BeginAcquiring(t) \/ StartFails(t) \/ AcquisitionEnds(t)
           \/ GenerationEnds(t) \/ WorkerJoined(t)
  <2>1. UNCHANGED <<active, pending, up, session>>
    BY <1>1 DEF BeginAcquiring, StartFails, AcquisitionEnds, GenerationEnds,
       WorkerJoined
  <2> QED
    BY <2>1 DEF SubscriberInv, HasOwner
<1>2. CASE PublishAcquiring(t) \/ Released(t)
  <2>1. UNCHANGED <<up, session>>
    BY <1>2 DEF PublishAcquiring, Released
  <2>2. PublishObservation(t) \/ UNCHANGED <<active, pending>>
    BY <1>2 DEF PublishAcquiring, Released
  <2>3. KeepsOwner(active, active') /\ KeepsOwner(pending, pending')
    BY <1>t, <2>2, ObservationKeepsOwner DEF KeepsOwner
  <2> QED
    BY <2>1, <2>3, SteadyLemma DEF Steady
<1>3. CASE Complete(t) \/ End(t)
  <2>1. UNCHANGED <<up, session>>
    BY <1>3 DEF Complete, End
  <2>2. \/ PublishTo(active.subs, aid[t], "ended", None, pending)
        \/ UNCHANGED <<active, pending>>
    BY <1>3 DEF Complete, End
  <2>3. CASE UNCHANGED <<active, pending>>
    BY <2>1, <2>3 DEF SubscriberInv, HasOwner
  <2>4. CASE PublishTo(active.subs, aid[t], "ended", None, pending)
    <3>1. KeepsOwner(None, active') /\ KeepsOwner(pending, pending')
      BY <1>t, <2>4, PublishKeepsOwner
    <3>2. KeepsOwner(active, active')
      BY <3>1 DEF KeepsOwner
    <3> QED
      BY <2>1, <3>1, <3>2, SteadyLemma DEF Steady
  <2> QED
    BY <2>2, <2>3, <2>4
<1> QED
  BY <1>1, <1>2, <1>3 DEF Work

(* A publication by the receive loop of s, which then goes on as y.            *)
LEMMA LoopPublishes ==
    ASSUME TypeOK, SubscriberInv, NEW s \in Sockets, NEW y \in Session,
           y.op # "closing", Handle(s, y), UNCHANGED up, NEW subs, NEW a,
           PublishTo(subs, a, "ended", active, pending)
    PROVE  SubscriberInv'
<1>1. active \in ActiveAttempt \cup {None}
  BY DEF TypeOK
<1>2. KeepsOwner(active, active') /\ KeepsOwner(pending, pending')
  BY <1>1, PublishKeepsOwner
<1> QED
  BY <1>2, HandleSteady, SteadyLemma DEF Steady

(* The receive loop of s goes on as y and takes nobody in or out.              *)
LEMMA LoopGoesOn ==
    ASSUME TypeOK, SubscriberInv, NEW s \in Sockets, NEW y \in Session,
           y.op # "closing", Handle(s, y), UNCHANGED up,
           active' \in {active, None}, pending' \in {pending, None}
    PROVE  SubscriberInv'
BY SlotKeepsOwner, HandleSteady, SteadyLemma DEF Steady

LEMMA ProgressKeeps ==
    ASSUME Inductive, SubscriberInv, NEW s \in Sockets, Progress(s)
    PROVE  SubscriberInv'
<1>t. TypeOK /\ session[s] \in Session
  BY DEF Inductive, TypeOK
<1>i. Idle \in Session /\ Idle.op # "closing"
  BY <1>t, FallBackLemma DEF Idle
<1>1. CASE JoinOrReject(s)
  <2> DEFINE a == session[s].id
             waiting == [Handling(s, "awaitPending") EXCEPT !.on = pending.task]
             swept == [Handling(s, "awaitCleanup") EXCEPT !.on = cleanup]
  <2>0. UNCHANGED up
    BY <1>1 DEF JoinOrReject
  <2>1. CASE /\ Handle(s, Idle) /\ UNCHANGED <<active, pending>>
    BY <1>t, <1>i, <2>0, <2>1, LoopGoesOn
  <2>2. CASE /\ active # None /\ active' \in Attached(active, s)
             /\ Handle(s, IF active.latest THEN Handling(s, "replay") ELSE Idle)
             /\ UNCHANGED pending
    <3>1. Handling(s, "replay") \in Session /\ Handling(s, "replay").op = "replay"
      BY <1>t, HandlersMoveOn DEF Handlers
    <3>2. \A r \in Sockets : session'[r].op = "closing" => session[r].op = "closing"
      BY <1>t, <1>i, <2>2, <3>1, HandleSteady
    <3>3. KeepsOwner(active, active') /\ KeepsOwner(pending, pending')
      BY <1>t, <2>2, AttachedKeepsOwner DEF TypeOK, KeepsOwner
    <3> QED
      BY <2>0, <3>2, <3>3, SteadyLemma DEF Steady
  <2>3. CASE /\ pending # None /\ pending' \in Attached(pending, s)
             /\ Handle(s, waiting) /\ UNCHANGED active
    <3>0. pending.task \in Tasks
      BY <1>t, <2>3 DEF TypeOK, PendingAdmission
    <3>1. waiting \in Session /\ waiting.op = "awaitPending"
      BY <1>t, <3>0, HandlingLemma DEF Handlers
    <3>2. \A r \in Sockets : session'[r].op = "closing" => session[r].op = "closing"
      BY <1>t, <2>3, <3>1, HandleSteady
    <3>3. KeepsOwner(active, active') /\ KeepsOwner(pending, pending')
      BY <1>t, <2>3, AttachedKeepsOwner DEF TypeOK, KeepsOwner
    <3> QED
      BY <2>0, <3>2, <3>3, SteadyLemma DEF Steady
  <2>4. CASE cleanup # None /\ Handle(s, swept) /\ UNCHANGED <<active, pending>>
    <3>0. cleanup \in Tasks
      BY <1>t, <2>4 DEF TypeOK
    <3>1. swept \in Session /\ swept.op = "awaitCleanup"
      BY <1>t, <3>0, HandlingLemma DEF Handlers
    <3> HIDE DEF swept
    <3> QED
      BY <1>t, <2>0, <2>4, <3>1, LoopGoesOn
  <2> QED
    BY <1>1, <2>1, <2>2, <2>3, <2>4 DEF JoinOrReject, IsActive, IsPending
<1>2. CASE JoinOrRejectAgain(s)
  <2> DEFINE y == [Handling(s, "reject") EXCEPT !.on = None]
  <2>1. y \in Session /\ y.op = "reject"
    BY <1>t, HandlingLemma DEF Handlers
  <2>2. Handle(s, y) /\ UNCHANGED <<active, pending, up>>
    BY <1>2 DEF JoinOrRejectAgain
  <2> HIDE DEF y
  <2> QED
    BY <1>t, <2>1, <2>2, LoopGoesOn
<1>3. CASE ReplayLatest(s)
  BY <1>t, <1>i, <1>3, LoopGoesOn DEF ReplayLatest
<1>4. CASE PublishCanceled(s)
  BY <1>t, <1>i, <1>4, LoopPublishes DEF PublishCanceled
<1>5. CASE EndAdjust(s)
  BY <1>t, <1>i, <1>5, LoopGoesOn DEF EndAdjust
<1> QED
  BY <1>1, <1>2, <1>3, <1>4, <1>5 DEF Progress

LEMMA MessageKeeps ==
    ASSUME Inductive, SubscriberInv, NEW s \in Sockets, NEW a \in Attempts,
           Message(s, a)
    PROVE  SubscriberInv'
<1>t. TypeOK
  BY DEF Inductive
<1>1. CASE (\E t \in Tasks : Start(s, t, a)) \/ LeaveRoute(s, a)
  <2>1. UNCHANGED <<active, pending, up, session>>
    BY <1>1 DEF Start, LeaveRoute
  <2> QED
    BY <2>1 DEF SubscriberInv, HasOwner
<1>2. CASE Backpressure(s, a) \/ BeginAdjust(s, a) \/ CancelAttempt(s, a)
  <2>1. \A op \in {"reject", "adjust", "publish"}, subs \in SUBSET Sockets :
            /\ [Idle EXCEPT !.op = op, !.id = a, !.subs = subs] \in Session
            /\ [Idle EXCEPT !.op = op, !.id = a, !.subs = subs].op # "closing"
            /\ [Idle EXCEPT !.op = op, !.id = a] \in Session
            /\ [Idle EXCEPT !.op = op, !.id = a].op # "closing"
    BY DEF Idle, Session, Handlers
  <2>2. UNCHANGED up /\ active' \in {active, None} /\ pending' = pending
    BY <1>2 DEF Backpressure, BeginAdjust, CancelAttempt, FenceActive
  <2>3. CASE Backpressure(s, a) \/ BeginAdjust(s, a)
    BY <1>t, <2>1, <2>2, <2>3, LoopGoesOn DEF Backpressure, BeginAdjust
  <2>4. CASE CancelAttempt(s, a)
    <3>1. active.subs \in SUBSET Sockets
      BY <1>t, <2>4 DEF CancelAttempt, IsActive, TypeOK, ActiveAttempt
    <3> QED
      BY <1>t, <2>1, <2>2, <2>4, <3>1, LoopGoesOn DEF CancelAttempt
  <2> QED
    BY <1>2, <2>3, <2>4
<1> QED
  BY <1>1, <1>2 DEF Message

LEMMA DisconnectKeeps ==
    ASSUME Inductive, SubscriberInv, NEW s \in Sockets,
           Disconnect(s) \/ PeerLost(s) \/ BeginClose(s)
    PROVE  SubscriberInv'
<1>t. TypeOK /\ session[s] \in Session
  BY DEF Inductive, TypeOK
<1>f. /\ [Idle EXCEPT !.op = "aborted"] \in Session
      /\ [Idle EXCEPT !.op = "aborted"].op # "closing"
      /\ [Idle EXCEPT !.op = "closed"] \in Session
      /\ [Idle EXCEPT !.op = "closed"].op # "closing"
      /\ [Idle EXCEPT !.op = "closing"] \in Session
      /\ \A todo \in SUBSET Tasks :
            /\ [Idle EXCEPT !.op = "fence", !.todo = todo] \in Session
            /\ [Idle EXCEPT !.op = "fence", !.todo = todo].op # "closing"
  BY DEF Idle, Session, Handlers
<1>d. receipts[s] \in SUBSET Tasks /\ session[s].todo \in SUBSET Tasks
  BY <1>t DEF TypeOK, Session
<1>1. CASE PeerLost(s)
  BY <1>1 DEF PeerLost, SubscriberInv, HasOwner
<1>2. CASE BeginClose(s)
  <2>1. /\ UNCHANGED <<active, pending, up>> /\ s \notin up
        /\ session' = [session EXCEPT ![s] = [Idle EXCEPT !.op = "closing"]]
    BY <1>2 DEF BeginClose, Handle
  <2> QED
    BY <1>t, <2>1 DEF SubscriberInv, HasOwner, TypeOK
<1>3. CASE Detach(s)
  <2>1. /\ s \notin up /\ UNCHANGED up
        /\ active' = Detached(active, {s}) /\ pending' = Detached(pending, {s})
        /\ Handle(s, [Idle EXCEPT !.op = "fence", !.todo = receipts[s]])
    BY <1>3 DEF Detach, SubscriberInv
  <2>2. {s} \cap (up \ SlowPeers) = {}
    BY <2>1
  <2>3. KeepsOwner(active, active') /\ KeepsOwner(pending, pending')
    BY <1>t, <2>1, <2>2, DetachedKeepsOwner DEF TypeOK
  <2>4. \A r \in Sockets : session'[r].op = "closing" => session[r].op = "closing"
    BY <1>t, <1>f, <1>d, <2>1, HandleSteady
  <2> QED
    BY <2>1, <2>3, <2>4, SteadyLemma DEF Steady
<1>4. ASSUME NEW r \in Tasks, FenceOwned(s, r)
      PROVE  SubscriberInv'
  <2>1. UNCHANGED up /\ active' \in {active, None} /\ pending' = pending
    BY <1>4 DEF FenceOwned, FenceActive
  <2>2. \A q \in Sockets : session'[q].op = "closing" => session[q].op = "closing"
    <3>1. CASE IsCurrent(r)
      <4>1. PICK y : session' = [session EXCEPT ![s] = y] /\ y.op # "closing"
        BY <1>4, <3>1 DEF FenceOwned, Handle
      <4> QED
        BY <1>t, <4>1 DEF TypeOK
    <3>2. CASE ~IsCurrent(r)
      <4> DEFINE y == [session[s] EXCEPT !.todo = @ \ {r}]
      <4>1. session' = [session EXCEPT ![s] = y]
        BY <1>4, <3>2 DEF FenceOwned, Handle
      <4>2. y.op = session[s].op
        BY <1>t DEF Session
      <4> HIDE DEF y
      <4> QED
        BY <1>t, <4>1, <4>2 DEF TypeOK
    <3> QED
      BY <3>1, <3>2
  <2>3. KeepsOwner(active, active') /\ KeepsOwner(pending, pending')
    BY <2>1, SlotKeepsOwner
  <2> QED
    BY <2>1, <2>2, <2>3, SteadyLemma DEF Steady
<1>5. CASE FenceJoined(s) \/ FenceDone(s)
  <2>1. PICK op \in {"fenceNotify", "gather"} : Handle(s, Handling(s, op))
    BY <1>5 DEF FenceJoined, FenceDone
  <2>2. Handling(s, op) \in Session /\ Handling(s, op).op # "closing"
    BY <1>t, HandlersMoveOn DEF Handlers
  <2>3. UNCHANGED <<active, pending, up>>
    BY <1>5 DEF FenceJoined, FenceDone
  <2> QED
    BY <1>t, <2>1, <2>2, <2>3, LoopGoesOn
<1>6. CASE FenceNotify(s)
  BY <1>t, <1>f, <1>d, <1>6, LoopPublishes DEF FenceNotify
<1>7. CASE AbortDisconnect(s)
  BY <1>t, <1>f, <1>7, LoopPublishes DEF AbortDisconnect
<1>8. CASE RevokeOwned(s)
  BY <1>t, <1>f, <1>8, LoopGoesOn DEF RevokeOwned
<1> QED
  BY <1>1, <1>2, <1>3, <1>4, <1>5, <1>6, <1>7, <1>8 DEF Disconnect

LEMMA SubscriberInit == Init => SubscriberInv
BY DEF Init, SubscriberInv, HasOwner, Idle

LEMMA SubscriberNext ==
    ASSUME Inductive, Inductive', SubscriberInv, [Next]_vars
    PROVE  SubscriberInv'
<1>1. CASE UNCHANGED vars
  BY <1>1 DEF SubscriberInv, HasOwner
<1>2. ASSUME NEW t \in Tasks, Admission(t) \/ Work(t) \/ PublishAcquiring(t)
      PROVE  SubscriberInv'
  BY <1>2, AdmissionKeeps, WorkKeeps
<1>3. ASSUME NEW s \in Sockets,
             Progress(s) \/ Disconnect(s) \/ PeerLost(s) \/ BeginClose(s)
      PROVE  SubscriberInv'
  BY <1>3, ProgressKeeps, DisconnectKeeps
<1>4. ASSUME NEW s \in Sockets, NEW a \in Attempts, Message(s, a)
      PROVE  SubscriberInv'
  BY <1>4, MessageKeeps
<1>5. ASSUME NEW a \in Attempts, TerminalExpires(a) \/ MediaExpires(a)
      PROVE  SubscriberInv'
  <2>1. UNCHANGED <<active, pending, up, session>>
    BY <1>5 DEF TerminalExpires, MediaExpires
  <2> QED
    BY <2>1 DEF SubscriberInv, HasOwner
<1>6. CASE CleanupFinishes \/ BeginShutdown \/ EndShutdown \/ Terminated
  <2>1. /\ UNCHANGED <<up, session>>
        /\ active' \in {active, None} /\ pending' \in {pending, None}
    BY <1>6 DEF CleanupFinishes, FinishCleanup, BeginShutdown, EndShutdown,
       Terminated
  <2> QED
    BY <2>1, SlotKeepsOwner, SteadyLemma DEF Steady
<1>7. ASSUME NEW s \in Sockets, PublicationEnds(s)
      PROVE  SubscriberInv'
  <2>1. /\ UNCHANGED <<up, session>>
        /\ {s} \cap (up \ SlowPeers) = {}
        /\ active \in ActiveAttempt \cup {None} /\ pending \in PendingAdmission \cup {None}
    BY <1>7 DEF PublicationEnds, Inductive, TypeOK
  <2>2. \/ UNCHANGED <<active, pending>>
        \/ active' = Detached(active, {s}) /\ pending' = Detached(pending, {s})
    BY <1>7 DEF PublicationEnds
  <2>3. KeepsOwner(active, active') /\ KeepsOwner(pending, pending')
    BY <2>1, <2>2, DetachedKeepsOwner, SlotKeepsOwner
  <2> QED
    BY <2>1, <2>3, SteadyLemma DEF Steady
<1> QED
  BY <1>1, <1>2, <1>3, <1>4, <1>5, <1>6, <1>7 DEF Next

(* However many duplicates subscribe, however full the table and whoever else  *)
(* is detached, late or at once: the owner of a live attempt that is reachable *)
(* and takes its messages in time is subscribed.                               *)
THEOREM OwnerStaysSubscribedHolds == Spec => []OwnerStaysSubscribed
<1>1. SubscriberInv => OwnerStaysSubscribed
  BY DEF SubscriberInv, HasOwner, OwnerStaysSubscribed
<1> QED
  BY <1>1, Invariance, SubscriberInit, SubscriberNext, PTL DEF Spec

-----------------------------------------------------------------------------
(* Grants.                                                                     *)
(*                                                                             *)
(* GrantsMatchTerminals for every bound of the history and of the result store *)
(* and every order of expiry, overflow, displacement, revocation and           *)
(* adjustment.  Each gate section keeps grants and terminals in step, whatever *)
(* set of attempts it forgets; the one section that could break them, a verdict*)
(* without a result over a granted one, is only ever given to an attempt that  *)
(* has no terminal (OneStandingPerAttempt).                                    *)

HasResult(h, a) == a \in Retained(h) /\ h.term[a].kind = "completed" /\ h.term[a].granted

(* Grants and terminals of history h are in step.                              *)
Matched(h) == \A a \in Attempts : a \in h.results <=> HasResult(h, a)

-----------------------------------------------------------------------------
(* The gate sections.                                                          *)

(* Terminals go with their results.                                            *)
LEMMA ForgetMatched ==
    ASSUME NEW h \in History, Matched(h), NEW ids
    PROVE  Matched(Forget(h, ids))
<1>1. \A a \in Attempts :
        /\ Forget(h, ids).term[a] = IF a \in ids THEN None ELSE h.term[a]
        /\ a \in Forget(h, ids).results <=> a \in h.results /\ a \notin ids
  BY DEF Forget, History
<1> QED
  BY <1>1 DEF Matched, HasResult, Retained

LEMMA PruneMatched ==
    ASSUME NEW h \in History, Matched(h)
    PROVE  Matched(Prune(h))
BY ForgetMatched DEF Prune

(* A terminal without a result is put where no result is granted.              *)
LEMMA PutMatched ==
    ASSUME NEW h \in History, Matched(h), NEW a \in Attempts \ Retained(h),
           NEW t \in TerminalAttempt, ~(t.kind = "completed" /\ t.granted)
    PROVE  Matched(Put(h, a, t))
<1>1. Put(h, a, t).results = h.results
  BY DEF Put, History
<1>2. a \notin h.results
  BY DEF Matched, HasResult
<1> QED
  BY <1>1, <1>2, PutLemma DEF Matched, HasResult

(* A result is admitted together with the terminal that advertises it.         *)
LEMMA GrantMatched ==
    ASSUME NEW h \in History, Matched(h), NEW a \in Attempts,
           NEW t \in TerminalAttempt, t.kind = "completed" /\ t.granted
    PROVE  Put(Grant(h, a), a, t) \in History /\ Matched(Put(Grant(h, a), a, t))
<1> DEFINE room == Forget(h, Displaced(h, a) \ {a})
<1>1. room \in History /\ Matched(room)
  BY ForgetLemma, ForgetMatched
<1>2. /\ Grant(h, a) \in History
      /\ Grant(h, a).term = room.term
      /\ Grant(h, a).results = room.results \cup {a}
  BY <1>1 DEF Grant, History
<1> HIDE DEF room
<1>3. Put(Grant(h, a), a, t).results = room.results \cup {a}
  BY <1>2 DEF Put, History
<1>4. /\ Put(Grant(h, a), a, t) \in History
      /\ Retained(Put(Grant(h, a), a, t)) = Retained(room) \cup {a}
      /\ Put(Grant(h, a), a, t).term[a] = t
      /\ \A b \in Attempts \ {a} : Put(Grant(h, a), a, t).term[b] = room.term[b]
  BY <1>2, PutLemma DEF Retained
<1> QED
  BY <1>1, <1>3, <1>4 DEF Matched, HasResult

LEMMA ConcludedMatched ==
    ASSUME NEW h \in History, Matched(h), NEW a \in Attempts \ Retained(h),
           NEW kind \in Kinds, NEW owner \in Sockets \cup {None}
    PROVE  Matched(Concluded(h, a, kind, owner))
<1> DEFINE t == Terminal(kind, owner)
<1>1. /\ t \in TerminalAttempt
      /\ t.kind = "completed" /\ t.granted <=> kind = "completed"
  BY DEF Terminal, TerminalAttempt, Kinds
<1> HIDE DEF t
<1>2. CASE kind = "completed"
  <2>1. Concluded(h, a, kind, owner) = Prune(Put(Grant(h, a), a, t))
    BY <1>2 DEF Concluded, t
  <2> QED
    BY <1>1, <1>2, <2>1, GrantMatched, PruneMatched
<1>3. CASE kind # "completed"
  <2>1. Concluded(h, a, kind, owner) = Prune(Put(h, a, t))
    BY <1>3 DEF Concluded, t
  <2>2. Put(h, a, t) \in History /\ Matched(Put(h, a, t))
    BY <1>1, <1>3, PutMatched, PutLemma
  <2> QED
    BY <2>1, <2>2, PruneMatched
<1> QED
  BY <1>2, <1>3

(* A verdict of an attempt that never was active.                              *)
LEMMA RefusedMatched ==
    ASSUME NEW h \in History, Matched(h), NEW a \in Attempts \ Retained(h),
           NEW kind \in {"failed", "canceled"}
    PROVE  Matched(Prune(Put(h, a, Terminal(kind, None))))
<1>1. /\ Terminal(kind, None) \in TerminalAttempt
      /\ Terminal(kind, None).kind # "completed"
  BY DEF Terminal, TerminalAttempt
<1>2. /\ Put(h, a, Terminal(kind, None)) \in History
      /\ Matched(Put(h, a, Terminal(kind, None)))
  BY <1>1, PutMatched, PutLemma
<1> QED
  BY <1>2, PruneMatched

(* A revoked grant is no longer advertised.                                    *)
LEMMA RevokeMatched ==
    ASSUME NEW h \in History, Matched(h), NEW ids
    PROVE  Matched(Revoke(h, ids))
<1>1. \A a \in Attempts :
        /\ a \in Revoke(h, ids).results <=> a \in h.results /\ a \notin ids
        /\ Revoke(h, ids).term[a] = IF a \in ids /\ h.term[a] # None
                                      THEN [h.term[a] EXCEPT !.granted = FALSE]
                                      ELSE h.term[a]
  BY DEF Revoke, History
<1>2. \A a \in Attempts :
        h.term[a] # None => ~[h.term[a] EXCEPT !.granted = FALSE].granted
  BY DEF History, TerminalAttempt
<1>3. \A a \in Attempts : a \in Retained(Revoke(h, ids)) <=> a \in Retained(h)
  BY RevokeLemma
<1> QED
  BY <1>1, <1>2, <1>3 DEF Matched, HasResult, Retained

(* An adjusted result is granted with its terminal.                            *)
LEMMA ReplaceMatched ==
    ASSUME NEW h \in History, Matched(h), NEW a \in Attempts, Completed(h, a)
    PROVE  Matched(Replace(h, a))
<1> DEFINE t == [h.term[a] EXCEPT !.granted = TRUE, !.stale = FALSE]
<1>1. t \in TerminalAttempt /\ t.kind = "completed" /\ t.granted
  BY DEF Completed, Retained, History, TerminalAttempt
<1>2. Replace(h, a) = Put(Grant(h, a), a, t)
  BY DEF Replace
<1> HIDE DEF t
<1> QED
  BY <1>1, <1>2, GrantMatched

(* A terminal that gets old is the terminal it was.                            *)
LEMMA ExpiresMatched ==
    ASSUME NEW h \in History, Matched(h), NEW a \in Retained(h)
    PROVE  Matched([h EXCEPT !.term[a].stale = TRUE])
<1> DEFINE g == [h EXCEPT !.term[a].stale = TRUE]
<1>1. /\ g.results = h.results /\ a \in Attempts
      /\ g.term = [h.term EXCEPT ![a] = [@ EXCEPT !.stale = TRUE]]
  BY DEF History, Retained
<1>2. h.term[a] \in TerminalAttempt
  BY DEF History, Retained
<1>3. /\ [h.term[a] EXCEPT !.stale = TRUE] \in TerminalAttempt
      /\ [h.term[a] EXCEPT !.stale = TRUE].kind = h.term[a].kind
      /\ [h.term[a] EXCEPT !.stale = TRUE].granted = h.term[a].granted
  BY <1>2 DEF TerminalAttempt
<1>4. /\ g.term[a] = [h.term[a] EXCEPT !.stale = TRUE]
      /\ \A b \in Attempts \ {a} : g.term[b] = h.term[b]
  BY <1>1 DEF History
<1> HIDE DEF g
<1>5. ASSUME NEW b \in Attempts PROVE HasResult(g, b) <=> HasResult(h, b)
  <2>1. CASE b # a
    BY <1>4, <2>1 DEF HasResult, Retained
  <2>2. CASE b = a
    <3>1. /\ g.term[b] # None /\ h.term[b] # None
          /\ g.term[b].kind = h.term[b].kind /\ g.term[b].granted = h.term[b].granted
      BY <1>2, <1>3, <1>4, <2>2, NoneApart
    <3> QED
      BY <3>1 DEF HasResult, Retained
  <2> QED
    BY <2>1, <2>2
<1>6. Matched(g)
  BY <1>1, <1>5 DEF Matched
<1> QED
  BY <1>6 DEF g

-----------------------------------------------------------------------------
(* The steps.                                                                  *)

GrantInv == Inductive /\ Matched(history)

(* A gate section that prunes, or none at all.                                 *)
LEMMA CalmMatched ==
    ASSUME GrantInv, history' \in {history, Prune(history)}
    PROVE  Matched(history)'
<1>1. history \in History /\ Matched(history)
  BY DEF GrantInv, Inductive, TypeOK
<1>2. Matched(Prune(history))
  BY <1>1, PruneMatched
<1> QED
  BY <1>1, <1>2 DEF Matched, HasResult, Retained

(* The history at hand, pruned or not, is well-formed and in step.             *)
LEMMA HistoryAtHand ==
    ASSUME GrantInv
    PROVE  \A h \in {history, Prune(history)} :
              /\ h \in History /\ Matched(h)
              /\ active # None => active.id \in Attempts \ Retained(h)
              /\ pending # None => pending.id \in Attempts \ Retained(h)
<1>1. history \in History /\ Matched(history)
  BY DEF GrantInv, Inductive, TypeOK
<1>2. /\ active # None => active.id \in Attempts \ Retained(history)
      /\ pending # None => pending.id \in Attempts \ Retained(history)
  BY DEF GrantInv, Inductive, TypeOK, OneStandingPerAttempt, ActiveAttempt,
     PendingAdmission
<1> QED
  BY <1>1, <1>2, PruneLemma, PruneMatched

(* The active attempt is concluded.                                            *)
LEMMA ConcludeMatched ==
    ASSUME GrantInv, active # None, NEW h \in {history, Prune(history)},
           NEW kind \in Kinds, Conclude(active, h, kind)
    PROVE  Matched(history)'
<1>1. active.owner \in Sockets
  BY DEF GrantInv, Inductive, TypeOK, ActiveAttempt
<1>2. Matched(Concluded(h, active.id, kind, active.owner))
  BY <1>1, HistoryAtHand, ConcludedMatched
<1>3. history' = Concluded(h, active.id, kind, active.owner)
  BY DEF Conclude
<1> QED
  BY <1>2, <1>3 DEF Matched, HasResult, Retained

(* A reservation is committed, refused or cancelled.                           *)
LEMMA CommitMatched ==
    ASSUME GrantInv, NEW t \in Tasks, NEW p \in PendingAdmission,
           p.id \notin Retained(Prune(history)),
           CommitAdmission(t, p, Prune(history))
    PROVE  Matched(history)'
<1> DEFINE h == Prune(history)
<1>1. /\ h \in History /\ Matched(h) /\ p.id \in Attempts \ Retained(h)
      /\ p.owner \in Sockets
  BY HistoryAtHand DEF PendingAdmission
<1>2. /\ Matched(Prune(Put(h, p.id, Terminal("failed", None))))
      /\ Matched(Concluded(h, p.id, "canceled", p.owner))
  BY <1>1, RefusedMatched, ConcludedMatched DEF Kinds
<1>3. history' \in {Prune(Put(h, p.id, Terminal("failed", None))),
                    Concluded(h, p.id, "canceled", p.owner), h}
  BY DEF CommitAdmission
<1> HIDE DEF h
<1> QED
  BY <1>1, <1>2, <1>3 DEF Matched, HasResult, Retained

LEMMA AdmissionMatched ==
    ASSUME GrantInv, NEW t \in Tasks, Admission(t)
    PROVE  Matched(history)'
<1>t. TypeOK /\ (pc[t] # "idle" => sock[t] \in Sockets /\ aid[t] \in Attempts)
  BY DEF GrantInv, Inductive, SlotInv, TasksKnowTheirStart
<1>1. CASE \/ ReplayTerminal(t) \/ JoinActive(t) \/ SendLatest(t)
           \/ WaitForCleanup(t) \/ JoinPending(t) \/ WaitForPending(t) \/ Retry(t)
           \/ ResolveJoined(t) \/ AnnounceDisplaced(t) \/ JoinPrior(t)
           \/ JoinTimeout(t) \/ JoinedCleanup(t) \/ AbandonAdmission(t)
  <2>1. history' \in {history, Prune(history)}
    BY <1>1 DEF ReplayTerminal, JoinActive, SendLatest, WaitForCleanup,
       JoinPending, WaitForPending, Retry, ResolveJoined, AnnounceDisplaced,
       JoinPrior, JoinTimeout, JoinedCleanup, AbandonAdmission
  <2> QED
    BY <2>1, CalmMatched
<1>2. CASE Displace(t)
  BY <1>2, ConcludeMatched DEF Displace, Kinds
<1>3. CASE AdmitFree(t)
  <2> DEFINE p == [id |-> aid[t], task |-> t, owner |-> sock[t],
                   subs |-> {sock[t]}, prior |-> None]
  <2>1. /\ CommitAdmission(t, p, Prune(history)) /\ pc[t] = "prepare"
        /\ aid[t] \notin Retained(Prune(history))
    BY <1>3 DEF AdmitFree, Unresolved
  <2>2. p \in PendingAdmission /\ p.id = aid[t]
    BY <1>t, <2>1 DEF PendingAdmission
  <2> HIDE DEF p
  <2> QED
    BY <2>1, <2>2, CommitMatched
<1>4. CASE Admit(t)
  <2>1. pc[t] = "admit" /\ t \notin cancelled
    BY <1>4 DEF Admit
  <2>2. pending # None /\ pending \in PendingAdmission
    BY <1>t, <2>1 DEF GrantInv, Inductive, SlotInv, SlotGuards, SlotEmptied,
       ReserversPend, Reserving, TypeOK
  <2> QED
    BY <1>4, <2>2, HistoryAtHand, CommitMatched DEF Admit
<1> QED
  BY <1>1, <1>2, <1>3, <1>4 DEF Admission

LEMMA WorkMatched ==
    ASSUME GrantInv, NEW t \in Tasks, Work(t) \/ PublishAcquiring(t)
    PROVE  Matched(history)'
<1>1. CASE \/ BeginAcquiring(t) \/ StartFails(t) \/ AcquisitionEnds(t)
           \/ Released(t) \/ GenerationEnds(t) \/ WorkerJoined(t)
           \/ PublishAcquiring(t)
  <2>1. history' = history
    BY <1>1 DEF BeginAcquiring, StartFails, AcquisitionEnds, Released,
       GenerationEnds, WorkerJoined, PublishAcquiring
  <2> QED
    BY <2>1, CalmMatched
<1>2. CASE Complete(t)
  BY <1>2, ConcludeMatched DEF Complete, IsCurrent, Kinds
<1>3. CASE End(t)
  <2>1. outcome[t] \in Kinds
    BY <1>3 DEF End, GrantInv, Inductive, SlotInv, TasksKnowTheirStart, Kinds
  <2> QED
    BY <1>3, <2>1, ConcludeMatched, CalmMatched DEF End, IsCurrent
<1> QED
  BY <1>1, <1>2, <1>3 DEF Work

LEMMA SessionMatched ==
    ASSUME GrantInv, NEW s \in Sockets,
           Progress(s) \/ Disconnect(s) \/ PeerLost(s) \/ BeginClose(s)
    PROVE  Matched(history)'
<1> DEFINE h == Prune(history)
<1>h. h \in History /\ Matched(h)
  BY HistoryAtHand
<1>1. CASE \/ JoinOrRejectAgain(s) \/ ReplayLatest(s) \/ PublishCanceled(s)
           \/ Detach(s) \/ FenceJoined(s) \/ FenceNotify(s) \/ AbortDisconnect(s)
           \/ FenceDone(s) \/ PeerLost(s) \/ BeginClose(s)
  <2>1. history' = history
    BY <1>1 DEF JoinOrRejectAgain, ReplayLatest, PublishCanceled, Detach,
       FenceJoined, FenceNotify, AbortDisconnect, FenceDone, PeerLost, BeginClose
  <2> QED
    BY <2>1, CalmMatched
<1>2. CASE JoinOrReject(s)
  <2> DEFINE a == session[s].id
  <2>1. a \in Attempts
    BY <1>2 DEF JoinOrReject, GrantInv, Inductive, SlotInv, HandlersKnowTheirAttempt
  <2>2. \/ history' = h
        \/ a \notin Retained(h) /\ history' = Prune(Put(h, a, Terminal("failed", None)))
    BY <1>2 DEF JoinOrReject
  <2>3. CASE history' = h
    BY <2>3, CalmMatched
  <2>4. CASE a \notin Retained(h) /\ history' = Prune(Put(h, a, Terminal("failed", None)))
    <3>1. Matched(Prune(Put(h, a, Terminal("failed", None))))
      BY <1>h, <2>1, <2>4, RefusedMatched
    <3> QED
      BY <2>4, <3>1 DEF Matched, HasResult, Retained
  <2> QED
    BY <2>2, <2>3, <2>4
<1>3. CASE EndAdjust(s)
  <2> DEFINE a == session[s].id
  <2>1. \/ history' \in {history, h}
        \/ Completed(h, a) /\ history' = Replace(h, a)
    BY <1>3 DEF EndAdjust
  <2>2. CASE Completed(h, a) /\ history' = Replace(h, a)
    <3>1. a \in Attempts
      BY <2>2 DEF Completed, Retained
    <3>2. Matched(Replace(h, a))
      BY <1>h, <2>2, <3>1, ReplaceMatched
    <3> QED
      BY <2>2, <3>2 DEF Matched, HasResult, Retained
  <2> QED
    BY <2>1, <2>2, CalmMatched
<1>4. ASSUME NEW r \in Tasks, FenceOwned(s, r)
      PROVE  Matched(history)'
  <2>1. CASE IsCurrent(r)
    BY <1>4, <2>1, ConcludeMatched DEF FenceOwned, FenceActive, IsCurrent, Kinds
  <2>2. CASE ~IsCurrent(r)
    BY <1>4, <2>2, CalmMatched DEF FenceOwned
  <2> QED
    BY <2>1, <2>2
<1>5. CASE RevokeOwned(s)
  <2>1. PICK ids : history' = Revoke(h, ids)
    BY <1>5 DEF RevokeOwned
  <2>2. Matched(Revoke(h, ids))
    BY <1>h, RevokeMatched
  <2> QED
    BY <2>1, <2>2 DEF Matched, HasResult, Retained
<1> QED
  BY <1>1, <1>2, <1>3, <1>4, <1>5 DEF Progress, Disconnect

LEMMA MessageMatched ==
    ASSUME GrantInv, NEW s \in Sockets, NEW a \in Attempts, Message(s, a)
    PROVE  Matched(history)'
<1>1. CASE (\E t \in Tasks : Start(s, t, a)) \/ Backpressure(s, a) \/ BeginAdjust(s, a)
  <2>1. history' = history
    BY <1>1 DEF Start, Backpressure, BeginAdjust
  <2> QED
    BY <2>1, CalmMatched
<1>2. CASE CancelAttempt(s, a)
  BY <1>2, ConcludeMatched DEF CancelAttempt, FenceActive, IsActive, Kinds
<1>3. CASE LeaveRoute(s, a)
  <2> DEFINE h == Prune(history)
  <2>1. history' \in {h, Revoke(h, {a})}
    BY <1>3 DEF LeaveRoute
  <2>2. CASE history' = h
    BY <2>2, CalmMatched
  <2>3. CASE history' = Revoke(h, {a})
    <3>1. Matched(Revoke(h, {a}))
      BY HistoryAtHand, RevokeMatched
    <3> QED
      BY <2>3, <3>1 DEF Matched, HasResult, Retained
  <2> QED
    BY <2>1, <2>2, <2>3
<1> QED
  BY <1>1, <1>2, <1>3 DEF Message

LEMMA ClockMatched ==
    ASSUME GrantInv,
           \/ \E a \in Attempts : TerminalExpires(a) \/ MediaExpires(a)
           \/ CleanupFinishes \/ BeginShutdown \/ EndShutdown \/ Terminated
    PROVE  Matched(history)'
<1>1. ASSUME NEW a \in Attempts, TerminalExpires(a)
      PROVE  Matched(history)'
  <2>1. a \in Retained(history) /\ history' = [history EXCEPT !.term[a].stale = TRUE]
    BY <1>1 DEF TerminalExpires
  <2>2. Matched([history EXCEPT !.term[a].stale = TRUE])
    BY <2>1, HistoryAtHand, ExpiresMatched
  <2> QED
    BY <2>1, <2>2 DEF Matched, HasResult, Retained
<1>2. CASE \/ \E a \in Attempts : MediaExpires(a)
           \/ CleanupFinishes \/ EndShutdown \/ Terminated
  <2>1. history' = history
    BY <1>2 DEF MediaExpires, CleanupFinishes, FinishCleanup, EndShutdown, Terminated
  <2> QED
    BY <2>1, CalmMatched
<1>3. CASE BeginShutdown
  <2>1. CASE active # None
    BY <1>3, <2>1, ConcludeMatched DEF BeginShutdown, Kinds
  <2>2. CASE active = None /\ pending # None
    <3>1. history' = Prune(Put(history, pending.id, Terminal("canceled", None)))
      BY <1>3, <2>2 DEF BeginShutdown
    <3>2. Matched(Prune(Put(history, pending.id, Terminal("canceled", None))))
      BY <2>2, HistoryAtHand, RefusedMatched
    <3> QED
      BY <3>1, <3>2 DEF Matched, HasResult, Retained
  <2>3. CASE active = None /\ pending = None
    BY <1>3, <2>3, CalmMatched DEF BeginShutdown
  <2> QED
    BY <2>1, <2>2, <2>3
<1> QED
  BY <1>1, <1>2, <1>3

LEMMA MatchedInit == Init => Matched(history)
BY DEF Init, Matched, HasResult, Retained

LEMMA MatchedNext == GrantInv /\ [Next]_vars => Matched(history)'
<1> SUFFICES ASSUME GrantInv, [Next]_vars
             PROVE  Matched(history)'
  OBVIOUS
<1>1. CASE UNCHANGED vars
  BY <1>1, CalmMatched
<1>2. CASE \E s \in Sockets : PublicationEnds(s)
  BY <1>2, CalmMatched DEF PublicationEnds
<1> QED
  BY <1>1, <1>2, AdmissionMatched, WorkMatched, SessionMatched, MessageMatched,
     ClockMatched DEF Next

(* The result store holds a capability exactly as long as a retained terminal  *)
(* advertises it, whatever is forgotten, displaced, revoked or replaced.       *)
THEOREM GrantsMatchTerminalsHolds == Spec => []GrantsMatchTerminals
<1>1. Matched(history) => GrantsMatchTerminals
  BY DEF Matched, HasResult, GrantsMatchTerminals, Completed
<1> QED
  BY <1>1, Invariance, MatchedInit, MatchedNext, PTL DEF Spec, GrantInv

-----------------------------------------------------------------------------
(* Refinement.                                                                 *)
(*                                                                             *)
(* The service implements the abstract lifecycle, for every set of attempts,   *)
(* connections and tasks and for every bound: initial states map to initial    *)
(* states, and every step to a step or a stutter.  Two facts are needed beside *)
(* the slot: the retained history is totally ordered by insertion and within   *)
(* its bound, so that only the gate sections that add a terminal evict one, and*)
(* never the one they add; and the task of the active attempt has not been     *)
(* cancelled, so that it does not let go before its verdict.                   *)

-----------------------------------------------------------------------------
(* The order of the retained history.                                          *)

(* _terminals is an ordered dictionary.                                        *)
Ordered(h) ==
    /\ IsFiniteSet(Retained(h))
    /\ \A a \in Retained(h) : <<a, a>> \notin h.older
    /\ \A a, b \in Retained(h) : a # b => <<a, b>> \in h.older \/ <<b, a>> \in h.older
    /\ \A a, b, c \in Retained(h) :
          <<a, b>> \in h.older /\ <<b, c>> \in h.older => <<a, c>> \in h.older

(* No terminal has as many newer ones as there may be terminals.               *)
Bounded(h) ==
    \A a \in Live(h) : Cardinality(NewerThan(h, a, Live(h))) < TerminalMax

Sound(h) == h \in History /\ Ordered(h) /\ Bounded(h)

(* The verdict on attempt a that history h still replays.                      *)
Verdict(h, a) == IF a \in Live(h) THEN h.term[a].kind ELSE "unknown"

(* In g every verdict of h stands or is forgotten.                             *)
Keeps(h, g, a) == Verdict(g, a) \in {Verdict(h, a), "unknown"}

LEMMA LiveFinite ==
    ASSUME NEW h, Ordered(h)
    PROVE  /\ IsFiniteSet(Live(h))
           /\ \A a : /\ IsFiniteSet(NewerThan(h, a, Live(h)))
                     /\ Cardinality(NewerThan(h, a, Live(h))) \in Nat
<1>1. IsFiniteSet(Live(h))
  BY FS_Subset DEF Ordered, Live
<1>2. \A a : NewerThan(h, a, Live(h)) \in SUBSET Live(h)
  BY DEF NewerThan
<1> QED
  BY <1>1, <1>2, FS_Subset, FS_CardinalityType

LEMMA ForgetOrdered ==
    ASSUME NEW h \in History, Ordered(h), NEW ids
    PROVE  /\ Forget(h, ids) \in History /\ Ordered(Forget(h, ids))
           /\ Live(Forget(h, ids)) = Live(h) \ ids
           /\ \A a \in Attempts : Keeps(h, Forget(h, ids), a)
           /\ \A a \in Live(h) \ ids : Verdict(Forget(h, ids), a) = Verdict(h, a)
           /\ \A a, b \in Retained(Forget(h, ids)) :
                 <<a, b>> \in Forget(h, ids).older <=> <<a, b>> \in h.older
<1> DEFINE g == Forget(h, ids)
<1>1. g \in History
  BY ForgetLemma
<1>2. Retained(g) = Retained(h) \ ids /\ \A a \in Retained(g) : g.term[a] = h.term[a]
  BY DEF Forget, Retained, History
<1>3. \A a, b \in Retained(g) : <<a, b>> \in g.older <=> <<a, b>> \in h.older
  BY <1>2 DEF Forget
<1> HIDE DEF g
<1>4. IsFiniteSet(Retained(g))
  BY <1>2, FS_Subset DEF Ordered
<1>5. Ordered(g)
  BY <1>2, <1>3, <1>4 DEF Ordered
<1>6. Live(g) = Live(h) \ ids
  BY <1>2 DEF Live, Expired
<1>7. /\ \A a \in Attempts : Keeps(h, g, a)
      /\ \A a \in Live(h) \ ids : Verdict(g, a) = Verdict(h, a)
  <2>1. \A a \in Live(g) : a \in Retained(g)
    BY DEF Live
  <2> QED
    BY <1>2, <1>6, <2>1 DEF Keeps, Verdict
<1> QED
  BY <1>1, <1>3, <1>5, <1>6, <1>7 DEF g

(* Forgetting brings nothing newer.                                            *)
LEMMA ForgetSound ==
    ASSUME NEW h \in History, Ordered(h), NEW ids,
           \A a \in Live(h) \ ids : Cardinality(NewerThan(h, a, Live(h))) < TerminalMax
    PROVE  Sound(Forget(h, ids))
<1> DEFINE g == Forget(h, ids)
<1>1. /\ g \in History /\ Ordered(g) /\ Live(g) = Live(h) \ ids
      /\ \A a, b \in Retained(g) : <<a, b>> \in g.older <=> <<a, b>> \in h.older
  BY ForgetOrdered
<1> HIDE DEF g
<1>2. ASSUME NEW a \in Live(g)
      PROVE  Cardinality(NewerThan(g, a, Live(g))) < TerminalMax
  <2>1. NewerThan(g, a, Live(g)) \in SUBSET NewerThan(h, a, Live(h))
    BY <1>1 DEF NewerThan, Live
  <2>2. /\ IsFiniteSet(NewerThan(h, a, Live(h)))
        /\ Cardinality(NewerThan(h, a, Live(h))) \in Nat
        /\ Cardinality(NewerThan(g, a, Live(g))) \in Nat
    BY <1>1, LiveFinite
  <2>3. Cardinality(NewerThan(g, a, Live(g))) <= Cardinality(NewerThan(h, a, Live(h)))
    BY <2>1, <2>2, FS_Subset
  <2>4. Cardinality(NewerThan(h, a, Live(h))) < TerminalMax
    BY <1>1
  <2> QED
    BY <2>2, <2>3, <2>4, BoundsAssumption
<1> QED
  BY <1>1, <1>2 DEF Sound, Bounded, g

(* Pruning an ordered history keeps its bound ...                              *)
LEMMA PruneOrdered ==
    ASSUME NEW h \in History, Ordered(h)
    PROVE  Sound(Prune(h)) /\ \A a \in Attempts : Keeps(h, Prune(h), a)
<1> DEFINE ids == Expired(h) \cup Overflow(h)
<1>1. \A a \in Live(h) \ ids : Cardinality(NewerThan(h, a, Live(h))) < TerminalMax
  <2> SUFFICES ASSUME NEW a \in Live(h), a \notin Overflow(h)
               PROVE  Cardinality(NewerThan(h, a, Live(h))) < TerminalMax
    OBVIOUS
  <2>1. Cardinality(NewerThan(h, a, Live(h))) \in Nat
    BY LiveFinite
  <2> QED
    BY <2>1, BoundsAssumption DEF Overflow
<1> HIDE DEF ids
<1>2. Sound(Forget(h, ids)) /\ \A a \in Attempts : Keeps(h, Forget(h, ids), a)
  BY <1>1, ForgetSound, ForgetOrdered
<1> QED
  BY <1>2 DEF Prune, ids

(* ... and one within its bound forgets only what has expired.                 *)
LEMMA PruneSound ==
    ASSUME NEW h, Sound(h)
    PROVE  /\ Sound(Prune(h)) /\ Retained(Prune(h)) = Live(h)
           /\ \A a \in Attempts : Verdict(Prune(h), a) = Verdict(h, a)
<1>1. Overflow(h) = {}
  <2> SUFFICES ASSUME NEW a \in Overflow(h) PROVE FALSE
    OBVIOUS
  <2>1. a \in Live(h) /\ Cardinality(NewerThan(h, a, Live(h))) >= TerminalMax
    BY DEF Overflow
  <2>2. /\ Cardinality(NewerThan(h, a, Live(h))) < TerminalMax
        /\ Cardinality(NewerThan(h, a, Live(h))) \in Nat
    BY <2>1, LiveFinite DEF Sound, Bounded
  <2> QED
    BY <2>1, <2>2, BoundsAssumption
<1>2. Prune(h) = Forget(h, Expired(h))
  BY <1>1 DEF Prune
<1>3. Retained(Forget(h, Expired(h))) = Live(h)
  BY DEF Sound, Forget, Retained, Live, Expired, History
<1>4. /\ Live(Forget(h, Expired(h))) = Live(h)
      /\ \A a \in Live(h) : Verdict(Forget(h, Expired(h)), a) = Verdict(h, a)
  BY ForgetOrdered DEF Sound, Live
<1> QED
  BY <1>2, <1>3, <1>4, PruneOrdered DEF Sound, Verdict

(* A terminal goes to the end of the order.                                    *)
LEMMA PutOrdered ==
    ASSUME NEW h \in History, Ordered(h), NEW a \in Attempts,
           NEW t \in TerminalAttempt, ~t.stale
    PROVE  /\ Put(h, a, t) \in History /\ Ordered(Put(h, a, t))
           /\ Live(Put(h, a, t)) = Live(h) \cup {a}
           /\ Verdict(Put(h, a, t), a) = t.kind
           /\ \A b \in Attempts \ {a} : Verdict(Put(h, a, t), b) = Verdict(h, b)
           /\ \A b, c \in Attempts :
                 <<b, c>> \in Put(h, a, t).older <=>
                    \/ b # a /\ c # a /\ <<b, c>> \in h.older
                    \/ c = a /\ b \in Retained(h) \ {a}
<1> DEFINE g == Put(h, a, t)
<1>1. /\ g \in History /\ Retained(g) = Retained(h) \cup {a} /\ g.term[a] = t
      /\ \A b \in Attempts \ {a} : g.term[b] = h.term[b]
  BY PutLemma
<1>2. g.older = {p \in h.older : p[1] # a /\ p[2] # a}
                   \cup ((Retained(h) \ {a}) \X {a})
  BY DEF Put, History
<1>3. \A b, c \in Attempts :
        <<b, c>> \in g.older <=>
           \/ b # a /\ c # a /\ <<b, c>> \in h.older
           \/ c = a /\ b \in Retained(h) \ {a}
  BY <1>2
<1> HIDE DEF g
<1>4. Retained(h) \subseteq Attempts
  BY DEF Retained
<1>5. IsFiniteSet(Retained(g))
  BY <1>1, FS_AddElement DEF Ordered
<1>6. Ordered(g)
  BY <1>1, <1>3, <1>4, <1>5 DEF Ordered
<1>7. Live(g) = Live(h) \cup {a}
  BY <1>1, <1>4 DEF Live, Expired
<1>8. /\ Verdict(g, a) = t.kind
      /\ \A b \in Attempts \ {a} : Verdict(g, b) = Verdict(h, b)
  BY <1>1, <1>7 DEF Verdict
<1> QED
  BY <1>1, <1>3, <1>6, <1>7, <1>8 DEF g

(* A new terminal survives the pruning of the section that puts it.            *)
LEMMA PutPruned ==
    ASSUME NEW h \in History, Ordered(h), NEW a \in Attempts,
           NEW t \in TerminalAttempt, ~t.stale
    PROVE  /\ Sound(Prune(Put(h, a, t)))
           /\ Verdict(Prune(Put(h, a, t)), a) = t.kind
           /\ \A b \in Attempts \ {a} : Keeps(h, Prune(Put(h, a, t)), b)
<1> DEFINE g == Put(h, a, t)
<1>1. /\ g \in History /\ Ordered(g) /\ Live(g) = Live(h) \cup {a}
      /\ Verdict(g, a) = t.kind
      /\ \A b \in Attempts \ {a} : Verdict(g, b) = Verdict(h, b)
      /\ \A b \in Attempts : <<a, b>> \notin g.older
  BY PutOrdered
<1> HIDE DEF g
<1>2. a \notin Overflow(g)
  <2>1. NewerThan(g, a, Live(g)) = {}
    BY <1>1 DEF NewerThan, Live, Retained
  <2> QED
    BY <2>1, FS_EmptySet, BoundsAssumption DEF Overflow
<1>3. a \notin Expired(g)
  BY <1>1 DEF Live
<1>4. Verdict(Prune(g), a) = t.kind
  BY <1>1, <1>2, <1>3, ForgetOrdered DEF Prune
<1>5. Sound(Prune(g)) /\ \A b \in Attempts : Keeps(g, Prune(g), b)
  BY <1>1, PruneOrdered
<1>6. \A b \in Attempts \ {a} : Keeps(h, Prune(g), b)
  BY <1>1, <1>5 DEF Keeps
<1> QED
  BY <1>4, <1>5, <1>6 DEF g

(* Making room for a grant forgets others.                                     *)
LEMMA GrantSound ==
    ASSUME NEW h, Sound(h), NEW a \in Attempts
    PROVE  /\ Sound(Grant(h, a))
           /\ \A b \in Attempts : Keeps(h, Grant(h, a), b)
           /\ Verdict(Grant(h, a), a) = Verdict(h, a)
           /\ a \in Live(h) => a \in Live(Grant(h, a))
<1> DEFINE ids == Displaced(h, a) \ {a}
           room == Forget(h, ids)
<1>0. a \notin ids
  OBVIOUS
<1> HIDE DEF ids
<1>1. /\ Sound(room) /\ \A b \in Attempts : Keeps(h, room, b)
      /\ Live(room) = Live(h) \ ids
      /\ \A b \in Live(h) \ ids : Verdict(room, b) = Verdict(h, b)
  BY ForgetOrdered, ForgetSound DEF Sound, Bounded
<1> HIDE DEF room
<1>2. /\ Grant(h, a) \in History
      /\ Grant(h, a).term = room.term /\ Grant(h, a).older = room.older
  BY <1>1 DEF Grant, Sound, History, room, ids
<1>3. /\ Retained(Grant(h, a)) = Retained(room)
      /\ Live(Grant(h, a)) = Live(room)
      /\ \A b : NewerThan(Grant(h, a), b, Live(room)) = NewerThan(room, b, Live(room))
  BY <1>2 DEF Retained, Live, Expired, NewerThan
<1>4. Sound(Grant(h, a)) /\ \A b \in Attempts : Verdict(Grant(h, a), b) = Verdict(room, b)
  BY <1>1, <1>2, <1>3 DEF Sound, Ordered, Bounded, Verdict
<1> QED
  BY <1>0, <1>1, <1>3, <1>4 DEF Keeps, Verdict

(* A verdict is added, and others are forgotten at most.                       *)
LEMMA ConcludedSound ==
    ASSUME NEW h, Sound(h), NEW a \in Attempts, NEW kind \in Kinds,
           NEW owner \in Sockets \cup {None}
    PROVE  /\ Sound(Concluded(h, a, kind, owner))
           /\ Verdict(Concluded(h, a, kind, owner), a) = kind
           /\ \A b \in Attempts \ {a} : Keeps(h, Concluded(h, a, kind, owner), b)
<1> DEFINE t == Terminal(kind, owner)
           room == IF kind = "completed" THEN Grant(h, a) ELSE h
<1>1. t \in TerminalAttempt /\ t.kind = kind /\ ~t.stale
  BY DEF Terminal, TerminalAttempt, Kinds
<1>2. Sound(room) /\ \A b \in Attempts : Keeps(h, room, b)
  BY GrantSound DEF Keeps
<1>3. Concluded(h, a, kind, owner) = Prune(Put(room, a, t))
  BY DEF Concluded
<1> HIDE DEF t, room
<1>4. /\ Sound(Prune(Put(room, a, t)))
      /\ Verdict(Prune(Put(room, a, t)), a) = kind
      /\ \A b \in Attempts \ {a} : Keeps(room, Prune(Put(room, a, t)), b)
  BY <1>1, <1>2, PutPruned DEF Sound
<1> QED
  BY <1>2, <1>3, <1>4 DEF Keeps

LEMMA RefusedSound ==
    ASSUME NEW h, Sound(h), NEW a \in Attempts, NEW kind \in {"failed", "canceled"}
    PROVE  /\ Sound(Prune(Put(h, a, Terminal(kind, None))))
           /\ Verdict(Prune(Put(h, a, Terminal(kind, None))), a) = kind
           /\ \A b \in Attempts \ {a} :
                 Keeps(h, Prune(Put(h, a, Terminal(kind, None))), b)
<1>1. /\ Terminal(kind, None) \in TerminalAttempt
      /\ Terminal(kind, None).kind = kind /\ ~Terminal(kind, None).stale
  BY DEF Terminal, TerminalAttempt
<1> QED
  BY <1>1, PutPruned DEF Sound

(* Revoking a grant touches neither order nor verdict.                         *)
LEMMA RevokeSound ==
    ASSUME NEW h, Sound(h), NEW ids
    PROVE  Sound(Revoke(h, ids)) /\ \A a \in Attempts : Verdict(Revoke(h, ids), a) = Verdict(h, a)
<1> DEFINE g == Revoke(h, ids)
<1>1. g \in History /\ Retained(g) = Retained(h) /\ h \in History
  BY RevokeLemma DEF Sound
<1>2. /\ g.older = h.older
      /\ \A a \in Attempts : g.term[a] = IF a \in ids /\ h.term[a] # None
                                           THEN [h.term[a] EXCEPT !.granted = FALSE]
                                           ELSE h.term[a]
  BY <1>1 DEF Revoke, History
<1>3. \A a \in Retained(h) : g.term[a].stale = h.term[a].stale /\ g.term[a].kind = h.term[a].kind
  BY <1>1, <1>2 DEF Retained, History, TerminalAttempt
<1> HIDE DEF g
<1>4. Live(g) = Live(h)
  BY <1>1, <1>3 DEF Live, Expired
<1>5. \A a : NewerThan(g, a, Live(g)) = NewerThan(h, a, Live(h))
  BY <1>2, <1>4 DEF NewerThan
<1>6. Sound(g)
  BY <1>1, <1>2, <1>4, <1>5 DEF Sound, Ordered, Bounded
<1>7. \A a \in Attempts : Verdict(g, a) = Verdict(h, a)
  BY <1>3, <1>4 DEF Verdict, Live
<1> QED
  BY <1>6, <1>7 DEF g

(* A terminal that gets old leaves the live ones.                              *)
LEMMA ExpireSound ==
    ASSUME NEW h, Sound(h), NEW a \in Retained(h)
    PROVE  /\ Sound([h EXCEPT !.term[a].stale = TRUE])
           /\ \A b \in Attempts : Keeps(h, [h EXCEPT !.term[a].stale = TRUE], b)
<1> DEFINE g == [h EXCEPT !.term[a].stale = TRUE]
<1>1. h \in History /\ a \in Attempts /\ h.term[a] \in TerminalAttempt
  BY DEF Sound, History, Retained
<1>2. /\ [h.term[a] EXCEPT !.stale = TRUE] \in TerminalAttempt
      /\ [h.term[a] EXCEPT !.stale = TRUE].stale
  BY <1>1 DEF TerminalAttempt
<1>3. /\ g.older = h.older /\ g.results = h.results
      /\ g.term = [h.term EXCEPT ![a] = [@ EXCEPT !.stale = TRUE]]
  BY <1>1 DEF History
<1>4. /\ g.term[a] = [h.term[a] EXCEPT !.stale = TRUE]
      /\ \A b \in Attempts \ {a} : g.term[b] = h.term[b]
  BY <1>1, <1>3 DEF History
<1>5. g \in History
  BY <1>1, <1>2, <1>3 DEF History
<1> HIDE DEF g
<1>6. Retained(g) = Retained(h) /\ Live(g) = Live(h) \ {a}
  <2>1. Retained(g) = Retained(h)
    BY <1>1, <1>2, <1>4, NoneApart DEF Retained
  <2> QED
    BY <1>1, <1>2, <1>4, <2>1 DEF Live, Expired, Retained
<1>7. Ordered(g)
  BY <1>3, <1>6 DEF Ordered, Sound
<1>8. ASSUME NEW b \in Live(g)
      PROVE  Cardinality(NewerThan(g, b, Live(g))) < TerminalMax
  <2>1. NewerThan(g, b, Live(g)) \in SUBSET NewerThan(h, b, Live(h))
    BY <1>3, <1>6 DEF NewerThan
  <2>2. /\ IsFiniteSet(NewerThan(h, b, Live(h)))
        /\ Cardinality(NewerThan(h, b, Live(h))) \in Nat
        /\ Cardinality(NewerThan(g, b, Live(g))) \in Nat
    BY <1>7, LiveFinite DEF Sound
  <2>3. Cardinality(NewerThan(g, b, Live(g))) <= Cardinality(NewerThan(h, b, Live(h)))
    BY <2>1, <2>2, FS_Subset
  <2>4. Cardinality(NewerThan(h, b, Live(h))) < TerminalMax
    BY <1>6 DEF Sound, Bounded
  <2> QED
    BY <2>2, <2>3, <2>4, BoundsAssumption
<1>9. \A b \in Attempts : Keeps(h, g, b)
  BY <1>4, <1>6 DEF Keeps, Verdict
<1> QED
  BY <1>5, <1>7, <1>8, <1>9 DEF Sound, Bounded, g

(* A replaced result moves its terminal to the end; one that was older than it *)
(* has had it among the newer, one that was newer had fewer than it.           *)
LEMMA ReplaceSound ==
    ASSUME NEW h, Sound(h), NEW a \in Live(h)
    PROVE  /\ Sound(Replace(h, a))
           /\ \A b \in Attempts : Keeps(h, Replace(h, a), b)
<1> DEFINE t == [h.term[a] EXCEPT !.granted = TRUE, !.stale = FALSE]
           room == Grant(h, a)
           g == Put(room, a, t)
<1>1. h \in History /\ a \in Attempts /\ h.term[a] \in TerminalAttempt
  BY DEF Sound, History, Retained, Live
<1>2. t \in TerminalAttempt /\ t.kind = h.term[a].kind /\ ~t.stale
  BY <1>1 DEF TerminalAttempt
<1>3. Replace(h, a) = g
  BY DEF Replace
<1>4. /\ Sound(room) /\ a \in Live(room) /\ Verdict(room, a) = Verdict(h, a)
      /\ \A b \in Attempts : Keeps(h, room, b)
  BY <1>1, GrantSound
<1> HIDE DEF t, room
<1>r. room \in History /\ Ordered(room)
  BY <1>4 DEF Sound
<1>p. /\ g \in History /\ Ordered(g) /\ Live(g) = Live(room) \cup {a}
      /\ Verdict(g, a) = t.kind
      /\ \A b \in Attempts \ {a} : Verdict(g, b) = Verdict(room, b)
      /\ \A b, c \in Attempts :
            <<b, c>> \in g.older <=>
               \/ b # a /\ c # a /\ <<b, c>> \in room.older
               \/ c = a /\ b \in Retained(room) \ {a}
  BY <1>1, <1>2, <1>r, PutOrdered
<1> HIDE DEF g
<1>5. Live(g) = Live(room)
  BY <1>4, <1>p
<1>6. Live(room) \subseteq Retained(room) /\ Retained(room) \subseteq Attempts
  BY DEF Live, Retained
<1>7. ASSUME NEW b \in Live(g)
      PROVE  Cardinality(NewerThan(g, b, Live(g))) < TerminalMax
  <2> DEFINE before(x) == NewerThan(room, x, Live(room))
             now == NewerThan(g, b, Live(g))
  <2>0. \A x : IsFiniteSet(before(x)) /\ Cardinality(before(x)) \in Nat
    BY <1>4, LiveFinite DEF Sound
  <2>1. \A x \in Live(room) : Cardinality(before(x)) < TerminalMax
    BY <1>4 DEF Sound, Bounded
  <2>2. CASE b = a
    <3>1. now = {}
      BY <1>5, <1>p, <1>6, <2>2 DEF NewerThan
    <3> QED
      BY <3>1, FS_EmptySet, BoundsAssumption
  <2>3. CASE b # a /\ <<b, a>> \in room.older
    <3>1. now = before(b)
      BY <1>4, <1>5, <1>p, <1>6, <2>3 DEF NewerThan
    <3> QED
      BY <1>5, <2>1, <3>1
  <2>4. CASE b # a /\ <<b, a>> \notin room.older
    <3>1. <<a, b>> \in room.older
      BY <1>4, <1>5, <1>p, <1>6, <2>4 DEF Sound, Ordered
    <3>2. now = before(b) \cup {a} /\ a \notin before(b)
      BY <1>4, <1>5, <1>p, <1>6, <2>4 DEF NewerThan
    <3>3. before(b) \cup {b} \in SUBSET before(a) /\ b \notin before(b)
      BY <1>4, <1>5, <1>p, <1>6, <3>1 DEF NewerThan, Sound, Ordered
    <3> HIDE DEF now, before
    <3>4. /\ Cardinality(now) = Cardinality(before(b)) + 1
          /\ Cardinality(before(b) \cup {b}) = Cardinality(before(b)) + 1
      BY <2>0, <3>2, <3>3, FS_AddElement
    <3>5. Cardinality(before(b) \cup {b}) <= Cardinality(before(a))
      BY <2>0, <3>3, FS_Subset
    <3>6. Cardinality(before(a)) < TerminalMax
      BY <1>4, <2>1
    <3> QED
      BY <2>0, <3>4, <3>5, <3>6, BoundsAssumption DEF now
  <2> QED
    BY <2>2, <2>3, <2>4
<1>8. \A b \in Attempts : Keeps(h, g, b)
  BY <1>2, <1>4, <1>p DEF Keeps, Verdict
<1> QED
  BY <1>3, <1>p, <1>7, <1>8 DEF Sound, Bounded

-----------------------------------------------------------------------------
(* The mapping.                                                                *)

(* The task of the active attempt has not been told to stop.                   *)
Uncancelled == active # None => active.task \notin cancelled

LifecycleInv == Inductive /\ Sound(history) /\ Uncancelled

lifecycle == <<[a \in Attempts |-> Stage(a)], Worker>>

(* What has to be shown of every step.                                         *)
Simulated == Sound(history)' /\ Uncancelled' /\ [Lifecycle!Next]_lifecycle

(* The stage of b stays, or its verdict is forgotten.                          *)
StageKept(b) ==
    \/ Stage(b)' = Stage(b)
    \/ Stage(b) \in Lifecycle!Verdicts /\ Stage(b)' = "unknown"

LEMMA StageIs ==
    ASSUME NEW b \in Attempts
    PROVE  Stage(b) = IF IsActive(b) THEN "live" ELSE Verdict(history, b)
BY DEF Stage, Verdict, Live

LEMMA StageKeptLemma ==
    ASSUME Sound(history), NEW b \in Attempts, IsActive(b)' <=> IsActive(b),
           Keeps(history, history', b)
    PROVE  StageKept(b)
<1>1. b \in Live(history) => history.term[b].kind \in Kinds
  BY DEF Sound, Live, Retained, History, TerminalAttempt, Kinds
<1>2. /\ Stage(b) = IF IsActive(b) THEN "live" ELSE Verdict(history, b)
      /\ Stage(b)' = IF IsActive(b)' THEN "live" ELSE Verdict(history', b)
  BY DEF Stage, Verdict, Live
<1> QED
  BY <1>1, <1>2 DEF StageKept, Keeps, Verdict, Lifecycle!Verdicts, Kinds

LEMMA EnterLemma ==
    ASSUME NEW a \in Attempts, NEW x, Stage(a)' = x,
           \A b \in Attempts \ {a} : StageKept(b)
    PROVE  Lifecycle!Enter(a, x)
<1> DEFINE gone == {b \in Attempts : Stage(b) \in Lifecycle!Verdicts /\ Stage(b)' = "unknown"}
<1>1. gone \in SUBSET Lifecycle!Concluded
  BY DEF Lifecycle!Concluded
<1>2. [b \in Attempts |-> Stage(b)]'
        = [b \in Attempts |-> IF b = a THEN x
                              ELSE IF b \in gone THEN "unknown"
                              ELSE [c \in Attempts |-> Stage(c)][b]]
  BY DEF StageKept
<1> HIDE DEF gone
<1> QED
  BY <1>1, <1>2 DEF Lifecycle!Enter

LEMMA ForgetLemmaOfStages ==
    ASSUME \A b \in Attempts : StageKept(b), Worker' = Worker
    PROVE  Lifecycle!ForgetSome
<1> DEFINE gone == {b \in Attempts : Stage(b) \in Lifecycle!Verdicts /\ Stage(b)' = "unknown"}
<1>1. gone \in SUBSET Lifecycle!Concluded
  BY DEF Lifecycle!Concluded
<1>2. [b \in Attempts |-> Stage(b)]'
        = [b \in Attempts |-> IF b \in gone THEN "unknown"
                              ELSE [c \in Attempts |-> Stage(c)][b]]
  BY DEF StageKept
<1> HIDE DEF gone
<1> QED
  BY <1>1, <1>2 DEF Lifecycle!ForgetSome

(* Who works.                                                                  *)
SameWork == Working' = Working /\ \A t \in Working : aid'[t] = aid[t]

LEMMA WorkerLemma ==
    ASSUME SameWork
    PROVE  Worker' = Worker
<1>1. CASE Working = {}
  BY <1>1 DEF Worker, SameWork
<1>2. CASE Working # {}
  <2>1. (CHOOSE t \in Working : TRUE) \in Working
    BY <1>2
  <2>2. Worker' = aid'[CHOOSE t \in Working : TRUE]
    BY <1>2 DEF Worker, SameWork
  <2> QED
    BY <1>2, <2>1, <2>2 DEF Worker, SameWork
<1> QED
  BY <1>1, <1>2

LEMMA SoleWorkerLemma ==
    ASSUME NEW t \in Tasks, Working = {t}
    PROVE  Worker = aid[t]
<1>1. (CHOOSE u \in Working : TRUE) = t
  OBVIOUS
<1> QED
  BY <1>1 DEF Worker

(* Nobody but t lets go.                                                       *)
LEMMA LeavesWork ==
    ASSUME Inductive, NEW t \in Working, Working' = Working \ {t}
    PROVE  Worker' = None /\ Worker # None
<1>1. Working = {t} /\ t \in Tasks /\ pc[t] \in WorkPCs
  BY DEF Inductive, SlotInv, SingleWorker, Working
<1>2. aid[t] \in Attempts
  BY <1>1 DEF Inductive, SlotInv, TasksKnowTheirStart, WorkPCs
<1> QED
  BY <1>1, <1>2, SoleWorkerLemma, NoneApart DEF Worker

-----------------------------------------------------------------------------
(* The kinds of steps.                                                         *)

SameActive ==
    /\ active' = None <=> active = None
    /\ active # None => /\ active'.id = active.id /\ active'.task = active.task
                        /\ active.task \notin cancelled'

(* The slot and the work stay; verdicts are forgotten at most.                 *)
LEMMA KeepsSimulated ==
    ASSUME LifecycleInv, SameActive, SameWork, Sound(history'),
           \A b \in Attempts : Keeps(history, history', b)
    PROVE  Simulated
<1>1. \A b \in Attempts : StageKept(b)
  BY StageKeptLemma DEF LifecycleInv, SameActive, IsActive
<1>2. Lifecycle!ForgetSome
  BY <1>1, WorkerLemma, ForgetLemmaOfStages
<1>3. Uncancelled'
  BY DEF SameActive, Uncancelled
<1>4. Sound(history)'
  BY DEF Sound, Ordered, Bounded, Live, Expired, Retained, NewerThan
<1> QED
  BY <1>2, <1>3, <1>4 DEF Simulated, Lifecycle!Next

(* ... as in most gate sections, which prune at most.                          *)
LEMMA CalmSimulated ==
    ASSUME LifecycleInv, SameActive, SameWork,
           history' \in {history, Prune(history)}
    PROVE  Simulated
<1>1. Sound(history') /\ \A b \in Attempts : Keeps(history, history', b)
  BY PruneSound DEF LifecycleInv, Keeps
<1> QED
  BY <1>1, KeepsSimulated

(* The active attempt gets its verdict; its task may let go at the same time.  *)
LEMMA ConcludeSimulated ==
    ASSUME LifecycleInv, active # None, active' = None,
           NEW h \in {history, Prune(history)}, NEW kind \in Kinds,
           Conclude(active, h, kind), Worker' \in {Worker, None}
    PROVE  Simulated
<1>1. active.id \in Attempts /\ active.owner \in Sockets
  BY DEF LifecycleInv, Inductive, TypeOK, ActiveAttempt
<1>a. PICK a \in Attempts : a = active.id
  BY <1>1
<1>2. Sound(h) /\ \A b \in Attempts : Verdict(h, b) = Verdict(history, b)
  BY PruneSound DEF LifecycleInv
<1>3. /\ Sound(history') /\ Verdict(history', a) = kind
      /\ \A b \in Attempts \ {a} : Keeps(h, history', b)
  BY <1>1, <1>a, <1>2, ConcludedSound DEF Conclude
<1>4. Stage(a) = "live" /\ Stage(a)' = kind
  BY <1>a, <1>3 DEF Stage, Verdict, Live, IsActive
<1>5. \A b \in Attempts \ {a} : StageKept(b)
  BY <1>a, <1>2, <1>3, StageKeptLemma DEF LifecycleInv, Keeps, IsActive
<1>6. Lifecycle!Finish(a, kind)
  BY <1>4, <1>5, EnterLemma DEF Lifecycle!Finish
<1>7. Sound(history)'
  BY <1>3 DEF Sound, Ordered, Bounded, Live, Expired, Retained, NewerThan
<1> QED
  BY <1>1, <1>6, <1>7 DEF Simulated, Uncancelled, Lifecycle!Next, Lifecycle!Verdicts, Kinds

(* An attempt without standing is answered with a verdict.                     *)
LEMMA RefuseSimulated ==
    ASSUME LifecycleInv, SameWork, UNCHANGED <<active>>,
           active # None => active.task \notin cancelled',
           NEW h \in {history, Prune(history)},
           NEW a \in Attempts, a \notin Retained(h), ~IsActive(a),
           NEW kind \in {"failed", "canceled"},
           \/ history' = Prune(Put(h, a, Terminal(kind, None)))
           \/ \E s \in Sockets : history' = Concluded(h, a, kind, s)
    PROVE  Simulated
<1>1. Sound(h) /\ \A b \in Attempts : Verdict(h, b) = Verdict(history, b)
  BY PruneSound DEF LifecycleInv
<1>2. /\ Sound(history') /\ Verdict(history', a) = kind
      /\ \A b \in Attempts \ {a} : Keeps(h, history', b)
  <2>1. CASE history' = Prune(Put(h, a, Terminal(kind, None)))
    BY <1>1, <2>1, RefusedSound
  <2>2. ASSUME NEW s \in Sockets, history' = Concluded(h, a, kind, s)
        PROVE  /\ Sound(history') /\ Verdict(history', a) = kind
               /\ \A b \in Attempts \ {a} : Keeps(h, history', b)
    BY <1>1, <2>2, ConcludedSound DEF Kinds
  <2> QED
    BY <2>1, <2>2
<1>3. Verdict(history, a) = "unknown"
  BY <1>1 DEF Verdict, Live
<1>4. Stage(a) = "unknown" /\ Stage(a)' = kind
  BY <1>2, <1>3 DEF Stage, Verdict, Live, IsActive
<1>5. \A b \in Attempts \ {a} : StageKept(b)
  BY <1>1, <1>2, StageKeptLemma DEF LifecycleInv, Keeps, IsActive
<1>6. Lifecycle!Refuse(a, kind)
  BY <1>4, <1>5, EnterLemma, WorkerLemma DEF Lifecycle!Refuse, Lifecycle!Unresolved
<1>7. Sound(history)'
  BY <1>2 DEF Sound, Ordered, Bounded, Live, Expired, Retained, NewerThan
<1> QED
  BY <1>6, <1>7 DEF Simulated, Uncancelled, Lifecycle!Next, Lifecycle!Verdicts

(* Nobody works and nothing is live: a reservation becomes the attempt.        *)
LEMMA BeginSimulated ==
    ASSUME LifecycleInv, active = None, Working = {},
           NEW t \in Tasks \ cancelled', NEW a \in Attempts,
           a \notin Retained(Prune(history)), aid'[t] = a, Working' = {t},
           active' # None, active'.id = a, active'.task = t,
           history' = Prune(history)
    PROVE  Simulated
<1>1. Sound(history') /\ \A b \in Attempts : Verdict(history', b) = Verdict(history, b)
  BY PruneSound DEF LifecycleInv
<1>2. \A b \in Attempts : Stage(b) # "live" /\ Worker = None
  <2>1. \A b \in Attempts : b \in Live(history) => history.term[b].kind \in Kinds
    BY DEF LifecycleInv, Sound, Live, Retained, History, TerminalAttempt, Kinds
  <2> QED
    BY <2>1 DEF Stage, Worker, IsActive, Live, Kinds
<1>3. Stage(a) = "unknown" /\ Stage(a)' = "live"
  BY <1>1 DEF Stage, Verdict, Live, IsActive
<1>4. \A b \in Attempts \ {a} : StageKept(b)
  BY <1>1, StageKeptLemma DEF LifecycleInv, Keeps, IsActive
<1>5. Worker' = a
  <2>1. (CHOOSE u \in Working' : TRUE) = t
    OBVIOUS
  <2> QED
    BY <2>1 DEF Worker
<1>6. Lifecycle!Begin(a)
  BY <1>2, <1>3, <1>4, <1>5, EnterLemma DEF Lifecycle!Begin, Lifecycle!Idle,
     Lifecycle!Unresolved
<1>7. Sound(history)'
  BY <1>1 DEF Sound, Ordered, Bounded, Live, Expired, Retained, NewerThan
<1> QED
  BY <1>6, <1>7 DEF Simulated, Uncancelled, Lifecycle!Next

(* A fenced task lets go.                                                      *)
LEMMA WorkEndsSimulated ==
    ASSUME LifecycleInv, active = None, UNCHANGED <<active, history>>,
           Worker' = None, Worker # None
    PROVE  Simulated
<1>1. \A b \in Attempts : Stage(b) # "live" /\ Stage(b)' = Stage(b)
  <2>1. \A b \in Attempts : b \in Live(history) => history.term[b].kind \in Kinds
    BY DEF LifecycleInv, Sound, Live, Retained, History, TerminalAttempt, Kinds
  <2> QED
    BY <2>1 DEF Stage, IsActive, Live, Kinds
<1>2. Lifecycle!WorkEnds
  BY <1>1 DEF Lifecycle!WorkEnds, Lifecycle!Idle
<1>3. Sound(history)' /\ Uncancelled'
  BY DEF LifecycleInv, Uncancelled, Sound, Ordered, Bounded, Live, Expired, Retained,
     NewerThan
<1> QED
  BY <1>2, <1>3 DEF Simulated, Lifecycle!Next

-----------------------------------------------------------------------------
(* The steps.                                                                  *)

(* A task whose label changes outside the work, or within it.                  *)
LEMMA GotoKeepsWork ==
    ASSUME Inductive, NEW t \in Tasks, NEW label, Goto(t, label),
           pc[t] \in WorkPCs <=> label \in WorkPCs
    PROVE  Working' = Working
BY DEF Inductive, TypeOK, Goto, Working

LEMMA GotoLeavesWork ==
    ASSUME Inductive, NEW t \in Tasks, NEW label, Goto(t, label),
           pc[t] \in WorkPCs, label \notin WorkPCs
    PROVE  t \in Working /\ Working' = Working \ {t}
BY DEF Inductive, TypeOK, Goto, Working

(* A publication leaves the slot to whom it belongs.                           *)
LEMMA DetachedSame ==
    ASSUME LifecycleInv, NEW gone, active' = Detached(active, gone),
           cancelled' \subseteq cancelled
    PROVE  SameActive
BY DetachedLemma, NoneApart DEF LifecycleInv, Uncancelled, SameActive, Inductive, TypeOK

(* What a prospective or pending owner does before its commit.                 *)
LEMMA AskingSimulated ==
    ASSUME LifecycleInv, NEW t \in Tasks,
           \/ ReplayTerminal(t) \/ JoinActive(t) \/ SendLatest(t)
           \/ WaitForCleanup(t) \/ JoinPending(t) \/ WaitForPending(t) \/ Retry(t)
           \/ ResolveJoined(t) \/ AnnounceDisplaced(t) \/ JoinPrior(t)
           \/ JoinTimeout(t) \/ JoinedCleanup(t) \/ AbandonAdmission(t)
    PROVE  Simulated
<1> USE DEF LifecycleInv
<1>t. TypeOK /\ (pc[t] # "idle" => sock[t] \in Sockets)
  BY DEF Inductive, SlotInv, TasksKnowTheirStart
<1>1. history' \in {history, Prune(history)} /\ UNCHANGED aid
  BY DEF ReplayTerminal, JoinActive, SendLatest, WaitForCleanup, JoinPending,
     WaitForPending, Retry, ResolveJoined, AnnounceDisplaced, JoinPrior,
     JoinTimeout, JoinedCleanup, AbandonAdmission
<1>2. /\ pc[t] \notin WorkPCs
      /\ \E label : Goto(t, label) /\ label \notin WorkPCs
  BY DEF ReplayTerminal, JoinActive, SendLatest, WaitForCleanup, JoinPending,
     WaitForPending, Retry, ResolveJoined, AnnounceDisplaced, JoinPrior,
     JoinTimeout, JoinedCleanup, AbandonAdmission, WaitFor, Unresolved, WorkPCs
<1>3. SameWork
  BY <1>1, <1>2, GotoKeepsWork DEF SameWork
<1>4. CASE JoinActive(t)
  <2>1. /\ active \in ActiveAttempt /\ sock[t] \in Sockets
        /\ active' \in Attached(active, sock[t]) /\ UNCHANGED cancelled
    BY <1>t, <1>4 DEF JoinActive, TypeOK, IsActive
  <2>2. SameActive
    BY <2>1, AttachedLemma, NoneApart DEF SameActive, Uncancelled
  <2> QED
    BY <1>1, <1>3, <2>2, CalmSimulated
<1>5. CASE AnnounceDisplaced(t)
  <2>1. active' = Detached(active, notice[t].subs \ up) /\ UNCHANGED cancelled
    BY <1>5 DEF AnnounceDisplaced, PublishTo
  <2> QED
    BY <1>1, <1>3, <2>1, DetachedSame, CalmSimulated
<1>6. CASE JoinTimeout(t)
  <2>1. t \in Reserving \ cancelled /\ UNCHANGED active
    BY <1>6 DEF JoinTimeout, Reserving
  <2>2. active = None
    BY <2>1 DEF Inductive, SlotInv, SlotGuards, SlotEmptied, ReserversPend,
       PendingExcludes
  <2> QED
    BY <1>1, <1>3, <2>1, <2>2, CalmSimulated DEF SameActive
<1>7. CASE \/ ReplayTerminal(t) \/ SendLatest(t) \/ WaitForCleanup(t)
           \/ JoinPending(t) \/ WaitForPending(t) \/ Retry(t) \/ ResolveJoined(t)
           \/ JoinPrior(t) \/ JoinedCleanup(t) \/ AbandonAdmission(t)
  <2>1. UNCHANGED active /\ cancelled' \subseteq cancelled
    BY <1>7 DEF ReplayTerminal, SendLatest, WaitForCleanup, JoinPending,
       WaitForPending, Retry, ResolveJoined, JoinPrior, JoinedCleanup,
       AbandonAdmission
  <2>2. SameActive
    BY <2>1 DEF SameActive, Uncancelled
  <2> QED
    BY <1>1, <1>3, <2>2, CalmSimulated
<1> QED
  BY <1>4, <1>5, <1>6, <1>7

LEMMA CommitSimulated ==
    ASSUME LifecycleInv, NEW t \in Tasks, NEW p \in PendingAdmission,
           active = None, p.id = aid[t], p.id \notin Retained(Prune(history)),
           shutdown.at = "up" => Working = {} /\ t \notin cancelled,
           pc[t] \in {"prepare", "admit"}, CommitAdmission(t, p, Prune(history))
    PROVE  Simulated
<1> USE DEF LifecycleInv
<1>1. p.id \in Attempts /\ p.owner \in Sockets /\ pc[t] \notin WorkPCs
  BY DEF PendingAdmission, WorkPCs
<1>2. UNCHANGED <<aid, cancelled>>
  BY DEF CommitAdmission
<1>3. CASE /\ active' = None
           /\ \/ history' = Prune(Put(Prune(history), p.id, Terminal("failed", None)))
              \/ history' = Concluded(Prune(history), p.id, "canceled", p.owner)
           /\ WaitFor(t, "done", None)
  <2>1. SameWork
    BY <1>1, <1>2, <1>3, GotoKeepsWork DEF SameWork, WaitFor, WorkPCs
  <2>2. ~IsActive(p.id) /\ UNCHANGED <<active>>
    BY <1>3 DEF IsActive
  <2>3. PICK a \in Attempts : a = p.id
    BY <1>1
  <2> QED
    BY <1>1, <1>3, <2>1, <2>2, <2>3, RefuseSimulated
<1>4. CASE /\ ~ConnectionClosed(p.owner)
           /\ history' = Prune(history)
           /\ active' = [id |-> p.id, task |-> t, owner |-> p.owner,
                         subs |-> p.subs, latest |-> FALSE]
           /\ WaitFor(t, "start", None)
  <2>1. shutdown.at = "up"
    BY <1>1, <1>4 DEF ConnectionClosed, Alive, Inductive, SlotInv, SlotEmptied
  <2>2. Working = {} /\ t \notin cancelled'
    BY <1>2, <2>1
  <2>3. Working' = {t}
    BY <1>4, <2>2 DEF Working, WaitFor, Goto, WorkPCs, Inductive, TypeOK
  <2>4. active' # None /\ active'.id = p.id /\ active'.task = t
    <3>1. active' \in ActiveAttempt
      BY <1>4 DEF ActiveAttempt, PendingAdmission
    <3> QED
      BY <1>4, <3>1, NoneApart
  <2> QED
    BY <1>1, <1>2, <1>4, <2>2, <2>3, <2>4, BeginSimulated
<1> QED
  BY <1>3, <1>4 DEF CommitAdmission, PublishTo, Detached

LEMMA AdmissionSimulated ==
    ASSUME LifecycleInv, NEW t \in Tasks, Admission(t)
    PROVE  Simulated
<1> USE DEF LifecycleInv
<1>t. TypeOK /\ (pc[t] # "idle" => sock[t] \in Sockets /\ aid[t] \in Attempts)
  BY DEF Inductive, SlotInv, TasksKnowTheirStart
<1>1. CASE Displace(t)
  <2>1. SameWork
    BY <1>1, GotoKeepsWork DEF Displace, Unresolved, WaitFor, SameWork, WorkPCs
  <2> QED
    BY <1>1, <2>1, WorkerLemma, ConcludeSimulated DEF Displace, Kinds
<1>2. CASE AdmitFree(t)
  <2> DEFINE p == [id |-> aid[t], task |-> t, owner |-> sock[t],
                   subs |-> {sock[t]}, prior |-> None]
  <2>1. /\ CommitAdmission(t, p, Prune(history)) /\ pc[t] = "prepare"
        /\ aid[t] \notin Retained(Prune(history))
        /\ active = None /\ pending = None /\ cleanup = None
    BY <1>2 DEF AdmitFree, Unresolved
  <2>2. p \in PendingAdmission /\ p.id = aid[t]
    BY <1>t, <2>1 DEF PendingAdmission
  <2>3. shutdown.at = "up" => Working = {} /\ t \notin cancelled
    BY <2>1 DEF Inductive, SlotInv, SlotGuards, PastAdmission, WorkPCs
  <2> HIDE DEF p
  <2> QED
    BY <2>1, <2>2, <2>3, CommitSimulated
<1>3. CASE Admit(t)
  <2>1. /\ pc[t] = "admit" /\ t \in Reserving \ cancelled
        /\ CommitAdmission(t, pending, Prune(history))
    BY <1>3 DEF Admit, Reserving
  <2>2. pending # None /\ pending.task = t /\ pending.id = aid[t]
    BY <2>1 DEF Inductive, SlotInv, SlotGuards, SlotEmptied, ReserversPend
  <2>3. active = None /\ (shutdown.at = "up" => Working = {})
    BY <2>1, <2>2 DEF Inductive, SlotInv, SlotGuards, SlotEmptied, PendingExcludes
  <2>4. pending \in PendingAdmission /\ pending.id \notin Retained(history)
    BY <1>t, <2>2 DEF TypeOK, Inductive, OneStandingPerAttempt
  <2>5. pending.id \notin Retained(Prune(history))
    BY <1>t, <2>4, PruneLemma DEF TypeOK
  <2> QED
    BY <2>1, <2>2, <2>3, <2>4, <2>5, CommitSimulated
<1> QED
  BY <1>1, <1>2, <1>3, AskingSimulated DEF Admission

(* A fenced task that lets go finds the slot empty.                            *)
LEMMA LetsGoSimulated ==
    ASSUME LifecycleInv, NEW t \in Working, Working' = Working \ {t},
           active # None => active.task # t, UNCHANGED <<active, history>>
    PROVE  Simulated
<1>1. active = None
  BY DEF LifecycleInv, Inductive, SlotInv, SlotGuards, SlotEmptied, ActiveExcludes
<1> QED
  BY <1>1, LeavesWork, WorkEndsSimulated DEF LifecycleInv

(* Acquisition and generation, but for a start of the observation worker that  *)
(* fails (see AttemptsEnd).                                                    *)
LEMMA WorkSimulated ==
    ASSUME LifecycleInv, NEW t \in Tasks, Work(t) \/ PublishAcquiring(t),
           StartFails(t) => t \in cancelled
    PROVE  Simulated
<1> USE DEF LifecycleInv
<1>t. TypeOK
  BY DEF Inductive
<1>1. CASE \/ BeginAcquiring(t) \/ AcquisitionEnds(t) \/ Released(t)
           \/ GenerationEnds(t) \/ WorkerJoined(t)
  <2>1. /\ pc[t] \in WorkPCs /\ \E label \in WorkPCs : Goto(t, label)
        /\ UNCHANGED <<history, aid>> /\ cancelled' \subseteq cancelled
    BY <1>1 DEF BeginAcquiring, AcquisitionEnds, Released, GenerationEnds,
       WorkerJoined, WorkPCs
  <2>2. SameWork
    BY <2>1, GotoKeepsWork DEF SameWork
  <2>3. SameActive
    <3>1. CASE PublishObservation(t)
      BY <1>t, <2>1, <3>1, ObservationLemma DEF Uncancelled, SameActive
    <3>2. CASE UNCHANGED active
      BY <2>1, <3>2 DEF Uncancelled, SameActive
    <3> QED
      BY <1>1, <3>1, <3>2 DEF BeginAcquiring, AcquisitionEnds, Released,
         GenerationEnds, WorkerJoined
  <2> QED
    BY <2>1, <2>2, <2>3, CalmSimulated
<1>2. CASE PublishAcquiring(t)
  <2>1. PublishObservation(t) /\ UNCHANGED <<history, pc, aid, cancelled>>
    BY <1>2 DEF PublishAcquiring
  <2>2. SameActive
    BY <1>t, <2>1, ObservationLemma DEF Uncancelled, SameActive
  <2> QED
    BY <2>1, <2>2, CalmSimulated DEF SameWork, Working
<1>3. CASE StartFails(t)
  <2>1. /\ pc[t] \in WorkPCs /\ Goto(t, "done") /\ t \in cancelled
        /\ UNCHANGED <<active, history>>
    BY <1>3 DEF StartFails, WorkPCs
  <2>2. t \in Working /\ Working' = Working \ {t}
    BY <2>1, GotoLeavesWork DEF WorkPCs
  <2> QED
    BY <2>1, <2>2, LetsGoSimulated DEF Uncancelled
<1>4. CASE Complete(t)
  <2>1. /\ pc[t] \in WorkPCs /\ Goto(t, "done") /\ active # None
        /\ Conclude(active, history, "completed") /\ active' = None
    BY <1>4, DetachedLemma DEF Complete, PublishTo, IsCurrent, WorkPCs
  <2>2. Worker' = None
    BY <2>1, GotoLeavesWork, LeavesWork DEF WorkPCs
  <2> QED
    BY <2>1, <2>2, ConcludeSimulated DEF Kinds
<1>5. CASE End(t) /\ IsCurrent(t)
  <2>1. /\ pc[t] \in WorkPCs /\ Goto(t, "done") /\ active # None
        /\ Conclude(active, history, outcome[t]) /\ active' = None
    BY <1>5, DetachedLemma DEF End, PublishTo, IsCurrent, WorkPCs
  <2>2. Worker' = None
    BY <2>1, GotoLeavesWork, LeavesWork DEF WorkPCs
  <2>3. outcome[t] \in Kinds
    BY <1>5 DEF End, Inductive, SlotInv, TasksKnowTheirStart, Kinds
  <2> QED
    BY <2>1, <2>2, <2>3, ConcludeSimulated
<1>6. CASE End(t) /\ ~IsCurrent(t)
  <2>1. /\ pc[t] \in WorkPCs /\ Goto(t, "done") /\ UNCHANGED <<active, history>>
    BY <1>6 DEF End, WorkPCs
  <2>2. t \in Working /\ Working' = Working \ {t}
    BY <2>1, GotoLeavesWork DEF WorkPCs
  <2> QED
    BY <1>6, <2>1, <2>2, LetsGoSimulated DEF IsCurrent
<1> QED
  BY <1>1, <1>2, <1>3, <1>4, <1>5, <1>6 DEF Work

(* The receive loop fences the active attempt.                                 *)
LEMMA FenceSimulated ==
    ASSUME LifecycleInv, active # None, FenceActive, UNCHANGED <<pc, aid>>
    PROVE  Simulated
<1>1. SameWork
  BY DEF SameWork, Working
<1> QED
  BY <1>1, WorkerLemma, ConcludeSimulated DEF FenceActive, Kinds

(* Steps of the receive loop that touch neither slot nor tasks.                *)
LEMMA LoopSimulated ==
    ASSUME LifecycleInv, UNCHANGED <<pc, aid, cancelled>>,
           \/ active' = active
           \/ \E gone : active' = Detached(active, gone),
           history' \in {history, Prune(history)}
    PROVE  Simulated
<1>1. SameWork
  BY DEF SameWork, Working
<1>2. SameActive
  BY DetachedSame DEF LifecycleInv, SameActive, Uncancelled
<1> QED
  BY <1>1, <1>2, CalmSimulated

LEMMA ProgressSimulated ==
    ASSUME LifecycleInv, NEW s \in Sockets, Progress(s)
    PROVE  Simulated
<1> USE DEF LifecycleInv
<1>t. TypeOK /\ UNCHANGED <<pc, aid, cancelled>>
  BY DEF Inductive, Progress, JoinOrReject, JoinOrRejectAgain, ReplayLatest,
     PublishCanceled, EndAdjust
<1>w. SameWork
  BY <1>t DEF SameWork, Working
<1>1. CASE JoinOrReject(s)
  <2>0. session[s].id \in Attempts
    BY <1>1 DEF JoinOrReject, Inductive, SlotInv, HandlersKnowTheirAttempt
  <2>1. CASE UNCHANGED active /\ history' = Prune(history)
    BY <1>t, <2>1, LoopSimulated
  <2>2. CASE /\ active # None /\ active' \in Attached(active, s)
             /\ history' = Prune(history)
    <3>1. SameActive
      BY <1>t, <2>2, AttachedLemma, NoneApart DEF SameActive, Uncancelled, TypeOK
    <3> QED
      BY <1>w, <2>2, <3>1, CalmSimulated
  <2>3. CASE /\ session[s].id \notin Retained(Prune(history)) /\ ~IsActive(session[s].id)
             /\ history' = Prune(Put(Prune(history), session[s].id, Terminal("failed", None)))
             /\ UNCHANGED active
    <3>1. PICK a \in Attempts : a = session[s].id
      BY <2>0
    <3>2. active # None => active.task \notin cancelled'
      BY <1>t DEF Uncancelled
    <3> QED
      BY <1>w, <2>3, <3>1, <3>2, RefuseSimulated
  <2> QED
    BY <1>1, <2>1, <2>2, <2>3 DEF JoinOrReject, IsActive
<1>2. CASE JoinOrRejectAgain(s) \/ ReplayLatest(s) \/ PublishCanceled(s)
  <2>1. /\ history' = history
        /\ active' = active \/ \E gone : active' = Detached(active, gone)
    BY <1>2 DEF JoinOrRejectAgain, ReplayLatest, PublishCanceled, PublishTo
  <2> QED
    BY <1>t, <2>1, LoopSimulated
<1>3. CASE EndAdjust(s)
  <2> DEFINE h == Prune(history)
             a == session[s].id
  <2>1. /\ UNCHANGED active
        /\ history' \in {history, h} \/ (Completed(h, a) /\ history' = Replace(h, a))
    BY <1>3 DEF EndAdjust
  <2>2. CASE Completed(h, a) /\ history' = Replace(h, a)
    <3>1. Sound(h) /\ a \in Retained(h) /\ Retained(h) = Live(history)
      BY <2>2, PruneSound DEF Completed
    <3>2. a \in Live(h)
      BY <3>1, PruneSound DEF Live, Sound, Prune, Forget, Expired, Retained, History
    <3>3. Sound(history') /\ \A b \in Attempts : Keeps(h, history', b)
      BY <2>2, <3>1, <3>2, ReplaceSound
    <3>4. \A b \in Attempts : Keeps(history, history', b)
      BY <3>3, PruneSound DEF Keeps
    <3>5. SameActive
      BY <1>t, <2>1 DEF SameActive, Uncancelled
    <3> QED
      BY <1>w, <3>3, <3>4, <3>5, KeepsSimulated
  <2> QED
    BY <1>t, <2>1, <2>2, LoopSimulated
<1> QED
  BY <1>1, <1>2, <1>3 DEF Progress

(* Grants are revoked in a gate section of their own.                          *)
LEMMA RevokeSimulated ==
    ASSUME LifecycleInv, NEW ids, history' = Revoke(Prune(history), ids),
           UNCHANGED <<pc, aid, cancelled, active>>
    PROVE  Simulated
<1>1. Sound(history') /\ \A b \in Attempts : Keeps(history, history', b)
  BY PruneSound, RevokeSound DEF LifecycleInv, Keeps
<1>2. SameActive /\ SameWork
  BY DEF LifecycleInv, SameActive, SameWork, Uncancelled, Working
<1> QED
  BY <1>1, <1>2, KeepsSimulated

LEMMA LeavingSimulated ==
    ASSUME LifecycleInv, NEW s \in Sockets,
           Disconnect(s) \/ PeerLost(s) \/ BeginClose(s)
    PROVE  Simulated
<1>1. CASE \/ Detach(s) \/ FenceJoined(s) \/ FenceNotify(s) \/ AbortDisconnect(s)
           \/ FenceDone(s) \/ PeerLost(s) \/ BeginClose(s)
  <2>1. /\ UNCHANGED <<history, pc, aid, cancelled>>
        /\ active' = active \/ \E gone : active' = Detached(active, gone)
    BY <1>1 DEF Detach, FenceJoined, FenceNotify, AbortDisconnect, FenceDone,
       PeerLost, BeginClose, PublishTo
  <2> QED
    BY <2>1, LoopSimulated
<1>2. ASSUME NEW r \in Tasks, FenceOwned(s, r)
      PROVE  Simulated
  <2>1. CASE IsCurrent(r)
    BY <1>2, <2>1, FenceSimulated DEF FenceOwned, IsCurrent
  <2>2. CASE ~IsCurrent(r)
    BY <1>2, <2>2, LoopSimulated DEF FenceOwned
  <2> QED
    BY <2>1, <2>2
<1>3. CASE RevokeOwned(s)
  BY <1>3, RevokeSimulated DEF RevokeOwned
<1> QED
  BY <1>1, <1>2, <1>3 DEF Disconnect

LEMMA MessageSimulated ==
    ASSUME LifecycleInv, NEW s \in Sockets, NEW a \in Attempts, Message(s, a)
    PROVE  Simulated
<1>1. ASSUME NEW t \in Tasks, Start(s, t, a)
      PROVE  Simulated
  <2>1. /\ UNCHANGED <<active, history, cancelled>>
        /\ pc[t] = "idle" /\ Goto(t, "prepare") /\ aid' = [aid EXCEPT ![t] = a]
    BY <1>1 DEF Start
  <2>2. SameWork
    BY <2>1, GotoKeepsWork DEF SameWork, WorkPCs, Working, LifecycleInv, Inductive,
       TypeOK
  <2> QED
    BY <2>1, <2>2, CalmSimulated DEF SameActive, LifecycleInv, Uncancelled
<1>2. CASE Backpressure(s, a) \/ BeginAdjust(s, a)
  BY <1>2, LoopSimulated DEF Backpressure, BeginAdjust
<1>3. CASE CancelAttempt(s, a)
  BY <1>3, FenceSimulated DEF CancelAttempt, IsActive
<1>4. CASE LeaveRoute(s, a)
  BY <1>4, LoopSimulated, RevokeSimulated DEF LeaveRoute
<1> QED
  BY <1>1, <1>2, <1>3, <1>4 DEF Message

LEMMA ClockSimulated ==
    ASSUME LifecycleInv,
           \/ \E a \in Attempts : TerminalExpires(a) \/ MediaExpires(a)
           \/ CleanupFinishes \/ EndShutdown \/ Terminated \/ UNCHANGED vars
    PROVE  Simulated
<1>1. ASSUME NEW a \in Attempts, TerminalExpires(a)
      PROVE  Simulated
  <2>1. /\ a \in Retained(history) /\ history' = [history EXCEPT !.term[a].stale = TRUE]
        /\ UNCHANGED <<active, pc, aid, cancelled>>
    BY <1>1 DEF TerminalExpires
  <2>2. Sound(history') /\ \A b \in Attempts : Keeps(history, history', b)
    BY <2>1, ExpireSound DEF LifecycleInv
  <2> QED
    BY <2>1, <2>2, KeepsSimulated DEF SameActive, SameWork, Working, LifecycleInv,
       Uncancelled
<1>2. CASE \/ \E a \in Attempts : MediaExpires(a)
           \/ CleanupFinishes \/ EndShutdown \/ Terminated \/ UNCHANGED vars
  BY <1>2, LoopSimulated DEF MediaExpires, CleanupFinishes, FinishCleanup,
     EndShutdown, Terminated
<1> QED
  BY <1>1, <1>2

LEMMA ShutdownSimulated ==
    ASSUME LifecycleInv, BeginShutdown
    PROVE  Simulated
<1>w. SameWork /\ UNCHANGED <<pc, aid>>
  BY DEF BeginShutdown, SameWork, Working
<1>1. CASE active # None
  BY <1>1, <1>w, WorkerLemma, ConcludeSimulated DEF BeginShutdown, Kinds
<1>2. CASE active = None /\ pending # None
  <2>1. pending.id \in Attempts \ Retained(history)
    BY <1>2 DEF LifecycleInv, Inductive, OneStandingPerAttempt, TypeOK, PendingAdmission
  <2>2. PICK a \in Attempts : a = pending.id
    BY <2>1
  <2>3. /\ history' = Prune(Put(history, a, Terminal("canceled", None)))
        /\ UNCHANGED <<active>>
    BY <1>2, <2>2 DEF BeginShutdown
  <2> QED
    BY <1>2, <1>w, <2>1, <2>2, <2>3, RefuseSimulated DEF IsActive
<1>3. CASE active = None /\ pending = None
  BY <1>3, <1>w, LoopSimulated DEF BeginShutdown
<1> QED
  BY <1>1, <1>2, <1>3

LEMMA LifecycleInit == Init => LifecycleInv /\ Lifecycle!Init
<1> SUFFICES ASSUME Init PROVE LifecycleInv /\ Lifecycle!Init
  OBVIOUS
<1>1. Retained(history) = {} /\ Working = {} /\ active = None
  BY DEF Init, Retained, Working, WorkPCs
<1>2. history \in History
  BY InitLemma DEF Inductive, TypeOK
<1>3. Sound(history) /\ Uncancelled
  BY <1>1, <1>2, FS_EmptySet DEF Sound, Ordered, Bounded, Live, Uncancelled
<1>4. Lifecycle!Init
  BY <1>1 DEF Lifecycle!Init, Stage, Worker, IsActive
<1> QED
  BY <1>3, <1>4, InitLemma DEF LifecycleInv

LEMMA StepSimulated ==
    ASSUME LifecycleInv, [Next]_vars, \A t \in Tasks : StartFails(t) => t \in cancelled
    PROVE  Simulated
<1>1. ASSUME NEW t \in Tasks, Admission(t) \/ Work(t) \/ PublishAcquiring(t)
      PROVE  Simulated
  BY <1>1, AdmissionSimulated, WorkSimulated
<1>2. ASSUME NEW s \in Sockets,
             Progress(s) \/ Disconnect(s) \/ PeerLost(s) \/ BeginClose(s)
      PROVE  Simulated
  BY <1>2, ProgressSimulated, LeavingSimulated
<1>3. ASSUME NEW s \in Sockets, NEW a \in Attempts, Message(s, a)
      PROVE  Simulated
  BY <1>3, MessageSimulated
<1>4. ASSUME NEW s \in Sockets, PublicationEnds(s)
      PROVE  Simulated
  <2>1. SameWork /\ UNCHANGED history
    BY <1>4 DEF PublicationEnds, SameWork, Working
  <2>2. SameActive
    BY <1>4, DetachedLemma, NoneApart DEF PublicationEnds, SameActive, LifecycleInv,
       Inductive, TypeOK, Uncancelled
  <2> QED
    BY <2>1, <2>2, CalmSimulated
<1> QED
  BY <1>1, <1>2, <1>3, <1>4, ClockSimulated, ShutdownSimulated DEF Next

(* The invariant also survives a start that fails.                             *)
LEMMA LifecycleNext == LifecycleInv /\ [Next]_vars => LifecycleInv'
<1> SUFFICES ASSUME LifecycleInv, [Next]_vars
             PROVE  LifecycleInv'
  OBVIOUS
<1>1. Inductive'
  BY NextLemma DEF LifecycleInv
<1>2. ASSUME NEW t \in Tasks, StartFails(t)
      PROVE  Sound(history)' /\ Uncancelled'
  <2>1. UNCHANGED <<history, active>> /\ cancelled' = cancelled \ {t}
    BY <1>2 DEF StartFails
  <2> QED
    BY <2>1 DEF LifecycleInv, Uncancelled, Sound, Ordered, Bounded, Live, Expired,
       Retained, NewerThan
<1>3. CASE \A t \in Tasks : ~StartFails(t)
  <2>1. Simulated
    BY <1>3, StepSimulated
  <2> QED
    BY <1>1, <2>1 DEF Simulated, LifecycleInv
<1> QED
  BY <1>1, <1>2, <1>3 DEF LifecycleInv

(* The service implements the abstract lifecycle: an attempt begins when no    *)
(* other is live and nobody works, gets one verdict, and keeps it until it is  *)
(* forgotten, whatever replacement, cancel, disconnect, expiry, eviction and   *)
(* shutdown do (run, cancel, disconnect of TryOnAttemptRuntime over the gate   *)
(* sections of TryOnAttemptRegistry).                                          *)
THEOREM LifecycleImplemented ==
    ASSUME ~StartMayFail
    PROVE  Spec => ImplementsLifecycle
<1>1. Init => LifecycleInv /\ Lifecycle!Init
  BY LifecycleInit
<1>2. LifecycleInv /\ [Next]_vars => LifecycleInv' /\ [Lifecycle!Next]_lifecycle
  BY StepSimulated, LifecycleNext DEF StartFails, Simulated
<1>3. Spec => Lifecycle!Init /\ [][Lifecycle!Next]_lifecycle
  BY <1>1, <1>2, PTL DEF Spec
<1> QED
  BY <1>3, PTL DEF ImplementsLifecycle, Lifecycle!Spec, lifecycle

-----------------------------------------------------------------------------
(* Verdicts, progress, joiners and media.                                      *)
(*                                                                             *)
(* What the remaining promises rest on: the slot knows the attempt and the     *)
(* connection of its task, and a step does one of five things to the retained  *)
(* history.                                                                    *)

Knows(x) == x # None => x.id = aid[x.task] /\ x.owner = sock[x.task]

SlotKnows == Knows(active) /\ Knows(pending)

ServiceInv == LifecycleInv /\ Matched(history) /\ SlotKnows

(* The results of ids are withdrawn by connection s, on a message of its own   *)
(* or at its end.                                                              *)
WithdrawnBy(s, ids) ==
    /\ session[s].op \in {"open", "gather"}
    /\ UNCHANGED session \/ session' = [session EXCEPT ![s] = [Idle EXCEPT !.op = "closed"]]
    /\ \A a \in ids :
          /\ snapshot'[a] = None
          /\ CrossSocket \/ history.term[a].owner \in {s, None}

(* The gate sections that may change what is retained.                         *)
HistoryStep ==
    \/ \E h \in {history, Prune(history)} :
          \/ history' = h
          \/ \E a \in Attempts \ Retained(h), kind \in Kinds,
                owner \in Sockets \cup {None} :
                /\ history' = Concluded(h, a, kind, owner)
                /\ kind = "completed" =>
                      /\ active # None /\ active.id = a /\ active.owner = owner
                      /\ active' = None
          \/ \E s \in Sockets, ids \in SUBSET Retained(h) :
                history' = Revoke(h, ids) /\ WithdrawnBy(s, ids)
    \/ \E s \in Sockets :
          /\ session[s].op = "adjust" /\ Completed(Prune(history), session[s].id)
          /\ history' = Replace(Prune(history), session[s].id)
    \/ \E a \in Attempts : TerminalExpires(a)

-----------------------------------------------------------------------------
(* What the gate sections do to the terminals.                                 *)

LEMMA RetainedTerminal ==
    ASSUME NEW h \in History, NEW a \in Retained(h)
    PROVE  a \in Attempts /\ h.term[a] \in TerminalAttempt
BY DEF Retained, History

(* A conclusion writes the terminal of its attempt and of no other.            *)
LEMMA ConcludedTerms ==
    ASSUME NEW h \in History, NEW a \in Attempts, NEW kind \in Kinds,
           NEW owner \in Sockets \cup {None}
    PROVE  LET g == Concluded(h, a, kind, owner)
           IN  /\ a \in Retained(g) => g.term[a] = Terminal(kind, owner)
               /\ \A b \in Attempts \ {a} : b \in Retained(g) =>
                     b \in Retained(h) /\ g.term[b] = h.term[b]
<1> DEFINE room == IF kind = "completed" THEN Grant(h, a) ELSE h
           put == Put(room, a, Terminal(kind, owner))
<1>1. Terminal(kind, owner) \in TerminalAttempt
  BY DEF Terminal, TerminalAttempt, Kinds
<1>2. /\ room \in History /\ Retained(room) \subseteq Retained(h)
      /\ \A b \in Retained(room) : room.term[b] = h.term[b]
  BY GrantLemma
<1>3. Concluded(h, a, kind, owner) = Prune(put)
  BY DEF Concluded
<1> HIDE DEF room
<1>4. /\ put \in History /\ Retained(put) = Retained(room) \cup {a}
      /\ put.term[a] = Terminal(kind, owner)
      /\ \A b \in Attempts \ {a} : put.term[b] = room.term[b]
  BY <1>1, <1>2, PutLemma
<1> HIDE DEF put
<1>5. /\ Retained(Prune(put)) \subseteq Retained(put)
      /\ \A b \in Retained(Prune(put)) : Prune(put).term[b] = put.term[b]
  BY <1>4, PruneLemma
<1> QED
  BY <1>2, <1>3, <1>4, <1>5

(* A revocation takes grants and nothing else.                                 *)
LEMMA RevokeTerms ==
    ASSUME NEW h \in History, NEW ids
    PROVE  LET g == Revoke(h, ids)
           IN  \A b \in Retained(h) :
                  /\ g.term[b].kind = h.term[b].kind /\ g.term[b].owner = h.term[b].owner
                  /\ g.term[b].stale = h.term[b].stale
                  /\ g.term[b].granted <=> h.term[b].granted /\ b \notin ids
<1>1. Revoke(h, ids).term =
        [b \in Attempts |-> IF b \in ids /\ h.term[b] # None
                              THEN [h.term[b] EXCEPT !.granted = FALSE]
                              ELSE h.term[b]]
  BY DEF Revoke, History
<1> SUFFICES ASSUME NEW b \in Retained(h)
             PROVE  LET g == Revoke(h, ids)
                    IN  /\ g.term[b].kind = h.term[b].kind
                        /\ g.term[b].owner = h.term[b].owner
                        /\ g.term[b].stale = h.term[b].stale
                        /\ g.term[b].granted <=> h.term[b].granted /\ b \notin ids
  OBVIOUS
<1>2. b \in Attempts /\ h.term[b] # None /\ h.term[b] \in TerminalAttempt
  BY DEF Retained, History
<1>3. CASE b \in ids
  <2>1. Revoke(h, ids).term[b] = [h.term[b] EXCEPT !.granted = FALSE]
    BY <1>1, <1>2, <1>3
  <2> QED
    BY <1>2, <1>3, <2>1 DEF TerminalAttempt
<1>4. CASE b \notin ids
  BY <1>1, <1>2, <1>4 DEF TerminalAttempt
<1> QED
  BY <1>3, <1>4

(* An adjustment grants the terminal it belongs to and changes no other.       *)
LEMMA ReplaceTerms ==
    ASSUME NEW h \in History, NEW a \in Attempts, Completed(h, a)
    PROVE  LET g == Replace(h, a)
           IN  /\ a \in Retained(g)
               /\ g.term[a] = [h.term[a] EXCEPT !.granted = TRUE, !.stale = FALSE]
               /\ \A b \in Attempts \ {a} : b \in Retained(g) =>
                     b \in Retained(h) /\ g.term[b] = h.term[b]
<1> DEFINE t == [h.term[a] EXCEPT !.granted = TRUE, !.stale = FALSE]
           room == Grant(h, a)
<1>1. a \in Retained(h) /\ t \in TerminalAttempt
  BY DEF Completed, Retained, History, TerminalAttempt
<1>2. Replace(h, a) = Put(room, a, t)
  BY DEF Replace
<1>3. /\ room \in History /\ Retained(room) \subseteq Retained(h)
      /\ \A b \in Retained(room) : room.term[b] = h.term[b]
  BY GrantLemma
<1>4. /\ Put(room, a, t) \in History
      /\ Retained(Put(room, a, t)) = Retained(room) \cup {a}
      /\ Put(room, a, t).term[a] = t
      /\ \A b \in Attempts \ {a} : Put(room, a, t).term[b] = room.term[b]
  <2> HIDE DEF t, room
  <2> QED
    BY <1>1, <1>3, PutLemma
<1> HIDE DEF room
<1> QED
  BY <1>2, <1>3, <1>4

(* What became of the terminal of attempt b: it is gone, it stands, it has just*)
(* been given, or its result has been replaced.                                *)
Gone(b) == b \notin Retained(history')

Stands(b) ==
    /\ b \in Retained(history) /\ b \in Retained(history')
    /\ history'.term[b].kind = history.term[b].kind
    /\ history'.term[b].owner = history.term[b].owner
    /\ \/ history'.term[b].granted <=> history.term[b].granted
       \/ ~history'.term[b].granted /\ \E s \in Sockets : WithdrawnBy(s, {b})

Decided(b) ==
    /\ b \notin Live(history) /\ b \in Retained(history')
    /\ history'.term[b].granted <=> history'.term[b].kind = "completed"
    /\ history'.term[b].kind = "completed" =>
          /\ active # None /\ active.id = b /\ active' = None
          /\ history'.term[b].owner = active.owner

Adjusted(b) ==
    /\ b \in Live(history) /\ b \in Retained(history') /\ Completed(history, b)
    /\ history'.term[b].kind = history.term[b].kind
    /\ history'.term[b].owner = history.term[b].owner
    /\ history'.term[b].granted
    /\ \E s \in Sockets : session[s].op = "adjust" /\ session[s].id = b

TermsMove == \A b \in Attempts : Gone(b) \/ Stands(b) \/ Decided(b) \/ Adjusted(b)

LEMMA TermsMoveLemma ==
    ASSUME ServiceInv, HistoryStep
    PROVE  TermsMove
<1>0. /\ history \in History /\ Prune(history) \in History /\ Sound(history)
      /\ Retained(Prune(history)) = Live(history)
      /\ \A b \in Live(history) : Prune(history).term[b] = history.term[b]
      /\ Live(history) \subseteq Retained(history)
  BY PruneLemma, PruneSound DEF ServiceInv, LifecycleInv, Sound, Live
<1>1. ASSUME NEW h \in {history, Prune(history)}
      PROVE  /\ h \in History /\ Retained(h) \subseteq Retained(history)
             /\ Live(history) \subseteq Retained(h)
             /\ \A b \in Retained(h) : h.term[b] = history.term[b]
  BY <1>0
<1>2. ASSUME NEW h \in {history, Prune(history)}, history' = h
      PROVE  TermsMove
  BY <1>1, <1>2 DEF TermsMove, Gone, Stands
<1>3. ASSUME NEW h \in {history, Prune(history)}, NEW a \in Attempts \ Retained(h),
             NEW kind \in Kinds, NEW owner \in Sockets \cup {None},
             history' = Concluded(h, a, kind, owner),
             kind = "completed" =>
                 active # None /\ active.id = a /\ active.owner = owner /\ active' = None
      PROVE  TermsMove
  <2>1. /\ a \in Retained(history') => history'.term[a] = Terminal(kind, owner)
        /\ \A b \in Attempts \ {a} : b \in Retained(history') =>
              b \in Retained(h) /\ history'.term[b] = h.term[b]
    BY <1>1, <1>3, ConcludedTerms
  <2>2. Gone(a) \/ Decided(a)
    <3>1. /\ Terminal(kind, owner).kind = kind /\ Terminal(kind, owner).owner = owner
          /\ Terminal(kind, owner).granted <=> kind = "completed"
      BY DEF Terminal
    <3>2. a \notin Live(history)
      BY <1>1, <1>3
    <3> QED
      BY <1>3, <2>1, <3>1, <3>2 DEF Gone, Decided
  <2>3. \A b \in Attempts \ {a} : Gone(b) \/ Stands(b)
    BY <1>1, <2>1 DEF Gone, Stands
  <2> QED
    BY <2>2, <2>3 DEF TermsMove
<1>4. ASSUME NEW h \in {history, Prune(history)}, NEW s \in Sockets,
             NEW ids \in SUBSET Retained(h), history' = Revoke(h, ids), WithdrawnBy(s, ids)
      PROVE  TermsMove
  <2>1. /\ Retained(history') = Retained(h)
        /\ \A b \in Retained(h) :
              /\ history'.term[b].kind = h.term[b].kind
              /\ history'.term[b].owner = h.term[b].owner
              /\ history'.term[b].granted <=> h.term[b].granted /\ b \notin ids
    BY <1>1, <1>4, RevokeLemma, RevokeTerms
  <2>2. \A b \in ids : WithdrawnBy(s, {b})
    BY <1>4 DEF WithdrawnBy
  <2>3. \A b \in Retained(h) : Stands(b)
    BY <1>1, <1>4, <2>1, <2>2 DEF Stands
  <2> QED
    BY <2>1, <2>3 DEF TermsMove, Gone
<1>5. ASSUME NEW s \in Sockets, session[s].op = "adjust",
             Completed(Prune(history), session[s].id),
             history' = Replace(Prune(history), session[s].id)
      PROVE  TermsMove
  <2>1. PICK a \in Attempts : a = session[s].id /\ a \in Retained(Prune(history))
    BY <1>5 DEF Completed, Retained
  <2>2. Completed(Prune(history), a) /\ history' = Replace(Prune(history), a)
    BY <1>5, <2>1
  <2>3. /\ a \in Retained(history')
        /\ history'.term[a] =
              [Prune(history).term[a] EXCEPT !.granted = TRUE, !.stale = FALSE]
        /\ \A b \in Attempts \ {a} : b \in Retained(history') =>
              b \in Retained(Prune(history)) /\ history'.term[b] = Prune(history).term[b]
    <3> DEFINE h == Prune(history)
    <3>1. h \in History /\ Completed(h, a) /\ history' = Replace(h, a)
      BY <1>0, <2>2
    <3> HIDE DEF h
    <3> DEFINE g == Replace(h, a)
    <3>2. /\ a \in Retained(g)
          /\ g.term[a] = [h.term[a] EXCEPT !.granted = TRUE, !.stale = FALSE]
          /\ \A b \in Attempts \ {a} : b \in Retained(g) =>
                b \in Retained(h) /\ g.term[b] = h.term[b]
      BY <3>1, ReplaceTerms
    <3>3. history' = g
      BY <3>1
    <3> HIDE DEF g
    <3>4. /\ a \in Retained(history')
          /\ history'.term[a] = [h.term[a] EXCEPT !.granted = TRUE, !.stale = FALSE]
          /\ \A b \in Attempts \ {a} : b \in Retained(history') =>
                b \in Retained(h) /\ history'.term[b] = h.term[b]
      BY <3>2, <3>3
    <3> QED
      BY <3>4 DEF h
  <2>4. /\ a \in Live(history) /\ Prune(history).term[a] = history.term[a]
        /\ history.term[a] \in TerminalAttempt
    BY <1>0, <2>1, RetainedTerminal
  <2>5. /\ history'.term[a].kind = history.term[a].kind
        /\ history'.term[a].owner = history.term[a].owner
        /\ history'.term[a].granted
    <3>1. history'.term[a] = [history.term[a] EXCEPT !.granted = TRUE, !.stale = FALSE]
      BY <2>3, <2>4
    <3> QED
      BY <2>4, <3>1 DEF TerminalAttempt
  <2>6. Completed(history, a)
    BY <1>0, <2>2, <2>4 DEF Completed
  <2>7. Adjusted(a)
    BY <1>5, <2>1, <2>3, <2>4, <2>5, <2>6 DEF Adjusted
  <2>8. \A b \in Attempts \ {a} : Gone(b) \/ Stands(b)
    BY <1>0, <2>3 DEF Gone, Stands
  <2> QED
    BY <2>7, <2>8 DEF TermsMove
<1>6. ASSUME NEW a \in Attempts, TerminalExpires(a)
      PROVE  TermsMove
  <2>1. a \in Retained(history) /\ history' = [history EXCEPT !.term[a].stale = TRUE]
    BY <1>6 DEF TerminalExpires
  <2>2. history.term[a] \in TerminalAttempt /\ history.term[a] # None
    BY <1>0, <2>1 DEF History, Retained
  <2>3. /\ history'.term[a] = [history.term[a] EXCEPT !.stale = TRUE]
        /\ \A b \in Attempts \ {a} : history'.term[b] = history.term[b]
    BY <1>0, <2>1 DEF History
  <2>4. /\ history'.term[a].kind = history.term[a].kind
        /\ history'.term[a].owner = history.term[a].owner
        /\ history'.term[a].granted = history.term[a].granted
        /\ history'.term[a] # None
    BY <2>2, <2>3, NoneApart DEF TerminalAttempt
  <2> QED
    BY <2>1, <2>3, <2>4 DEF TermsMove, Gone, Stands, Retained
<1> QED
  BY <1>2, <1>3, <1>4, <1>5, <1>6 DEF HistoryStep

-----------------------------------------------------------------------------
(* A history that holds every attempt.                                         *)

(* There is a place for a terminal and for a result of each attempt.           *)
Fits ==
    /\ IsFiniteSet(Attempts)
    /\ Cardinality(Attempts) <= TerminalMax /\ Cardinality(Attempts) <= ResultMax

LEMMA LiveVerdict ==
    ASSUME NEW h \in History, NEW b \in Attempts
    PROVE  b \in Live(h) <=> Verdict(h, b) # "unknown"
<1>1. b \in Live(h) => h.term[b].kind \in Kinds
  BY DEF Live, Retained, History, TerminalAttempt, Kinds
<1> QED
  BY <1>1 DEF Verdict, Kinds

(* Then no terminal is one too many ...                                        *)
LEMMA FitsSound ==
    ASSUME Fits, NEW h \in History, Ordered(h)
    PROVE  Sound(h)
<1> SUFFICES ASSUME NEW a \in Live(h)
             PROVE  Cardinality(NewerThan(h, a, Live(h))) < TerminalMax
  BY DEF Sound, Bounded
<1>1. a \in Attempts /\ <<a, a>> \notin h.older
  BY DEF Live, Retained, Ordered
<1>2. NewerThan(h, a, Live(h)) \in SUBSET (Attempts \ {a})
  BY <1>1 DEF NewerThan, Live, Retained
<1>3. /\ IsFiniteSet(Attempts \ {a}) /\ Cardinality(Attempts) \in Nat
      /\ Cardinality(Attempts \ {a}) = Cardinality(Attempts) - 1
  BY <1>1, FS_RemoveElement, FS_CardinalityType DEF Fits
<1>4. /\ Cardinality(NewerThan(h, a, Live(h))) \in Nat
      /\ Cardinality(NewerThan(h, a, Live(h))) <= Cardinality(Attempts \ {a})
  BY <1>2, <1>3, FS_Subset, FS_CardinalityType
<1> QED
  BY <1>3, <1>4, BoundsAssumption DEF Fits

(* ... and a grant displaces what has expired at most.                         *)
LEMMA FitsGrant ==
    ASSUME Fits, NEW h, Sound(h), Matched(h), NEW a \in Attempts
    PROVE  Live(Grant(h, a)) = Live(h)
<1> DEFINE others == (h.results \ Expired(h)) \ {a}
           ids == Displaced(h, a) \ {a}
<1>1. h \in History /\ Ordered(h) /\ h.results \subseteq Retained(h) /\ Retained(h) \subseteq Attempts
  BY DEF Sound, Matched, HasResult, History, Retained
<1>2. ASSUME NEW b \in others
      PROVE  ~(Cardinality(NewerThan(h, b, others)) >= ResultMax - 1)
  <2>1. b \in Attempts /\ b # a /\ <<b, b>> \notin h.older
    BY <1>1 DEF Ordered
  <2>2. NewerThan(h, b, others) \in SUBSET ((Attempts \ {a}) \ {b})
    BY <1>1, <2>1 DEF NewerThan
  <2>3. /\ IsFiniteSet(Attempts \ {a}) /\ Cardinality(Attempts) \in Nat
        /\ Cardinality(Attempts \ {a}) = Cardinality(Attempts) - 1
    BY FS_RemoveElement, FS_CardinalityType DEF Fits
  <2>4. /\ IsFiniteSet((Attempts \ {a}) \ {b})
        /\ Cardinality((Attempts \ {a}) \ {b}) = Cardinality(Attempts) - 2
    <3>1. b \in Attempts \ {a}
      BY <2>1
    <3>2. /\ IsFiniteSet((Attempts \ {a}) \ {b})
          /\ Cardinality((Attempts \ {a}) \ {b}) = Cardinality(Attempts \ {a}) - 1
      BY <2>3, <3>1, FS_RemoveElement
    <3> QED
      BY <2>3, <3>2
  <2>5. /\ Cardinality(NewerThan(h, b, others)) \in Nat
        /\ Cardinality(NewerThan(h, b, others)) <= Cardinality((Attempts \ {a}) \ {b})
    BY <2>2, <2>4, FS_Subset, FS_CardinalityType
  <2> HIDE DEF others
  <2> QED
    BY <2>3, <2>4, <2>5, BoundsAssumption DEF Fits
<1>3. ids \subseteq Expired(h)
  BY <1>2 DEF Displaced
<1>4. Live(Forget(h, ids)) = Live(h) \ ids
  BY <1>1, ForgetOrdered
<1>5. Grant(h, a).term = Forget(h, ids).term
  BY <1>1, ForgetLemma DEF Grant, History
<1>6. Live(Grant(h, a)) = Live(Forget(h, ids))
  BY <1>5 DEF Live, Retained, Expired
<1> QED
  BY <1>3, <1>4, <1>6 DEF Live

(* A gate section loses no live terminal.                                      *)
LEMMA LiveStays ==
    ASSUME Fits, ServiceInv, HistoryStep, NEW b \in Live(history), ~TerminalExpires(b)
    PROVE  b \in Live(history')
<1>0. /\ b \in Attempts /\ Prune(history) \in History /\ history \in History
      /\ Sound(history) /\ Sound(Prune(history)) /\ Matched(history)
      /\ Matched(Prune(history)) /\ Live(Prune(history)) = Live(history)
  <2>1. /\ b \in Attempts /\ history \in History /\ Sound(history) /\ Matched(history)
        /\ Live(history) \subseteq Attempts
    BY DEF ServiceInv, LifecycleInv, Sound, Live, Retained
  <2>2. /\ Prune(history) \in History /\ Sound(Prune(history)) /\ Matched(Prune(history))
        /\ \A a \in Attempts : Verdict(Prune(history), a) = Verdict(history, a)
    BY <2>1, PruneLemma, PruneSound, PruneMatched
  <2>3. Live(Prune(history)) \subseteq Attempts
    BY DEF Live, Retained
  <2> QED
    BY <2>1, <2>2, <2>3, LiveVerdict
<1>1. ASSUME NEW h \in {history, Prune(history)}
      PROVE  /\ h \in History /\ Sound(h) /\ Matched(h) /\ b \in Live(h)
             /\ \A a \in Attempts : Sound(Grant(h, a)) /\ Live(Grant(h, a)) = Live(h)
  BY <1>0, <1>1, FitsGrant, GrantSound
<1>2. ASSUME NEW h \in {history, Prune(history)}, history' = h
      PROVE  b \in Live(history')
  BY <1>1, <1>2
<1>3. ASSUME NEW h \in {history, Prune(history)}, NEW a \in Attempts \ Retained(h),
             NEW kind \in Kinds, NEW owner \in Sockets \cup {None},
             history' = Concluded(h, a, kind, owner)
      PROVE  b \in Live(history')
  <2> DEFINE room == IF kind = "completed" THEN Grant(h, a) ELSE h
             g == Put(room, a, Terminal(kind, owner))
  <2>1. Terminal(kind, owner) \in TerminalAttempt /\ ~Terminal(kind, owner).stale
    BY DEF Terminal, TerminalAttempt, Kinds
  <2>2. room \in History /\ Ordered(room) /\ Live(room) = Live(h)
    BY <1>1 DEF Sound
  <2>3. history' = Prune(g)
    BY <1>3 DEF Concluded
  <2> HIDE DEF room
  <2>4. g \in History /\ Ordered(g) /\ Live(g) = Live(room) \cup {a}
    BY <2>1, <2>2, PutOrdered
  <2> HIDE DEF g
  <2>5. Sound(g) /\ b \in Live(g)
    BY <1>1, <2>2, <2>4, FitsSound
  <2>6. /\ Prune(g) \in History
        /\ \A c \in Attempts : Verdict(Prune(g), c) = Verdict(g, c)
    BY <2>4, <2>5, PruneLemma, PruneSound
  <2> QED
    BY <1>0, <2>3, <2>4, <2>5, <2>6, LiveVerdict
<1>4. ASSUME NEW h \in {history, Prune(history)}, NEW ids, history' = Revoke(h, ids)
      PROVE  b \in Live(history')
  <2>1. /\ Revoke(h, ids) \in History /\ Verdict(Revoke(h, ids), b) = Verdict(h, b)
    BY <1>0, <1>1, RevokeLemma, RevokeSound
  <2> QED
    BY <1>0, <1>1, <1>4, <2>1, LiveVerdict
<1>5. ASSUME NEW s \in Sockets, Completed(Prune(history), session[s].id),
             history' = Replace(Prune(history), session[s].id)
      PROVE  b \in Live(history')
  <2> DEFINE h == Prune(history)
  <2>1. PICK a \in Attempts : a = session[s].id /\ a \in Retained(h)
    BY <1>5 DEF Completed, Retained
  <2> DEFINE t == [h.term[a] EXCEPT !.granted = TRUE, !.stale = FALSE]
  <2>2. t \in TerminalAttempt /\ ~t.stale
    <3>1. h.term[a] \in TerminalAttempt
      BY <1>0, <2>1, RetainedTerminal
    <3> QED
      BY <3>1 DEF TerminalAttempt
  <2>3. history' = Put(Grant(h, a), a, t)
    BY <1>5, <2>1 DEF Replace
  <2>4. Grant(h, a) \in History /\ Ordered(Grant(h, a)) /\ b \in Live(Grant(h, a))
    BY <1>1 DEF Sound
  <2> HIDE DEF t, h
  <2>5. Live(Put(Grant(h, a), a, t)) = Live(Grant(h, a)) \cup {a}
    BY <2>2, <2>4, PutOrdered
  <2> QED
    BY <2>3, <2>4, <2>5
<1>6. ASSUME NEW a \in Attempts, TerminalExpires(a)
      PROVE  b \in Live(history')
  <2>1. /\ a \in Retained(history) /\ history' = [history EXCEPT !.term[a].stale = TRUE]
        /\ a # b
    BY <1>6 DEF TerminalExpires
  <2>2. history'.term[b] = history.term[b]
    BY <1>0, <2>1 DEF History
  <2> QED
    BY <2>2 DEF Live, Expired, Retained
<1> QED
  BY <1>2, <1>3, <1>4, <1>5, <1>6 DEF HistoryStep

-----------------------------------------------------------------------------
(* Every step is a step of the history.                                        *)

LEMMA HistoryStays ==
    ASSUME history' \in {history, Prune(history)}
    PROVE  HistoryStep
BY DEF HistoryStep

LEMMA HistoryRefuses ==
    ASSUME NEW h \in {history, Prune(history)}, NEW a \in Attempts \ Retained(h),
           NEW kind \in {"failed", "canceled"}, NEW owner \in Sockets \cup {None},
           history' = Concluded(h, a, kind, owner)
    PROVE  HistoryStep
BY DEF HistoryStep, Kinds

LEMMA RefusedIsConcluded ==
    ASSUME NEW h, NEW a, NEW kind \in {"failed", "canceled"}
    PROVE  Prune(Put(h, a, Terminal(kind, None))) = Concluded(h, a, kind, None)
BY DEF Concluded

(* The slot is empty, or not taken by what a history at hand retains.          *)
LEMMA SlotUndecided ==
    ASSUME ServiceInv
    PROVE  /\ TypeOK /\ history \in History
           /\ \A h \in {history, Prune(history)} :
                 /\ active # None => active.id \in Attempts \ Retained(h)
                 /\ pending # None => pending.id \in Attempts \ Retained(h)
           /\ active # None => active.owner \in Sockets
           /\ pending # None => pending.owner \in Sockets
<1>1. GrantInv /\ TypeOK /\ history \in History
  BY DEF ServiceInv, LifecycleInv, GrantInv, Inductive, TypeOK
<1> QED
  BY <1>1, HistoryAtHand DEF TypeOK, ActiveAttempt, PendingAdmission

LEMMA HistoryConcludes ==
    ASSUME ServiceInv, active # None, NEW h \in {history, Prune(history)},
           NEW kind \in Kinds, Conclude(active, h, kind), active' = None
    PROVE  HistoryStep
<1>1. /\ active.id \in Attempts \ Retained(h) /\ active.owner \in Sockets
      /\ history' = Concluded(h, active.id, kind, active.owner)
  BY SlotUndecided DEF Conclude
<1> QED
  BY <1>1 DEF HistoryStep

LEMMA HistoryRevokes ==
    ASSUME ServiceInv, NEW s \in Sockets, NEW ids \in SUBSET Retained(Prune(history)),
           history' = Revoke(Prune(history), ids), RevokeMedia(ids),
           session[s].op \in {"open", "gather"},
           UNCHANGED session \/ Handle(s, [Idle EXCEPT !.op = "closed"]),
           \A a \in ids : CrossSocket \/ history.term[a].owner \in {s, None}
    PROVE  HistoryStep
<1>1. \A a \in ids : a \in Attempts
  BY DEF Retained
<1>2. \A a \in ids : snapshot'[a] = None
  BY <1>1, SlotUndecided DEF RevokeMedia, Revoked
<1>3. WithdrawnBy(s, ids)
  BY <1>2 DEF WithdrawnBy, Handle
<1> QED
  BY <1>3 DEF HistoryStep

(* What a prune leaves it leaves as it is.                                     *)
LEMMA PrunedTerms ==
    ASSUME ServiceInv
    PROVE  /\ Retained(Prune(history)) \subseteq Retained(history)
           /\ \A b \in Retained(Prune(history)) : Prune(history).term[b] = history.term[b]
BY SlotUndecided, PruneLemma

LEMMA TaskHistory ==
    ASSUME ServiceInv, NEW t \in Tasks, Admission(t) \/ Work(t) \/ PublishAcquiring(t)
    PROVE  HistoryStep
<1>t. TypeOK /\ (pc[t] # "idle" => sock[t] \in Sockets /\ aid[t] \in Attempts)
  BY SlotUndecided DEF ServiceInv, LifecycleInv, Inductive, SlotInv, TasksKnowTheirStart
<1>1. CASE \/ ReplayTerminal(t) \/ JoinActive(t) \/ SendLatest(t)
           \/ WaitForCleanup(t) \/ JoinPending(t) \/ WaitForPending(t) \/ Retry(t)
           \/ ResolveJoined(t) \/ AnnounceDisplaced(t) \/ JoinPrior(t)
           \/ JoinTimeout(t) \/ JoinedCleanup(t) \/ AbandonAdmission(t)
           \/ BeginAcquiring(t) \/ StartFails(t) \/ AcquisitionEnds(t)
           \/ Released(t) \/ GenerationEnds(t) \/ WorkerJoined(t)
           \/ PublishAcquiring(t)
  BY <1>1, HistoryStays DEF ReplayTerminal, JoinActive, SendLatest, WaitForCleanup,
     JoinPending, WaitForPending, Retry, ResolveJoined, AnnounceDisplaced,
     JoinPrior, JoinTimeout, JoinedCleanup, AbandonAdmission, BeginAcquiring,
     StartFails, AcquisitionEnds, Released, GenerationEnds, WorkerJoined,
     PublishAcquiring
<1>2. CASE Displace(t)
  BY <1>2, HistoryConcludes DEF Displace, Kinds
<1>3. ASSUME NEW p \in PendingAdmission, p.id \notin Retained(Prune(history)),
             CommitAdmission(t, p, Prune(history))
      PROVE  HistoryStep
  <2>1. p.id \in Attempts \ Retained(Prune(history)) /\ p.owner \in Sockets
    BY <1>3 DEF PendingAdmission
  <2>2. \/ history' = Concluded(Prune(history), p.id, "failed", None)
        \/ history' = Concluded(Prune(history), p.id, "canceled", p.owner)
        \/ history' = Prune(history)
    BY <1>3, RefusedIsConcluded DEF CommitAdmission
  <2> QED
    BY <2>1, <2>2, HistoryRefuses, HistoryStays
<1>4. CASE AdmitFree(t)
  <2> DEFINE p == [id |-> aid[t], task |-> t, owner |-> sock[t],
                   subs |-> {sock[t]}, prior |-> None]
  <2>1. /\ CommitAdmission(t, p, Prune(history)) /\ pc[t] = "prepare"
        /\ aid[t] \notin Retained(Prune(history))
    BY <1>4 DEF AdmitFree, Unresolved
  <2>2. p \in PendingAdmission /\ p.id = aid[t]
    BY <1>t, <2>1 DEF PendingAdmission
  <2> HIDE DEF p
  <2> QED
    BY <1>3, <2>1, <2>2
<1>5. CASE Admit(t)
  <2>1. pc[t] = "admit" /\ t \notin cancelled
    BY <1>5 DEF Admit
  <2>2. pending # None /\ pending \in PendingAdmission
    BY <1>t, <2>1 DEF ServiceInv, LifecycleInv, Inductive, SlotInv, SlotGuards,
       SlotEmptied, ReserversPend, Reserving, TypeOK
  <2> QED
    BY <1>3, <1>5, <2>2, SlotUndecided DEF Admit
<1>6. CASE Complete(t)
  <2>1. active # None /\ Conclude(active, history, "completed") /\ active' = None
    BY <1>6 DEF Complete, IsCurrent, PublishTo, Detached
  <2> QED
    BY <2>1, HistoryConcludes DEF Kinds
<1>7. CASE End(t)
  <2>1. outcome[t] \in Kinds
    BY <1>7 DEF End, ServiceInv, LifecycleInv, Inductive, SlotInv,
       TasksKnowTheirStart, Kinds
  <2>2. CASE IsCurrent(t)
    <3>1. active # None /\ Conclude(active, history, outcome[t]) /\ active' = None
      BY <1>7, <2>2 DEF End, IsCurrent, PublishTo, Detached
    <3> QED
      BY <2>1, <3>1, HistoryConcludes
  <2>3. CASE ~IsCurrent(t)
    BY <1>7, <2>3, HistoryStays DEF End
  <2> QED
    BY <2>2, <2>3
<1> QED
  BY <1>1, <1>2, <1>4, <1>5, <1>6, <1>7 DEF Admission, Work

LEMMA SessionHistory ==
    ASSUME ServiceInv, NEW s \in Sockets,
           Progress(s) \/ Disconnect(s) \/ PeerLost(s) \/ BeginClose(s)
    PROVE  HistoryStep
<1>1. CASE \/ JoinOrRejectAgain(s) \/ ReplayLatest(s) \/ PublishCanceled(s)
           \/ Detach(s) \/ FenceJoined(s) \/ FenceNotify(s) \/ AbortDisconnect(s)
           \/ FenceDone(s) \/ PeerLost(s) \/ BeginClose(s)
  BY <1>1, HistoryStays DEF JoinOrRejectAgain, ReplayLatest, PublishCanceled, Detach,
     FenceJoined, FenceNotify, AbortDisconnect, FenceDone, PeerLost, BeginClose
<1>2. CASE JoinOrReject(s)
  <2>1. PICK a \in Attempts : a = session[s].id
    BY <1>2 DEF JoinOrReject, ServiceInv, LifecycleInv, Inductive, SlotInv,
       HandlersKnowTheirAttempt
  <2>2. \/ history' = Prune(history)
        \/ /\ a \notin Retained(Prune(history))
           /\ history' = Concluded(Prune(history), a, "failed", None)
    BY <1>2, <2>1, RefusedIsConcluded DEF JoinOrReject
  <2> QED
    BY <2>2, HistoryStays, HistoryRefuses
<1>3. CASE EndAdjust(s)
  BY <1>3, HistoryStays DEF EndAdjust, HistoryStep
<1>4. ASSUME NEW r \in Tasks, FenceOwned(s, r)
      PROVE  HistoryStep
  <2>1. CASE IsCurrent(r)
    BY <1>4, <2>1, HistoryConcludes DEF FenceOwned, FenceActive, IsCurrent, Kinds
  <2>2. CASE ~IsCurrent(r)
    BY <1>4, <2>2, HistoryStays DEF FenceOwned
  <2> QED
    BY <2>1, <2>2
<1>5. CASE RevokeOwned(s)
  <2> DEFINE ids == OwnedCompleted(Prune(history), s)
  <2>1. /\ ids \in SUBSET Retained(Prune(history))
        /\ \A a \in ids : history.term[a].owner = s
    BY PrunedTerms DEF OwnedCompleted, Completed
  <2>2. /\ history' = Revoke(Prune(history), ids) /\ RevokeMedia(ids)
        /\ session[s].op = "gather" /\ Handle(s, [Idle EXCEPT !.op = "closed"])
    BY <1>5 DEF RevokeOwned
  <2> HIDE DEF ids
  <2> QED
    BY <2>1, <2>2, HistoryRevokes
<1> QED
  BY <1>1, <1>2, <1>3, <1>4, <1>5 DEF Progress, Disconnect

LEMMA MessageHistory ==
    ASSUME ServiceInv, NEW s \in Sockets, NEW a \in Attempts, Message(s, a)
    PROVE  HistoryStep
<1>1. CASE (\E t \in Tasks : Start(s, t, a)) \/ Backpressure(s, a) \/ BeginAdjust(s, a)
  BY <1>1, HistoryStays DEF Start, Backpressure, BeginAdjust
<1>2. CASE CancelAttempt(s, a)
  BY <1>2, HistoryConcludes DEF CancelAttempt, FenceActive, IsActive, Kinds
<1>3. CASE LeaveRoute(s, a)
  <2>1. /\ RevokeMedia({a}) /\ session[s].op = "open" /\ UNCHANGED session
        /\ MayAddress(s, a)
        /\ \/ history' = Prune(history)
           \/ Completed(Prune(history), a) /\ history' = Revoke(Prune(history), {a})
    BY <1>3 DEF LeaveRoute
  <2>2. Completed(Prune(history), a) =>
          /\ {a} \in SUBSET Retained(Prune(history))
          /\ CrossSocket \/ history.term[a].owner \in {s, None}
    BY <2>1, PrunedTerms DEF Completed, MayAddress
  <2> QED
    BY <2>1, <2>2, HistoryStays, HistoryRevokes
<1> QED
  BY <1>1, <1>2, <1>3 DEF Message

LEMMA ClockHistory ==
    ASSUME ServiceInv,
           \/ \E a \in Attempts : TerminalExpires(a) \/ MediaExpires(a)
           \/ CleanupFinishes \/ BeginShutdown \/ EndShutdown \/ Terminated
           \/ UNCHANGED vars
    PROVE  HistoryStep
<1>1. CASE \E a \in Attempts : TerminalExpires(a)
  BY <1>1 DEF HistoryStep
<1>2. CASE \/ \E a \in Attempts : MediaExpires(a)
           \/ CleanupFinishes \/ EndShutdown \/ Terminated \/ UNCHANGED vars
  BY <1>2, HistoryStays DEF MediaExpires, CleanupFinishes, FinishCleanup, EndShutdown,
     Terminated
<1>3. CASE BeginShutdown
  <2>1. CASE active # None
    BY <1>3, <2>1, HistoryConcludes DEF BeginShutdown, Kinds
  <2>2. CASE active = None /\ pending # None
    <3>1. PICK a \in Attempts \ Retained(history) : a = pending.id
      BY <2>2, SlotUndecided
    <3>2. history' = Concluded(history, a, "canceled", None)
      BY <1>3, <2>2, <3>1, RefusedIsConcluded DEF BeginShutdown
    <3> QED
      BY <3>2, HistoryRefuses
  <2>3. CASE active = None /\ pending = None
    BY <1>3, <2>3, HistoryStays DEF BeginShutdown
  <2> QED
    BY <2>1, <2>2, <2>3
<1> QED
  BY <1>1, <1>2, <1>3

LEMMA HistoryStepLemma == ServiceInv /\ [Next]_vars => HistoryStep
<1>1. ServiceInv /\ (\E s \in Sockets : PublicationEnds(s)) => HistoryStep
  BY HistoryStays DEF PublicationEnds
<1> QED
  BY <1>1, TaskHistory, SessionHistory, MessageHistory, ClockHistory DEF Next

-----------------------------------------------------------------------------
(* The slot knows its task.                                                    *)

Same(x, y) ==
    x # None /\ y # None /\ y.id = x.id /\ y.task = x.task /\ y.owner = x.owner

(* The attempt of task t takes the free slot.                                  *)
Begins(t) ==
    /\ active = None /\ active' # None
    /\ active'.task = t /\ active'.id = aid[t] /\ active'.owner = sock[t]
    /\ pc[t] \in {"prepare", "admit"} /\ pc'[t] = "start"
    /\ ~ConnectionClosed(sock[t])
    /\ UNCHANGED <<aid, sock, session>>

(* Task t reserves the slot it has just taken from another.                    *)
Reserves(t) ==
    /\ active # None /\ pending = None /\ pending' # None
    /\ pending'.task = t /\ pending'.id = aid[t] /\ pending'.owner = sock[t]
    /\ pc[t] = "prepare"
    /\ UNCHANGED <<aid, sock>>

(* The slot changes hands in the open: what leaves it is decided or goes on.   *)
ActiveMoves ==
    \/ UNCHANGED active \/ Same(active, active')
    \/ active # None /\ active' = None /\ active.id \in Live(history')
    \/ \E t \in Tasks : Begins(t)

PendingMoves ==
    \/ UNCHANGED pending \/ Same(pending, pending')
    \/ /\ pending # None /\ pending' = None
       /\ \/ pending.id \in Live(history')
          \/ active' # None /\ active'.id = pending.id
    \/ \E t \in Tasks : Reserves(t)

(* A task keeps its message, and does not come back from beyond its admission. *)
TasksMove ==
    \A t \in Tasks :
        /\ pc[t] # "idle" => pc'[t] # "idle" /\ aid'[t] = aid[t] /\ sock'[t] = sock[t]
        /\ pc[t] \in PastAdmission => pc'[t] \in PastAdmission

StepMoves == ActiveMoves /\ PendingMoves /\ TasksMove

LEMMA GotoMoves ==
    ASSUME TypeOK, NEW t \in Tasks, NEW label, Goto(t, label), label # "idle",
           UNCHANGED <<aid, sock>>, pc[t] \in PastAdmission => label \in PastAdmission
    PROVE  TasksMove
BY DEF TypeOK, Goto, TasksMove

LEMMA StillMoves ==
    ASSUME UNCHANGED <<pc, aid, sock>>
    PROVE  TasksMove
BY DEF TasksMove

(* A publication to a set of connections detaches some of them.                *)
LEMMA DetachedMoves ==
    ASSUME TypeOK, NEW gone, active' = Detached(active, gone),
           pending' = Detached(pending, gone)
    PROVE  ActiveMoves /\ PendingMoves
<1>1. active' = active \/ Same(active, active')
  BY DetachedLemma, NoneApart DEF TypeOK, Same
<1>2. pending' = pending \/ Same(pending, pending')
  BY DetachedLemma, NoneApart DEF TypeOK, Same
<1> QED
  BY <1>1, <1>2 DEF ActiveMoves, PendingMoves

LEMMA ObservationMoves ==
    ASSUME TypeOK, NEW t \in Tasks, PublishObservation(t)
    PROVE  ActiveMoves /\ PendingMoves
<1>1. CASE IsCurrent(t)
  <2> DEFINE x == [active EXCEPT !.latest = TRUE]
  <2>1. /\ x \in ActiveAttempt
        /\ x.id = active.id /\ x.task = active.task /\ x.owner = active.owner
    BY <1>1 DEF TypeOK, IsCurrent, ActiveAttempt
  <2>2. /\ active' = Detached(x, active.subs \ up)
        /\ pending' = Detached(pending, active.subs \ up)
    BY <1>1 DEF PublishObservation, PublishTo
  <2> HIDE DEF x
  <2>3. ActiveMoves
    BY <1>1, <2>1, <2>2, DetachedLemma, NoneApart DEF ActiveMoves, IsCurrent, Same
  <2>4. PendingMoves
    BY <2>2, DetachedLemma, NoneApart DEF PendingMoves, TypeOK, Same
  <2> QED
    BY <2>3, <2>4
<1>2. CASE ~IsCurrent(t)
  BY <1>2 DEF PublishObservation, ActiveMoves, PendingMoves
<1> QED
  BY <1>1, <1>2

(* A concluded attempt has a live terminal.                                    *)
LEMMA ConcludedIsLive ==
    ASSUME ServiceInv, NEW h \in {history, Prune(history)}, NEW a \in Attempts,
           NEW kind \in Kinds, NEW owner \in Sockets \cup {None},
           history' = Concluded(h, a, kind, owner)
    PROVE  a \in Live(history')
<1>1. Sound(h)
  BY PruneSound DEF ServiceInv, LifecycleInv
<1>2. /\ Concluded(h, a, kind, owner) \in History
      /\ Verdict(Concluded(h, a, kind, owner), a) = kind
  BY <1>1, ConcludedSound DEF Sound
<1> QED
  BY <1>2, LiveVerdict DEF Kinds

LEMMA ConcludeMoves ==
    ASSUME ServiceInv, active # None, NEW h \in {history, Prune(history)},
           NEW kind \in Kinds, Conclude(active, h, kind), active' = None
    PROVE  ActiveMoves
<1>1. /\ active.id \in Attempts /\ active.owner \in Sockets
      /\ history' = Concluded(h, active.id, kind, active.owner)
  BY SlotUndecided DEF Conclude
<1>2. active.id \in Live(history')
  BY <1>1, ConcludedIsLive
<1> QED
  BY <1>2 DEF ActiveMoves

(* A reservation is committed by its task.                                     *)
LEMMA CommitMoves ==
    ASSUME ServiceInv, NEW t \in Tasks, NEW p \in PendingAdmission,
           active = None, p.id = aid[t], p.owner = sock[t],
           pc[t] \in {"prepare", "admit"},
           pending = None \/ pending.id = p.id,
           CommitAdmission(t, p, Prune(history))
    PROVE  StepMoves
<1> USE DEF PastAdmission, WorkPCs
<1>1. TypeOK /\ p.id \in Attempts /\ p.owner \in Sockets
  BY SlotUndecided DEF PendingAdmission
<1>2. UNCHANGED <<aid, sock, session>> /\ pc[t] \notin PastAdmission /\ pending' = None
  BY DEF CommitAdmission, PublishTo, Detached
<1>3. CASE /\ active' = None /\ Goto(t, "done")
           /\ \/ history' = Concluded(Prune(history), p.id, "failed", None)
              \/ history' = Concluded(Prune(history), p.id, "canceled", p.owner)
  <2>1. TasksMove
    BY <1>1, <1>2, <1>3, GotoMoves
  <2>2. p.id \in Live(history')
    BY <1>1, <1>3, ConcludedIsLive DEF Kinds
  <2> QED
    BY <1>2, <1>3, <2>1, <2>2 DEF StepMoves, ActiveMoves, PendingMoves
<1>4. CASE /\ ~ConnectionClosed(p.owner) /\ Goto(t, "start")
           /\ active' = [id |-> p.id, task |-> t, owner |-> p.owner,
                         subs |-> p.subs, latest |-> FALSE]
  <2>1. TasksMove
    BY <1>1, <1>2, <1>4, GotoMoves
  <2>2. active' # None /\ active'.id = p.id /\ active'.task = t /\ active'.owner = p.owner
    <3>1. active' \in ActiveAttempt
      BY <1>4 DEF ActiveAttempt, PendingAdmission
    <3> QED
      BY <1>4, <3>1, NoneApart
  <2>3. pc'[t] = "start"
    BY <1>1, <1>4 DEF TypeOK, Goto
  <2>4. Begins(t)
    BY <1>2, <1>4, <2>2, <2>3 DEF Begins
  <2> QED
    BY <1>2, <2>1, <2>2, <2>4 DEF StepMoves, ActiveMoves, PendingMoves
<1> QED
  BY <1>3, <1>4, RefusedIsConcluded DEF CommitAdmission, PublishTo, Detached, WaitFor

LEMMA AdmissionMoves ==
    ASSUME ServiceInv, NEW t \in Tasks, Admission(t)
    PROVE  StepMoves
<1> USE DEF StepMoves
<1>t. /\ TypeOK /\ (pc[t] # "idle" => sock[t] \in Sockets /\ aid[t] \in Attempts)
      /\ SlotKnows
  BY SlotUndecided DEF ServiceInv, LifecycleInv, Inductive, SlotInv, TasksKnowTheirStart
<1>1. CASE \/ ReplayTerminal(t) \/ JoinActive(t) \/ SendLatest(t)
           \/ WaitForCleanup(t) \/ JoinPending(t) \/ WaitForPending(t) \/ Retry(t)
           \/ ResolveJoined(t) \/ Displace(t) \/ AnnounceDisplaced(t) \/ JoinPrior(t)
           \/ JoinTimeout(t) \/ JoinedCleanup(t) \/ AbandonAdmission(t)
  <2>1. /\ UNCHANGED <<aid, sock>> /\ pc[t] \notin PastAdmission
        /\ \E label : Goto(t, label) /\ label # "idle"
    BY <1>1 DEF ReplayTerminal, JoinActive, SendLatest, WaitForCleanup, JoinPending,
       WaitForPending, Retry, ResolveJoined, Displace, AnnounceDisplaced, JoinPrior,
       JoinTimeout, JoinedCleanup, AbandonAdmission, WaitFor, Unresolved,
       PastAdmission, WorkPCs
  <2>2. TasksMove
    BY <1>t, <2>1, GotoMoves
  <2>3. CASE JoinActive(t)
    <3>1. /\ active \in ActiveAttempt /\ sock[t] \in Sockets
          /\ active' \in Attached(active, sock[t]) /\ UNCHANGED pending
      BY <1>t, <2>3 DEF JoinActive, TypeOK, IsActive
    <3>2. Same(active, active')
      BY <3>1, AttachedLemma, NoneApart DEF Same
    <3> QED
      BY <2>2, <3>1, <3>2 DEF ActiveMoves, PendingMoves
  <2>4. CASE JoinPending(t)
    <3>1. /\ pending \in PendingAdmission /\ sock[t] \in Sockets
          /\ pending' \in Attached(pending, sock[t]) /\ UNCHANGED active
      BY <1>t, <2>4 DEF JoinPending, Unresolved, TypeOK, IsPending
    <3>2. Same(pending, pending')
      BY <3>1, AttachedLemma, NoneApart DEF Same
    <3> QED
      BY <2>2, <3>1, <3>2 DEF ActiveMoves, PendingMoves
  <2>5. CASE Displace(t)
    <3>1. ActiveMoves
      BY <2>5, ConcludeMoves DEF Displace, Kinds
    <3>2. /\ active # None /\ pending = None /\ pc[t] = "prepare"
          /\ pending' = [id |-> aid[t], task |-> t, owner |-> sock[t],
                          subs |-> {sock[t]}, prior |-> active.task]
      BY <2>5 DEF Displace, Unresolved
    <3>3. pending' \in PendingAdmission
      BY <1>t, <3>2 DEF TypeOK, PendingAdmission, ActiveAttempt
    <3>4. Reserves(t)
      BY <2>1, <3>2, <3>3, NoneApart DEF Reserves
    <3> QED
      BY <2>2, <3>1, <3>4 DEF PendingMoves
  <2>6. CASE AnnounceDisplaced(t)
    BY <1>t, <2>2, <2>6, DetachedMoves DEF AnnounceDisplaced, PublishTo
  <2>7. CASE ~(JoinActive(t) \/ JoinPending(t) \/ Displace(t) \/ AnnounceDisplaced(t))
    <3>1. UNCHANGED <<active, pending>>
      BY <1>1, <2>7 DEF ReplayTerminal, SendLatest, WaitForCleanup,
         WaitForPending, Retry, ResolveJoined, JoinPrior,
         JoinTimeout, JoinedCleanup, AbandonAdmission
    <3> QED
      BY <2>2, <3>1 DEF ActiveMoves, PendingMoves
  <2> QED
    BY <2>3, <2>4, <2>5, <2>6, <2>7
<1>2. CASE AdmitFree(t)
  <2> DEFINE p == [id |-> aid[t], task |-> t, owner |-> sock[t],
                   subs |-> {sock[t]}, prior |-> None]
  <2>1. /\ CommitAdmission(t, p, Prune(history)) /\ pc[t] = "prepare"
        /\ active = None /\ pending = None
    BY <1>2 DEF AdmitFree, Unresolved
  <2>2. p \in PendingAdmission /\ p.id = aid[t] /\ p.owner = sock[t]
    BY <1>t, <2>1 DEF PendingAdmission
  <2> HIDE DEF p
  <2> QED
    BY <2>1, <2>2, CommitMoves
<1>3. CASE Admit(t)
  <2>1. /\ pc[t] = "admit" /\ t \in Reserving \ cancelled
        /\ CommitAdmission(t, pending, Prune(history))
    BY <1>3 DEF Admit, Reserving
  <2>2. pending # None /\ pending.task = t /\ active = None
    BY <2>1 DEF ServiceInv, LifecycleInv, Inductive, SlotInv, SlotGuards, SlotEmptied,
       ReserversPend, PendingExcludes
  <2>3. /\ pending \in PendingAdmission
        /\ pending.id = aid[t] /\ pending.owner = sock[t]
    BY <1>t, <2>2 DEF TypeOK, SlotKnows, Knows
  <2> QED
    BY <2>1, <2>2, <2>3, CommitMoves
<1> QED
  BY <1>1, <1>2, <1>3 DEF Admission

LEMMA WorkMoves ==
    ASSUME ServiceInv, NEW t \in Tasks, Work(t) \/ PublishAcquiring(t)
    PROVE  StepMoves
<1> USE DEF StepMoves
<1>t. TypeOK
  BY SlotUndecided
<1>1. CASE PublishAcquiring(t)
  BY <1>t, <1>1, ObservationMoves, StillMoves DEF PublishAcquiring
<1>2. CASE Work(t)
  <2>1. /\ UNCHANGED <<aid, sock>>
        /\ \E label \in PastAdmission : Goto(t, label) /\ label # "idle"
    BY <1>2 DEF Work, BeginAcquiring, StartFails, AcquisitionEnds, Released,
       GenerationEnds, WorkerJoined, Complete, End, PastAdmission, WorkPCs
  <2>2. TasksMove
    BY <1>t, <2>1, GotoMoves
  <2>3. CASE Complete(t) \/ (End(t) /\ IsCurrent(t))
    <3>1. PICK kind \in Kinds : Conclude(active, history, kind)
      BY <2>3 DEF Complete, End, Kinds, ServiceInv, LifecycleInv, Inductive, SlotInv,
         TasksKnowTheirStart
    <3>2. active # None /\ active' = None /\ pending' = Detached(pending, active.subs \ up)
      BY <2>3 DEF Complete, End, IsCurrent, PublishTo, Detached
    <3>3. ActiveMoves
      BY <3>1, <3>2, ConcludeMoves
    <3>4. pending' = pending \/ Same(pending, pending')
      BY <1>t, <3>2, DetachedLemma, NoneApart DEF TypeOK, Same
    <3> QED
      BY <2>2, <3>3, <3>4 DEF PendingMoves
  <2>4. CASE ~(Complete(t) \/ (End(t) /\ IsCurrent(t)))
    <3>1. PublishObservation(t) \/ UNCHANGED <<active, pending>>
      BY <1>2, <2>4 DEF Work, BeginAcquiring, StartFails, AcquisitionEnds, Released,
         GenerationEnds, WorkerJoined, End
    <3> QED
      BY <1>t, <2>2, <3>1, ObservationMoves DEF ActiveMoves, PendingMoves
  <2> QED
    BY <2>3, <2>4
<1> QED
  BY <1>1, <1>2

(* A connection or the clock moves no task.                                    *)
LEMMA LoopMoves ==
    ASSUME ServiceInv, NEW s \in Sockets,
           Progress(s) \/ Disconnect(s) \/ PeerLost(s) \/ BeginClose(s)
    PROVE  StepMoves
<1> USE DEF StepMoves
<1>t. TypeOK
  BY SlotUndecided
<1>1. UNCHANGED <<pc, aid, sock>>
  BY DEF Progress, Disconnect, PeerLost, BeginClose, JoinOrReject, JoinOrRejectAgain,
     ReplayLatest, PublishCanceled, EndAdjust, Detach, FenceOwned, FenceJoined,
     FenceNotify, AbortDisconnect, FenceDone, RevokeOwned
<1>2. TasksMove
  BY <1>1, StillMoves
<1>3. CASE JoinOrReject(s)
  <2>1. \/ UNCHANGED active /\ UNCHANGED pending
        \/ active # None /\ active' \in Attached(active, s) /\ UNCHANGED pending
        \/ pending # None /\ pending' \in Attached(pending, s) /\ UNCHANGED active
    BY <1>3 DEF JoinOrReject, IsActive, IsPending
  <2>2. active' \in Attached(active, s) /\ active # None => Same(active, active')
    BY <1>t, AttachedLemma, NoneApart DEF TypeOK, Same
  <2>3. pending' \in Attached(pending, s) /\ pending # None => Same(pending, pending')
    BY <1>t, AttachedLemma, NoneApart DEF TypeOK, Same
  <2> QED
    BY <1>2, <2>1, <2>2, <2>3 DEF ActiveMoves, PendingMoves
<1>4. ASSUME NEW r \in Tasks, FenceOwned(s, r)
      PROVE  StepMoves
  <2>1. CASE IsCurrent(r)
    <3>1. /\ active # None /\ Conclude(active, history, "canceled")
          /\ active' = None /\ UNCHANGED pending
      BY <1>4, <2>1 DEF FenceOwned, FenceActive, IsCurrent
    <3> QED
      BY <1>2, <3>1, ConcludeMoves DEF Kinds, PendingMoves
  <2>2. CASE ~IsCurrent(r)
    BY <1>2, <1>4, <2>2 DEF FenceOwned, ActiveMoves, PendingMoves
  <2> QED
    BY <2>1, <2>2
<1>5. CASE PublishCanceled(s) \/ Detach(s) \/ FenceNotify(s) \/ AbortDisconnect(s)
  <2>1. \E gone : active' = Detached(active, gone) /\ pending' = Detached(pending, gone)
    BY <1>5 DEF PublishCanceled, Detach, FenceNotify, AbortDisconnect, PublishTo
  <2> QED
    BY <1>t, <1>2, <2>1, DetachedMoves
<1>6. CASE \/ JoinOrRejectAgain(s) \/ ReplayLatest(s) \/ EndAdjust(s) \/ FenceJoined(s)
           \/ FenceDone(s) \/ RevokeOwned(s) \/ PeerLost(s) \/ BeginClose(s)
  BY <1>2, <1>6 DEF JoinOrRejectAgain, ReplayLatest, EndAdjust, FenceJoined, FenceDone,
     RevokeOwned, PeerLost, BeginClose, ActiveMoves, PendingMoves
<1> QED
  BY <1>3, <1>4, <1>5, <1>6 DEF Progress, Disconnect

LEMMA MessageMoves ==
    ASSUME ServiceInv, NEW s \in Sockets, NEW a \in Attempts, Message(s, a)
    PROVE  StepMoves
<1> USE DEF StepMoves
<1>t. TypeOK
  BY SlotUndecided
<1>1. ASSUME NEW t \in Tasks, Start(s, t, a)
      PROVE  StepMoves
  <2>1. TasksMove
    BY <1>t, <1>1 DEF Start, Goto, TypeOK, TasksMove, PastAdmission, WorkPCs
  <2> QED
    BY <1>1, <2>1 DEF Start, ActiveMoves, PendingMoves
<1>2. CASE CancelAttempt(s, a)
  <2>1. /\ active # None /\ Conclude(active, history, "canceled")
        /\ active' = None /\ UNCHANGED <<pending, pc, aid, sock>>
    BY <1>2 DEF CancelAttempt, FenceActive, IsActive
  <2> QED
    BY <2>1, ConcludeMoves, StillMoves DEF Kinds, PendingMoves
<1>3. CASE Backpressure(s, a) \/ LeaveRoute(s, a) \/ BeginAdjust(s, a)
  <2>1. UNCHANGED <<active, pending, pc, aid, sock>>
    BY <1>3 DEF Backpressure, LeaveRoute, BeginAdjust
  <2> QED
    BY <2>1, StillMoves DEF ActiveMoves, PendingMoves
<1> QED
  BY <1>1, <1>2, <1>3 DEF Message

LEMMA ClockMoves ==
    ASSUME ServiceInv,
           \/ \E a \in Attempts : TerminalExpires(a) \/ MediaExpires(a)
           \/ CleanupFinishes \/ BeginShutdown \/ EndShutdown \/ Terminated
           \/ UNCHANGED vars
    PROVE  StepMoves
<1> USE DEF StepMoves
<1>1. CASE \/ \E a \in Attempts : TerminalExpires(a) \/ MediaExpires(a)
           \/ CleanupFinishes \/ EndShutdown \/ Terminated \/ UNCHANGED vars
  <2>1. UNCHANGED <<active, pending, pc, aid, sock>>
    BY <1>1 DEF TerminalExpires, MediaExpires, CleanupFinishes, FinishCleanup,
       EndShutdown, Terminated
  <2> QED
    BY <2>1, StillMoves DEF ActiveMoves, PendingMoves
<1>2. CASE BeginShutdown
  <2>0. UNCHANGED <<pc, aid, sock>>
    BY <1>2 DEF BeginShutdown
  <2>1. CASE active # None
    <3>1. Conclude(active, history, "canceled") /\ active' = None /\ UNCHANGED pending
      BY <1>2, <2>1 DEF BeginShutdown
    <3> QED
      BY <2>0, <2>1, <3>1, ConcludeMoves, StillMoves DEF Kinds, PendingMoves
  <2>2. CASE active = None /\ pending # None
    <3>1. PICK a \in Attempts : a = pending.id
      BY <2>2, SlotUndecided
    <3>2. /\ history' = Concluded(history, a, "canceled", None)
          /\ UNCHANGED active /\ pending' = None
      BY <1>2, <2>2, <3>1, RefusedIsConcluded DEF BeginShutdown
    <3>3. a \in Live(history')
      BY <3>2, ConcludedIsLive DEF Kinds
    <3> QED
      BY <2>0, <2>2, <3>1, <3>2, <3>3, StillMoves DEF ActiveMoves, PendingMoves
  <2>3. CASE active = None /\ pending = None
    BY <1>2, <2>0, <2>3, StillMoves DEF BeginShutdown, ActiveMoves, PendingMoves
  <2> QED
    BY <2>1, <2>2, <2>3
<1> QED
  BY <1>1, <1>2

LEMMA StepMovesLemma == ServiceInv /\ [Next]_vars => StepMoves
<1>1. ASSUME ServiceInv, NEW s \in Sockets, PublicationEnds(s)
      PROVE  StepMoves
  <2>1. TasksMove
    BY <1>1, StillMoves DEF PublicationEnds
  <2>2. TypeOK
    BY <1>1, SlotUndecided
  <2>3. CASE UNCHANGED <<active, pending>>
    BY <2>1, <2>3 DEF StepMoves, ActiveMoves, PendingMoves
  <2>4. CASE active' = Detached(active, {s}) /\ pending' = Detached(pending, {s})
    BY <2>1, <2>2, <2>4, DetachedMoves DEF StepMoves
  <2> QED
    BY <1>1, <2>3, <2>4 DEF PublicationEnds
<1> QED
  BY <1>1, AdmissionMoves, WorkMoves, LoopMoves, MessageMoves, ClockMoves DEF Next

LEMMA ServiceInit == Init => ServiceInv
<1> SUFFICES ASSUME Init PROVE ServiceInv
  OBVIOUS
<1>1. SlotKnows
  BY DEF Init, SlotKnows, Knows
<1> QED
  BY <1>1, LifecycleInit, MatchedInit DEF ServiceInv

LEMMA ServiceNext == ServiceInv /\ [Next]_vars => ServiceInv'
<1> SUFFICES ASSUME ServiceInv, [Next]_vars PROVE ServiceInv'
  OBVIOUS
<1>1. LifecycleInv'
  BY LifecycleNext DEF ServiceInv
<1>2. Matched(history)'
  BY MatchedNext DEF ServiceInv, GrantInv, LifecycleInv
<1>3. StepMoves
  BY StepMovesLemma
<1>4. /\ active # None => active.task \in Tasks /\ pc[active.task] # "idle"
      /\ pending # None => pending.task \in Tasks /\ pc[pending.task] # "idle"
  <2>1. TypeOK
    BY SlotUndecided
  <2>2. SlotInv
    BY DEF ServiceInv, LifecycleInv, Inductive
  <2> QED
    BY <2>1, <2>2 DEF SlotInv, SlotGuards, SlotEmptied, ActiveExcludes, PendingExcludes,
       Reserving, PastAdmission, WorkPCs, TypeOK, ActiveAttempt, PendingAdmission
<1>5. Knows(active)'
  BY <1>3, <1>4 DEF StepMoves, ActiveMoves, TasksMove, Same, Begins, ServiceInv, SlotKnows,
     Knows
<1>6. Knows(pending)'
  BY <1>3, <1>4 DEF StepMoves, PendingMoves, TasksMove, Same, Reserves, ServiceInv,
     SlotKnows, Knows
<1> QED
  BY <1>1, <1>2, <1>5, <1>6 DEF ServiceInv, SlotKnows


-----------------------------------------------------------------------------
(* Progress.                                                                   *)
(*                                                                             *)
(* Four messages can bring news of an attempt that still has a verdict: they   *)
(* are told apart by the gate section in front of each.  A join has just seen  *)
(* that no terminal is retained, an observation that its task is current; what *)
(* is left are the two answers that were under way.                            *)

Excused(s, a) ==
    \/ session[s].op = "replay" /\ session[s].id = a
    \/ \E t \in Tasks : /\ sock[t] = s /\ aid[t] = a
                         /\ pc[t] \in {"start", "replay"} /\ pc'[t] # pc[t]

Reopens(s, a) == seen[s][a] = "ended" /\ seen'[s][a] = "live"

Unheard ==
    \A s \in up' \cap Observed, a \in Live(history) : Reopens(s, a) => Excused(s, a)

(* A message about attempt b reopens b at most, and only with its progress.    *)
LEMMA SendReopens ==
    ASSUME TypeOK, NEW subs, NEW b, NEW kind, Send(subs, b, kind),
           NEW s \in Sockets, NEW a \in Attempts, Reopens(s, a)
    PROVE  s \in subs /\ a = b /\ kind = "live"
<1>1. /\ seen[s] \in [Attempts -> {"none", "live", "ended"}]
      /\ seen'[s] = IF s \in subs \cap up \cap Observed
                      THEN [seen[s] EXCEPT ![b] = kind] ELSE seen[s]
  BY DEF TypeOK, Send
<1>2. seen'[s][a] # seen[s][a]
  BY DEF Reopens
<1> QED
  BY <1>1, <1>2 DEF Reopens

LEMMA EndedUnheard ==
    ASSUME TypeOK, history \in History,
           \/ UNCHANGED seen
           \/ \E subs, b : Send(subs, b, "ended")
    PROVE  Unheard
<1> SUFFICES ASSUME NEW s \in up' \cap Observed, NEW a \in Live(history), Reopens(s, a)
             PROVE  Excused(s, a)
  BY DEF Unheard
<1>1. s \in Sockets /\ a \in Attempts
  BY SwitchesAssumption DEF Live, Retained
<1> QED
  BY <1>1, SendReopens DEF Reopens

(* Progress of an attempt without a terminal reopens nothing.                  *)
LEMMA OpenUnheard ==
    ASSUME ServiceInv, NEW subs, NEW b, b \notin Live(history), Send(subs, b, "live")
    PROVE  Unheard
<1> SUFFICES ASSUME NEW s \in up' \cap Observed, NEW a \in Live(history), Reopens(s, a)
             PROVE  Excused(s, a)
  BY DEF Unheard
<1>1. s \in Sockets /\ a \in Attempts /\ TypeOK
  BY SwitchesAssumption, SlotUndecided DEF Live, Retained
<1> QED
  BY <1>1, SendReopens

LEMMA PruneIsLive ==
    ASSUME ServiceInv
    PROVE  TypeOK /\ history \in History /\ Retained(Prune(history)) = Live(history)
BY PruneSound, SlotUndecided DEF ServiceInv, LifecycleInv

LEMMA TaskUnheard ==
    ASSUME ServiceInv, NEW t \in Tasks, Admission(t) \/ Work(t) \/ PublishAcquiring(t)
    PROVE  Unheard
<1>t. TypeOK /\ history \in History /\ Retained(Prune(history)) = Live(history)
  BY PruneIsLive
<1>1. CASE \/ ReplayTerminal(t) \/ WaitForCleanup(t) \/ JoinPending(t)
           \/ WaitForPending(t) \/ Retry(t) \/ Displace(t) \/ AnnounceDisplaced(t)
           \/ JoinPrior(t) \/ JoinTimeout(t) \/ JoinedCleanup(t) \/ AbandonAdmission(t)
           \/ StartFails(t) \/ AcquisitionEnds(t) \/ GenerationEnds(t)
           \/ WorkerJoined(t) \/ Complete(t) \/ End(t)
  BY <1>t, <1>1, EndedUnheard DEF ReplayTerminal, WaitForCleanup, JoinPending,
     WaitForPending, Retry, Displace, AnnounceDisplaced, JoinPrior, JoinTimeout,
     JoinedCleanup, AbandonAdmission, StartFails, AcquisitionEnds, GenerationEnds,
     WorkerJoined, Complete, End, PublishTo
<1>2. CASE AdmitFree(t) \/ Admit(t)
  <2>1. \E p, h : CommitAdmission(t, p, h)
    BY <1>2 DEF AdmitFree, Admit
  <2>2. UNCHANGED seen \/ \E subs, b : Send(subs, b, "ended")
    BY <2>1 DEF CommitAdmission, PublishTo, Silent
  <2> QED
    BY <1>t, <2>2, EndedUnheard
<1>3. CASE JoinActive(t)
  BY <1>t, <1>3, OpenUnheard DEF JoinActive
<1>4. CASE ResolveJoined(t)
  <2>1. \/ UNCHANGED seen
        \/ Send({sock[t]}, aid[t], "ended")
        \/ aid[t] \notin Live(history) /\ Send({sock[t]}, aid[t], "live")
    BY <1>t, <1>4 DEF ResolveJoined, Silent
  <2> QED
    BY <1>t, <2>1, EndedUnheard, OpenUnheard
<1>5. CASE SendLatest(t) \/ BeginAcquiring(t)
  <2>1. /\ Send({sock[t]}, aid[t], "live")
        /\ pc[t] \in {"start", "replay"} /\ pc'[t] \in {"acquire", "end", "done"}
    BY <1>t, <1>5 DEF SendLatest, BeginAcquiring, Goto, TypeOK
  <2> SUFFICES ASSUME NEW s \in up' \cap Observed, NEW a \in Live(history), Reopens(s, a)
               PROVE  Excused(s, a)
    BY DEF Unheard
  <2>2. s \in Sockets /\ a \in Attempts
    BY SwitchesAssumption DEF Live, Retained
  <2>3. s = sock[t] /\ a = aid[t]
    BY <1>t, <2>1, <2>2, SendReopens
  <2> QED
    BY <2>1, <2>3 DEF Excused
<1>6. CASE PublishAcquiring(t) \/ Released(t)
  <2>1. PublishObservation(t) \/ UNCHANGED seen
    BY <1>6 DEF PublishAcquiring, Released
  <2>2. CASE UNCHANGED seen
    BY <1>t, <2>2, EndedUnheard
  <2>3. CASE PublishObservation(t) /\ ~UNCHANGED seen
    <3>1. IsCurrent(t) /\ Send(active.subs, aid[t], "live")
      BY <2>3 DEF PublishObservation, PublishTo
    <3>2. aid[t] = active.id /\ active # None
      BY <3>1 DEF IsCurrent, ServiceInv, SlotKnows, Knows
    <3>3. aid[t] \notin Live(history)
      BY <3>2, SlotUndecided DEF Live
    <3> QED
      BY <3>1, <3>3, OpenUnheard
  <2> QED
    BY <2>1, <2>2, <2>3
<1> QED
  BY <1>1, <1>2, <1>3, <1>4, <1>5, <1>6 DEF Admission, Work

LEMMA SessionUnheard ==
    ASSUME ServiceInv, NEW s \in Sockets,
           Progress(s) \/ Disconnect(s) \/ PeerLost(s) \/ BeginClose(s)
    PROVE  Unheard
<1>t. TypeOK /\ history \in History /\ Retained(Prune(history)) = Live(history)
  BY PruneIsLive
<1>1. CASE \/ JoinOrRejectAgain(s) \/ PublishCanceled(s) \/ EndAdjust(s) \/ Disconnect(s)
           \/ BeginClose(s)
  <2>1. UNCHANGED seen \/ \E subs, b : Send(subs, b, "ended")
    BY <1>1 DEF JoinOrRejectAgain, PublishCanceled, EndAdjust, Disconnect, BeginClose,
       Detach, FenceOwned, FenceJoined, FenceNotify, AbortDisconnect, FenceDone,
       RevokeOwned, PublishTo
  <2> QED
    BY <1>t, <2>1, EndedUnheard
<1>2. CASE JoinOrReject(s)
  <2>1. \/ UNCHANGED seen
        \/ Send({s}, session[s].id, "ended")
        \/ session[s].id \notin Live(history) /\ Send({s}, session[s].id, "live")
    BY <1>t, <1>2 DEF JoinOrReject
  <2> QED
    BY <1>t, <2>1, EndedUnheard, OpenUnheard
<1>3. CASE ReplayLatest(s)
  <2>1. Send({s}, session[s].id, "live") /\ session[s].op = "replay"
    BY <1>3 DEF ReplayLatest
  <2> SUFFICES ASSUME NEW r \in up' \cap Observed, NEW a \in Live(history), Reopens(r, a)
               PROVE  Excused(r, a)
    BY DEF Unheard
  <2>2. r \in Sockets /\ a \in Attempts
    BY SwitchesAssumption DEF Live, Retained
  <2>3. r = s /\ a = session[s].id
    BY <1>t, <2>1, <2>2, SendReopens
  <2> QED
    BY <2>1, <2>3 DEF Excused
<1>4. CASE PeerLost(s)
  <2> SUFFICES ASSUME NEW r \in up' \cap Observed, NEW a \in Live(history), Reopens(r, a)
               PROVE  FALSE
    BY DEF Unheard
  <2>1. r \in Sockets /\ r # s
    BY <1>4, SwitchesAssumption DEF PeerLost
  <2>2. seen'[r] = seen[r]
    BY <1>t, <1>4, <2>1 DEF PeerLost, TypeOK
  <2> QED
    BY <2>2 DEF Reopens
<1> QED
  BY <1>1, <1>2, <1>3, <1>4 DEF Progress

LEMMA UnheardLemma == ServiceInv /\ [Next]_vars => Unheard
<1> SUFFICES ASSUME ServiceInv, [Next]_vars PROVE Unheard
  OBVIOUS
<1>1. CASE \/ \E s \in Sockets, a \in Attempts : Message(s, a)
           \/ \E s \in Sockets : PublicationEnds(s)
           \/ \E a \in Attempts : TerminalExpires(a) \/ MediaExpires(a)
           \/ CleanupFinishes \/ BeginShutdown \/ EndShutdown \/ Terminated
           \/ UNCHANGED vars
  <2>1. UNCHANGED seen
    BY <1>1 DEF PublicationEnds, Message, Start, Backpressure, CancelAttempt, LeaveRoute, BeginAdjust,
       TerminalExpires, MediaExpires, CleanupFinishes, BeginShutdown, EndShutdown,
       Terminated
  <2> QED
    BY <2>1, PruneIsLive, EndedUnheard
<1> QED
  BY <1>1, TaskUnheard, SessionUnheard DEF Next

(* After the verdict of an attempt no peer hears of its progress, except for   *)
(* the answer that was on its way: accepted to the owner of a start, or the    *)
(* replay to one that has just asked (run of TryOnAttemptRuntime; the gate of  *)
(* publish_nonterminal, whose message _publish_try_on_transition sends).       *)
THEOREM ProgressPrecedesTerminalHolds == Spec => ProgressPrecedesTerminal
<1>1. ServiceInv /\ [Next]_vars =>
        [\A s \in up' \cap Observed, a \in Retained(history) \ Expired(history) :
            (seen[s][a] = "ended" /\ seen'[s][a] = "live") =>
               \/ session[s].op = "replay" /\ session[s].id = a
               \/ \E t \in Tasks : /\ sock[t] = s /\ aid[t] = a
                                    /\ pc[t] \in {"start", "replay"} /\ pc'[t] # pc[t]]_vars
  BY UnheardLemma DEF Unheard, Live, Reopens, Excused
<1> QED
  BY <1>1, ServiceInit, ServiceNext, PTL DEF Spec, ProgressPrecedesTerminal


-----------------------------------------------------------------------------
(* Joiners.                                                                    *)
(*                                                                             *)
(* A duplicate start that joins a pending admission sleeps until the admission *)
(* is over and then looks for a terminal or for the live attempt.  The         *)
(* invariant says that at every moment one of the three is there for it: the   *)
(* reservation becomes the live attempt or leaves a terminal, and the live     *)
(* attempt leaves a terminal.  This is where the history must have a place for *)
(* every attempt (Fits), for a terminal evicted while the duplicate is on its  *)
(* way would leave it with nothing.                                            *)

JoinersWait ==
    \A t \in Tasks : pc[t] = "joined" =>
        \/ aid[t] \in Live(history)
        \/ IsActive(aid[t])
        \/ IsPending(aid[t]) /\ pending.task = on[t]

(* The done event of an admission is set when it is over and not before.       *)
PendingOpen ==
    /\ pending # None => pending.task \notin pendingDone
    /\ shutdown.at = "up" => \A t \in pendingDone : pc[t] \in PastAdmission

JoinInv == ServiceInv /\ JoinersWait /\ PendingOpen /\ JoinersResolve

(* Who joins, and who finds nothing.                                           *)
JoinMoves ==
    \A t \in Tasks :
        /\ pc'[t] = "joined" =>
              \/ pc[t] = "joined" /\ on'[t] = on[t]
              \/ /\ pc[t] = "prepare" /\ IsPending(aid[t])
                 /\ Same(pending, pending') /\ on'[t] = pending.task
        /\ pc'[t] = "lost" =>
              \/ pc[t] = "lost"
              \/ /\ pc[t] = "joined" /\ on[t] \in pendingDone
                 /\ aid[t] \notin Live(history) /\ ~IsActive(aid[t])

DoneMoves ==
    /\ shutdown'.at = "up" => shutdown.at = "up"
    /\ \/ UNCHANGED pendingDone
       \/ pending' = None /\ shutdown'.at # "up"
       \/ /\ pending' = None
          /\ \E t \in Tasks : pendingDone' = pendingDone \cup {t} /\ pc'[t] \in PastAdmission

LEMMA GotoJoins ==
    ASSUME TypeOK, NEW t \in Tasks, NEW label, Goto(t, label),
           label \notin {"joined", "lost"},
           UNCHANGED on \/ \E u : on' = [on EXCEPT ![t] = u]
    PROVE  JoinMoves
BY DEF TypeOK, Goto, JoinMoves

LEMMA StillJoins ==
    ASSUME UNCHANGED <<pc, on>>
    PROVE  JoinMoves
BY DEF JoinMoves

LEMMA CommitJoins ==
    ASSUME TypeOK, NEW t \in Tasks, NEW p, NEW h, CommitAdmission(t, p, h)
    PROVE  JoinMoves /\ DoneMoves
<1>1. PICK label \in {"done", "start"} : WaitFor(t, label, None)
  BY DEF CommitAdmission
<1>2. JoinMoves
  BY <1>1, GotoJoins DEF WaitFor
<1>3. pc'[t] \in PastAdmission
  BY <1>1 DEF WaitFor, Goto, TypeOK, PastAdmission, WorkPCs
<1>4. pending' = None /\ pendingDone' = pendingDone \cup {t} /\ UNCHANGED shutdown
  BY DEF CommitAdmission, PublishTo, Detached
<1> QED
  BY <1>2, <1>3, <1>4 DEF DoneMoves

LEMMA TaskJoins ==
    ASSUME ServiceInv, NEW t \in Tasks, Admission(t) \/ Work(t) \/ PublishAcquiring(t)
    PROVE  JoinMoves /\ DoneMoves
<1>t. /\ TypeOK /\ history \in History /\ Retained(Prune(history)) = Live(history)
      /\ pc[t] # "idle" => sock[t] \in Sockets
  BY PruneIsLive DEF ServiceInv, LifecycleInv, Inductive, SlotInv, TasksKnowTheirStart
<1>1. CASE AdmitFree(t) \/ Admit(t)
  BY <1>t, <1>1, CommitJoins DEF AdmitFree, Admit
<1>2. CASE ~(AdmitFree(t) \/ Admit(t))
  <2>1. UNCHANGED <<pendingDone, shutdown>>
    BY <1>2 DEF Admission, Work, PublishAcquiring, ReplayTerminal, JoinActive, SendLatest,
       WaitForCleanup, JoinPending, WaitForPending, Retry, ResolveJoined, Displace,
       AnnounceDisplaced, JoinPrior, JoinTimeout, JoinedCleanup, AbandonAdmission,
       BeginAcquiring, StartFails, AcquisitionEnds, Released, GenerationEnds,
       WorkerJoined, Complete, End
  <2>2. DoneMoves
    BY <2>1 DEF DoneMoves
  <2>3. CASE PublishAcquiring(t)
    BY <2>2, <2>3, StillJoins DEF PublishAcquiring
  <2>4. CASE JoinPending(t)
    <3>1. /\ pending \in PendingAdmission /\ IsPending(aid[t]) /\ pc[t] = "prepare"
          /\ pending' \in Attached(pending, sock[t])
          /\ pc' = [pc EXCEPT ![t] = "joined"] /\ on' = [on EXCEPT ![t] = pending.task]
      BY <1>t, <2>4 DEF JoinPending, Unresolved, IsPending, TypeOK, WaitFor, Goto
    <3>2. Same(pending, pending')
      BY <1>t, <3>1, AttachedLemma, NoneApart DEF Same
    <3> QED
      BY <1>t, <2>2, <3>1, <3>2 DEF JoinMoves, TypeOK
  <2>5. CASE ResolveJoined(t)
    <3>1. PICK label \in {"done", "replay", "lost"} : WaitFor(t, label, None)
      BY <2>5 DEF ResolveJoined
    <3>2. CASE label # "lost"
      BY <1>t, <2>2, <3>1, <3>2, GotoJoins DEF WaitFor
    <3>3. CASE label = "lost"
      <4>1. pc'[t] = "lost"
        BY <1>t, <3>1, <3>3 DEF WaitFor, Goto, TypeOK
      <4>2. /\ pc[t] = "joined" /\ on[t] \in pendingDone
            /\ aid[t] \notin Live(history) /\ ~IsActive(aid[t])
        BY <1>t, <2>5, <4>1 DEF ResolveJoined, WaitFor, Goto, TypeOK
      <4> QED
        BY <1>t, <2>2, <3>1, <3>3, <4>2 DEF WaitFor, Goto, TypeOK, JoinMoves
    <3> QED
      BY <3>2, <3>3
  <2>6. CASE ~(PublishAcquiring(t) \/ JoinPending(t) \/ ResolveJoined(t))
    <3>1. /\ \E label : Goto(t, label) /\ label \notin {"joined", "lost"}
          /\ UNCHANGED on \/ \E u : on' = [on EXCEPT ![t] = u]
      BY <1>2, <2>6 DEF Admission, Work, ReplayTerminal, JoinActive, SendLatest,
         WaitForCleanup, WaitForPending, Retry, Displace, AnnounceDisplaced, JoinPrior,
         JoinTimeout, JoinedCleanup, AbandonAdmission, BeginAcquiring, StartFails,
         AcquisitionEnds, Released, GenerationEnds, WorkerJoined, Complete, End, WaitFor
    <3> QED
      BY <1>t, <2>2, <3>1, GotoJoins
  <2> QED
    BY <2>3, <2>4, <2>5, <2>6
<1> QED
  BY <1>1, <1>2

LEMMA OthersJoin ==
    ASSUME ServiceInv,
           \/ \E s \in Sockets : \/ Progress(s) \/ Disconnect(s) \/ PeerLost(s)
                                \/ BeginClose(s) \/ PublicationEnds(s)
           \/ \E s \in Sockets, a \in Attempts : Message(s, a)
           \/ \E a \in Attempts : TerminalExpires(a) \/ MediaExpires(a)
           \/ CleanupFinishes \/ BeginShutdown \/ EndShutdown \/ Terminated
           \/ UNCHANGED vars
    PROVE  JoinMoves /\ DoneMoves
<1>t. TypeOK
  BY SlotUndecided
<1>1. CASE \E s \in Sockets, a \in Attempts, t \in Tasks : Start(s, t, a)
  <2>1. PICK t \in Tasks : Goto(t, "prepare") /\ UNCHANGED <<on, pendingDone, shutdown>>
    BY <1>1 DEF Start
  <2> QED
    BY <1>t, <2>1, GotoJoins DEF DoneMoves
<1>2. CASE BeginShutdown
  <2>1. UNCHANGED <<pc, on>> /\ shutdown'.at = "draining"
    BY <1>2 DEF BeginShutdown
  <2>2. UNCHANGED pendingDone \/ pending' = None
    BY <1>2 DEF BeginShutdown
  <2> QED
    BY <2>1, <2>2, StillJoins DEF DoneMoves
<1>3. CASE EndShutdown
  BY <1>3, StillJoins DEF EndShutdown, DoneMoves
<1>4. CASE \/ \E s \in Sockets :
                \/ Progress(s) \/ Disconnect(s) \/ PeerLost(s) \/ BeginClose(s)
                \/ PublicationEnds(s)
           \/ \E s \in Sockets, a \in Attempts :
                Backpressure(s, a) \/ CancelAttempt(s, a) \/ LeaveRoute(s, a) \/ BeginAdjust(s, a)
           \/ \E a \in Attempts : TerminalExpires(a) \/ MediaExpires(a)
           \/ CleanupFinishes \/ Terminated \/ UNCHANGED vars
  <2>1. UNCHANGED <<pc, on, pendingDone, shutdown>>
    BY <1>4, ZenonT(60) DEF PublicationEnds, Progress, Disconnect, PeerLost, BeginClose, JoinOrReject,
       JoinOrRejectAgain, ReplayLatest, PublishCanceled, EndAdjust, Detach, FenceOwned,
       FenceActive, FenceJoined, FenceNotify, AbortDisconnect, FenceDone, RevokeOwned,
       Backpressure, CancelAttempt, LeaveRoute, BeginAdjust, TerminalExpires,
       MediaExpires, CleanupFinishes, FinishCleanup, Terminated
  <2> QED
    BY <2>1, StillJoins DEF DoneMoves
<1> QED
  BY <1>1, <1>2, <1>3, <1>4 DEF Message

LEMMA JoinMovesLemma == ServiceInv /\ [Next]_vars => JoinMoves /\ DoneMoves
BY TaskJoins, OthersJoin DEF Next

LEMMA JoinInit == Init => JoinInv
BY ServiceInit DEF Init, JoinInv, JoinersWait, PendingOpen, JoinersResolve

LEMMA JoinNext ==
    ASSUME Fits, JoinInv, [Next]_vars
    PROVE  JoinInv'
<1>1. /\ ServiceInv /\ ServiceInv' /\ HistoryStep /\ StepMoves /\ JoinMoves /\ DoneMoves
      /\ TypeOK /\ TypeOK'
  <2>1. ServiceInv /\ ServiceInv'
    BY ServiceNext DEF JoinInv
  <2> QED
    BY <2>1, HistoryStepLemma, StepMovesLemma, JoinMovesLemma, SlotUndecided
       DEF ServiceInv, LifecycleInv, Inductive
<1>2. JoinersResolve'
  <2> SUFFICES ASSUME NEW t \in Tasks, pc'[t] = "lost" PROVE FALSE
    BY DEF JoinersResolve
  <2>1. /\ pc[t] = "joined" /\ on[t] \in pendingDone
        /\ aid[t] \notin Live(history) /\ ~IsActive(aid[t])
    BY <1>1 DEF JoinMoves, JoinInv, JoinersResolve
  <2>2. IsPending(aid[t]) /\ pending.task = on[t]
    BY <2>1 DEF JoinInv, JoinersWait
  <2> QED
    BY <2>1, <2>2 DEF IsPending, JoinInv, PendingOpen
<1>3. PendingOpen'
  <2>1. ASSUME pending' # None
        PROVE  pending'.task \notin pendingDone'
    <3>1. UNCHANGED pendingDone
      BY <1>1, <2>1 DEF DoneMoves
    <3>2. CASE UNCHANGED pending \/ Same(pending, pending')
      BY <2>1, <3>1, <3>2 DEF Same, JoinInv, PendingOpen
    <3>3. CASE \E t \in Tasks : Reserves(t)
      <4>1. PICK t \in Tasks : active # None /\ pending'.task = t /\ pc[t] = "prepare"
        BY <3>3 DEF Reserves
      <4>2. shutdown.at = "up"
        BY <1>1, <4>1 DEF ServiceInv, LifecycleInv, Inductive, SlotInv, SlotEmptied
      <4> QED
        BY <3>1, <4>1, <4>2 DEF JoinInv, PendingOpen, PastAdmission, WorkPCs
    <3> QED
      BY <1>1, <2>1, <3>2, <3>3 DEF StepMoves, PendingMoves
  <2>2. ASSUME shutdown'.at = "up", NEW t \in pendingDone'
        PROVE  pc'[t] \in PastAdmission
    <3>1. t \in Tasks /\ shutdown.at = "up"
      BY <1>1, <2>2 DEF DoneMoves, TypeOK
    <3>2. t \in pendingDone => pc'[t] \in PastAdmission
      BY <1>1, <3>1 DEF JoinInv, PendingOpen, StepMoves, TasksMove
    <3> QED
      BY <1>1, <2>2, <3>2 DEF DoneMoves
  <2> QED
    BY <2>1, <2>2 DEF PendingOpen
<1>4. JoinersWait'
  <2> SUFFICES ASSUME NEW t \in Tasks, pc'[t] = "joined"
               PROVE  \/ aid'[t] \in Live(history')
                      \/ active' # None /\ active'.id = aid'[t]
                      \/ pending' # None /\ pending'.id = aid'[t] /\ pending'.task = on'[t]
    BY DEF JoinersWait, IsPending, IsActive, Live, Retained, Expired
  <2>1. aid'[t] = aid[t]
    BY <1>1 DEF JoinMoves, StepMoves, TasksMove
  <2>2. CASE /\ pc[t] = "prepare" /\ IsPending(aid[t])
             /\ Same(pending, pending') /\ on'[t] = pending.task
    BY <2>1, <2>2 DEF Same, IsPending
  <2>3. CASE pc[t] = "joined" /\ on'[t] = on[t]
    <3>1. CASE aid[t] \in Live(history)
      <4>1. ~TerminalExpires(aid[t])
        BY <2>3 DEF TerminalExpires
      <4> QED
        BY <1>1, <2>1, <3>1, <4>1, LiveStays
    <3>2. CASE IsActive(aid[t])
      <4>1. active # None /\ active.id = aid[t]
        BY <3>2 DEF IsActive
      <4> QED
        BY <1>1, <2>1, <4>1 DEF StepMoves, ActiveMoves, Same, Begins
    <3>3. CASE IsPending(aid[t]) /\ pending.task = on[t]
      <4>1. pending # None /\ pending.id = aid[t] /\ pending.task = on[t]
        BY <3>3 DEF IsPending
      <4> QED
        BY <1>1, <2>1, <2>3, <4>1 DEF StepMoves, PendingMoves, Same, Reserves
    <3> QED
      BY <2>3, <3>1, <3>2, <3>3 DEF JoinInv, JoinersWait
  <2> QED
    BY <1>1, <2>2, <2>3 DEF JoinMoves
<1> QED
  BY <1>1, <1>2, <1>3, <1>4 DEF JoinInv

(* No duplicate start dies on "pending Try-On admission resolved without       *)
(* state", as long as the history has a place for every attempt, whatever      *)
(* becomes of the admission it joined (commit_prepared_admission).             *)
THEOREM JoinersResolveHolds ==
    ASSUME Fits
    PROVE  Spec => []JoinersResolve
<1>1. JoinInv /\ [Next]_vars => JoinInv'
  BY JoinNext
<1>2. JoinInv => JoinersResolve
  BY DEF JoinInv
<1> QED
  BY <1>1, <1>2, JoinInit, PTL DEF Spec


-----------------------------------------------------------------------------
(* Media.                                                                      *)
(*                                                                             *)
(* A captured frame belongs to the task that still generates from it or that   *)
(* has completed with it; a snapshot to one that has completed.  As above, the *)
(* history must keep the verdict of the attempt for as long as its media stay, *)
(* so this is about a time in which nothing expires and nothing is evicted.    *)

Roomy == Fits /\ Expiring = {}

Generating == {"generate", "stop", "end"}

CompletedBy(t) ==
    /\ pc[t] = "done" /\ aid[t] \in Live(history)
    /\ history.term[aid[t]].kind = "completed" /\ history.term[aid[t]].owner = sock[t]

MediaInv ==
    \A a \in Attempts, t \in Tasks :
        /\ captured[a] = t => aid[t] = a /\ (pc[t] \in Generating \/ CompletedBy(t))
        /\ snapshot[a] = t => aid[t] = a /\ CompletedBy(t)

(* Task t completes its attempt in this step, and its result is granted.       *)
Completes(t) ==
    /\ pc[t] = "generate" /\ pc'[t] = "done"
    /\ aid[t] \in Live(history') /\ history'.term[aid[t]] = Terminal("completed", sock[t])

MediaMoves ==
    \A t \in Tasks :
        /\ pc[t] = "done" => pc'[t] = "done"
        /\ pc[t] \in Generating =>
              \/ pc'[t] \in Generating \/ Completes(t)
              \/ pc'[t] = "done" /\ captured'[aid[t]] # t
        /\ \A a \in Attempts :
              /\ captured'[a] = t =>
                    captured[a] = t \/ (a = aid[t] /\ pc[t] = "release" /\ pc'[t] = "generate")
              /\ snapshot'[a] = t => snapshot[a] = t \/ (a = aid[t] /\ Completes(t))

(* The media stay where they are, but for those that go.                       *)
MediaGo ==
    \A a \in Attempts :
        captured'[a] \in {captured[a], None} /\ snapshot'[a] \in {snapshot[a], None}

LEMMA RevokeMediaGo ==
    ASSUME TypeOK, NEW ids, RevokeMedia(ids)
    PROVE  MediaGo /\ \A a \in ids \cap Attempts : captured'[a] = None /\ snapshot'[a] = None
BY DEF TypeOK, RevokeMedia, Revoked, MediaGo

LEMMA SameMediaGo ==
    ASSUME UNCHANGED <<captured, snapshot>>
    PROVE  MediaGo
BY DEF MediaGo

LEMMA MediaMovesOn ==
    ASSUME TypeOK, NEW t \in Tasks, NEW label, Goto(t, label), MediaGo,
           \/ pc[t] \notin Generating \cup {"done"}
           \/ pc[t] \in Generating /\ label \in Generating
           \/ pc[t] \in Generating /\ label = "done" /\ captured'[aid[t]] # t
    PROVE  MediaMoves
<1>1. \A u \in Tasks : u # None
  BY NoneApart
<1>2. \A u \in Tasks \ {t} : pc'[u] = pc[u]
  BY DEF TypeOK, Goto
<1>3. pc'[t] = label
  BY DEF TypeOK, Goto
<1>4. \A u \in Tasks, a \in Attempts :
        /\ captured'[a] = u => captured[a] = u
        /\ snapshot'[a] = u => snapshot[a] = u
  BY <1>1 DEF MediaGo
<1> QED
  BY <1>2, <1>3, <1>4 DEF MediaMoves, Generating

LEMMA MediaStay ==
    ASSUME UNCHANGED pc, MediaGo
    PROVE  MediaMoves
<1>1. \A u \in Tasks : u # None
  BY NoneApart
<1> QED
  BY <1>1 DEF MediaMoves, MediaGo, Generating

LEMMA CompleteMedia ==
    ASSUME ServiceInv, NEW t \in Tasks, Complete(t)
    PROVE  Completes(t) /\ MediaMoves
<1>t. TypeOK
  BY SlotUndecided
<1>1. /\ active # None /\ active.id = aid[t] /\ active.owner = sock[t]
      /\ active.id \in Attempts \ Retained(history) /\ active.owner \in Sockets
      /\ history \in History
  BY SlotUndecided DEF Complete, IsCurrent, ServiceInv, SlotKnows, Knows
<1>2. history' = Concluded(history, aid[t], "completed", sock[t])
  BY <1>1 DEF Complete, Conclude
<1>3. aid[t] \in Live(history')
  BY <1>1, <1>2, ConcludedIsLive DEF Kinds
<1>4. history'.term[aid[t]] = Terminal("completed", sock[t])
  BY <1>1, <1>2, <1>3, ConcludedTerms DEF Kinds, Live
<1>5. pc[t] = "generate" /\ pc' = [pc EXCEPT ![t] = "done"]
  BY DEF Complete, Goto
<1>6. Completes(t)
  BY <1>t, <1>3, <1>4, <1>5 DEF Completes, TypeOK
<1>7. UNCHANGED captured /\ snapshot' = [snapshot EXCEPT ![aid[t]] = t]
  BY DEF Complete
<1> QED
  BY <1>t, <1>5, <1>6, <1>7 DEF MediaMoves, TypeOK, Generating

LEMMA TaskMedia ==
    ASSUME ServiceInv, NEW t \in Tasks, Admission(t) \/ Work(t) \/ PublishAcquiring(t)
    PROVE  MediaMoves
<1>t. TypeOK /\ (pc[t] # "idle" => sock[t] \in Sockets /\ aid[t] \in Attempts)
  BY SlotUndecided DEF ServiceInv, LifecycleInv, Inductive, SlotInv, TasksKnowTheirStart
<1>1. CASE PublishAcquiring(t)
  BY <1>1, MediaStay, SameMediaGo DEF PublishAcquiring
<1>2. CASE Complete(t)
  BY <1>2, CompleteMedia
<1>3. CASE End(t)
  <2>1. /\ pc[t] = "end" /\ Goto(t, "done") /\ RevokeMedia({aid[t]})
    BY <1>3 DEF End
  <2>2. MediaGo /\ captured'[aid[t]] # t
    BY <1>t, <2>1, RevokeMediaGo, NoneApart
  <2> QED
    BY <1>t, <2>1, <2>2, MediaMovesOn DEF Generating
<1>4. CASE Displace(t)
  <2>1. pc[t] = "prepare" /\ Goto(t, "displacing") /\ RevokeMedia({active.id})
    BY <1>4 DEF Displace, Unresolved, WaitFor
  <2> QED
    BY <1>t, <2>1, RevokeMediaGo, MediaMovesOn DEF Generating
<1>5. CASE Released(t)
  <2>1. CASE UNCHANGED captured
    <3>1. /\ pc[t] = "release" /\ MediaGo
          /\ Goto(t, "generate") \/ Goto(t, "end")
      BY <1>5, <2>1, SameMediaGo DEF Released
    <3> QED
      BY <1>t, <3>1, MediaMovesOn DEF Generating
  <2>2. CASE ~UNCHANGED captured
    <3>1. /\ captured' = [captured EXCEPT ![aid[t]] = t] /\ UNCHANGED snapshot
          /\ pc[t] = "release" /\ pc' = [pc EXCEPT ![t] = "generate"]
      BY <1>5, <2>2 DEF Released, Goto
    <3> QED
      BY <1>t, <3>1 DEF TypeOK, MediaMoves, Generating
  <2> QED
    BY <2>1, <2>2
<1>6. CASE GenerationEnds(t) \/ WorkerJoined(t)
  <2>1. /\ pc[t] \in Generating /\ MediaGo
        /\ Goto(t, "stop") \/ Goto(t, "end")
    BY <1>6, SameMediaGo DEF GenerationEnds, WorkerJoined, Generating
  <2> QED
    BY <1>t, <2>1, MediaMovesOn DEF Generating
<1>7. CASE AdmitFree(t) \/ Admit(t)
  <2>1. /\ pc[t] \in {"prepare", "admit"} /\ UNCHANGED <<captured, snapshot>>
        /\ \E label : Goto(t, label)
    BY <1>7 DEF AdmitFree, Admit, Unresolved, CommitAdmission, WaitFor
  <2> QED
    BY <1>t, <2>1, SameMediaGo, MediaMovesOn DEF Generating
<1>8. CASE \/ ReplayTerminal(t) \/ JoinActive(t) \/ SendLatest(t)
           \/ WaitForCleanup(t) \/ JoinPending(t) \/ WaitForPending(t) \/ Retry(t)
           \/ ResolveJoined(t) \/ AnnounceDisplaced(t) \/ JoinPrior(t)
           \/ JoinTimeout(t) \/ JoinedCleanup(t) \/ AbandonAdmission(t)
           \/ BeginAcquiring(t) \/ StartFails(t) \/ AcquisitionEnds(t)
  <2>1. /\ pc[t] \notin Generating \cup {"done"} /\ UNCHANGED <<captured, snapshot>>
        /\ \E label : Goto(t, label)
    BY <1>8 DEF ReplayTerminal, JoinActive, SendLatest, WaitForCleanup, JoinPending,
       WaitForPending, Retry, ResolveJoined, AnnounceDisplaced, JoinPrior, JoinTimeout,
       JoinedCleanup, AbandonAdmission, BeginAcquiring, StartFails, AcquisitionEnds,
       Unresolved, WaitFor, Generating
  <2> QED
    BY <1>t, <2>1, SameMediaGo, MediaMovesOn
<1> QED
  BY <1>1, <1>2, <1>3, <1>4, <1>5, <1>6, <1>7, <1>8 DEF Admission, Work

LEMMA OthersMedia ==
    ASSUME ServiceInv,
           \/ \E s \in Sockets : \/ Progress(s) \/ Disconnect(s) \/ PeerLost(s)
                                \/ BeginClose(s) \/ PublicationEnds(s)
           \/ \E s \in Sockets, a \in Attempts : Message(s, a)
           \/ \E a \in Attempts : TerminalExpires(a) \/ MediaExpires(a)
           \/ CleanupFinishes \/ BeginShutdown \/ EndShutdown \/ Terminated
           \/ UNCHANGED vars
    PROVE  MediaMoves
<1>t. TypeOK
  BY SlotUndecided
<1>1. CASE \E s \in Sockets, a \in Attempts, t \in Tasks : Start(s, t, a)
  <2>1. PICK t \in Tasks :
          pc[t] = "idle" /\ Goto(t, "prepare") /\ UNCHANGED <<captured, snapshot>>
    BY <1>1 DEF Start
  <2> QED
    BY <1>t, <2>1, SameMediaGo, MediaMovesOn DEF Generating
<1>2. CASE BeginShutdown
  <2>1. /\ UNCHANGED <<pc, snapshot>> /\ captured' = [a \in Attempts |-> None]
    BY <1>2 DEF BeginShutdown
  <2> QED
    BY <2>1, MediaStay DEF MediaGo
<1>3. CASE \/ \E s \in Sockets : RevokeOwned(s)
           \/ \E s \in Sockets, a \in Attempts : CancelAttempt(s, a) \/ LeaveRoute(s, a)
           \/ \E a \in Attempts : MediaExpires(a)
  <2>1. UNCHANGED pc /\ \E ids : RevokeMedia(ids)
    BY <1>3 DEF RevokeOwned, CancelAttempt, LeaveRoute, MediaExpires
  <2> QED
    BY <1>t, <2>1, RevokeMediaGo, MediaStay
<1>4. CASE \/ \E s \in Sockets :
                \/ Progress(s) \/ PeerLost(s) \/ BeginClose(s) \/ PublicationEnds(s)
                \/ Disconnect(s) /\ ~RevokeOwned(s)
           \/ \E s \in Sockets, a \in Attempts : Backpressure(s, a) \/ BeginAdjust(s, a)
           \/ \E a \in Attempts : TerminalExpires(a)
           \/ CleanupFinishes \/ EndShutdown \/ Terminated \/ UNCHANGED vars
  <2>1. UNCHANGED <<pc, captured, snapshot>>
    BY <1>4 DEF Progress, Disconnect, PeerLost, BeginClose, PublicationEnds, JoinOrReject,
       JoinOrRejectAgain, ReplayLatest, PublishCanceled, EndAdjust, Detach, FenceOwned,
       FenceActive, FenceJoined, FenceNotify, AbortDisconnect, FenceDone,
       Backpressure, BeginAdjust, TerminalExpires, CleanupFinishes, FinishCleanup,
       EndShutdown, Terminated
  <2> QED
    BY <2>1, SameMediaGo, MediaStay
<1> QED
  BY <1>1, <1>2, <1>3, <1>4 DEF Message

LEMMA MediaMovesLemma == ServiceInv /\ [Next]_vars => MediaMoves
BY TaskMedia, OthersMedia DEF Next

(* In such a time a verdict stays.                                             *)
LEMMA VerdictStays ==
    ASSUME Roomy, ServiceInv, [Next]_vars, NEW b \in Live(history)
    PROVE  /\ b \in Live(history')
           /\ history'.term[b].kind = history.term[b].kind
           /\ history'.term[b].owner = history.term[b].owner
<1>1. b \in Attempts /\ ~TerminalExpires(b) /\ HistoryStep
  BY HistoryStepLemma DEF Roomy, TerminalExpires, Live, Retained
<1>2. b \in Live(history')
  BY <1>1, LiveStays DEF Roomy
<1>3. Gone(b) \/ Stands(b) \/ Decided(b) \/ Adjusted(b)
  BY <1>1, TermsMoveLemma DEF TermsMove
<1> QED
  BY <1>2, <1>3 DEF Gone, Stands, Decided, Adjusted, Live

LEMMA MediaNext ==
    ASSUME Roomy, ServiceInv, MediaInv, [Next]_vars
    PROVE  MediaInv'
<1>1. MediaMoves /\ TasksMove
  BY MediaMovesLemma, StepMovesLemma DEF StepMoves
<1>2. ASSUME NEW t \in Tasks, CompletedBy(t)
      PROVE  CompletedBy(t)' /\ aid'[t] = aid[t]
  <2>1. pc'[t] = "done" /\ aid'[t] = aid[t] /\ sock'[t] = sock[t]
    BY <1>1, <1>2 DEF CompletedBy, MediaMoves, TasksMove
  <2> QED
    BY <1>2, <2>1, VerdictStays DEF CompletedBy
<1>3. ASSUME NEW t \in Tasks, Completes(t)
      PROVE  CompletedBy(t)' /\ aid'[t] = aid[t]
  <2>1. aid'[t] = aid[t] /\ sock'[t] = sock[t]
    BY <1>1, <1>3 DEF Completes, TasksMove
  <2> QED
    BY <1>3, <2>1 DEF Completes, CompletedBy, Terminal
<1>4. ASSUME NEW a \in Attempts, NEW t \in Tasks, captured'[a] = t
      PROVE  aid'[t] = a /\ (pc'[t] \in Generating \/ CompletedBy(t)')
  <2>1. CASE captured[a] = t
    <3>1. aid[t] = a /\ (pc[t] \in Generating \/ CompletedBy(t))
      BY <2>1 DEF MediaInv
    <3>2. CASE pc[t] \in Generating
      <4>1. aid'[t] = a
        BY <1>1, <3>1, <3>2 DEF TasksMove, Generating
      <4> QED
        BY <1>1, <1>3, <1>4, <3>1, <3>2, <4>1 DEF MediaMoves
    <3> QED
      BY <1>2, <3>1, <3>2
  <2>2. CASE a = aid[t] /\ pc[t] = "release" /\ pc'[t] = "generate"
    BY <1>1, <2>2 DEF TasksMove, Generating
  <2> QED
    BY <1>1, <1>4, <2>1, <2>2 DEF MediaMoves
<1>5. ASSUME NEW a \in Attempts, NEW t \in Tasks, snapshot'[a] = t
      PROVE  aid'[t] = a /\ CompletedBy(t)'
  <2>1. CASE snapshot[a] = t
    BY <1>2, <2>1 DEF MediaInv
  <2> QED
    BY <1>1, <1>3, <1>5, <2>1 DEF MediaMoves
<1> QED
  BY <1>4, <1>5 DEF MediaInv, Generating

LEMMA MediaInit == Init => MediaInv
<1>1. \A t \in Tasks : t # None
  BY NoneApart
<1> QED
  BY <1>1 DEF Init, MediaInv

(* A task that is over has left a captured frame or an adjustment snapshot     *)
(* only for an attempt that completed, whoever displaced, cancelled or fenced  *)
(* it and wherever it was (run of TryOnAttemptRuntime; _AppAttemptMedia).      *)
THEOREM MediaOnlyOfCompletedHolds ==
    ASSUME Roomy
    PROVE  Spec => []MediaOnlyOfCompleted
<1>1. ServiceInv /\ MediaInv /\ [Next]_vars => ServiceInv' /\ MediaInv'
  BY MediaNext, ServiceNext
<1>2. MediaInv => MediaOnlyOfCompleted
  <2> SUFFICES ASSUME MediaInv, NEW a \in Attempts, NEW t \in Finished,
                      captured[a] = t \/ snapshot[a] = t
               PROVE  a \notin Retained(history) \/ Completed(history, a)
    BY DEF MediaOnlyOfCompleted
  <2>1. t \in Tasks /\ pc[t] \notin Generating
    BY DEF Finished, Generating
  <2>2. aid[t] = a /\ CompletedBy(t)
    BY <2>1 DEF MediaInv
  <2> QED
    BY <2>2 DEF CompletedBy, Completed
<1> QED
  BY <1>1, <1>2, ServiceInit, MediaInit, PTL DEF Spec


-----------------------------------------------------------------------------
(* Canonical terminals.                                                        *)
(*                                                                             *)
(* A verdict stands as long as it is retained, whatever the bounds.  A revoked *)
(* result stays revoked if nobody adjusts it while another revokes it: when    *)
(* there is one connection, or when each addresses its own attempts only, so   *)
(* that an adjustment and a revocation of one attempt are of one connection.   *)

(* What a connection may come to adjust, where a disconnect may have got to,   *)
(* and which tasks may come to run.                                            *)
Leaving == {"fence", "fenceJoin", "fenceNotify", "gather", "closed"}

AdjustMoves(s) ==
    session'[s].op = "adjust" =>
        \/ session'[s] = session[s]
        \/ /\ session'[s].id \in Attempts /\ snapshot[session'[s].id] # None
           /\ MayAddress(s, session'[s].id)
           /\ UNCHANGED <<history, snapshot>>

LeaveMoves(s) ==
    session'[s].op \in Leaving =>
        \/ session'[s] = session[s]
        \/ /\ session[s].op \in Leaving
           /\ session'[s].op \in {"gather", "closed"} => session'[s].todo = {}
           /\ \A r \in session[s].todo \ session'[s].todo :
                 session[s].op = "gather" \/ active' = None \/ active.task # r
        \/ session[s].op = "closing" /\ session'[s].todo = receipts[s] /\ session'[s].op = "fence"

SessionMoves ==
    \A s \in Sockets :
        /\ AdjustMoves(s) /\ LeaveMoves(s)
        /\ session'[s].op = "closed" => session[s].op = "closed" \/ RevokeOwned(s)

Ended == {"done", "unstarted", "lost"}

RunMoves ==
    \A t \in Tasks :
        /\ pc[t] \in Ended => pc'[t] \in Ended
        /\ pc[t] = "idle" =>
              \/ pc'[t] = "idle"
              \/ session[sock'[t]].op = "open" /\ UNCHANGED session

LEMMA StillSessions ==
    ASSUME UNCHANGED session
    PROVE  SessionMoves
BY DEF SessionMoves, AdjustMoves, LeaveMoves

LEMMA HandleSessions ==
    ASSUME TypeOK, NEW s \in Sockets, NEW handler, Handle(s, handler),
           /\ handler.op = "adjust" =>
                 /\ handler.id \in Attempts /\ snapshot[handler.id] # None
                 /\ MayAddress(s, handler.id) /\ UNCHANGED <<history, snapshot>>
           /\ handler.op \in Leaving =>
                 \/ /\ session[s].op \in Leaving
                    /\ handler.op \in {"gather", "closed"} => handler.todo = {}
                    /\ \A r \in session[s].todo \ handler.todo :
                          session[s].op = "gather" \/ active' = None \/ active.task # r
                 \/ session[s].op = "closing" /\ handler.todo = receipts[s] /\ handler.op = "fence"
           /\ handler.op = "closed" => RevokeOwned(s)
    PROVE  SessionMoves
<1>1. session'[s] = handler /\ \A r \in Sockets \ {s} : session'[r] = session[r]
  BY DEF TypeOK, Handle
<1>2. AdjustMoves(s) /\ LeaveMoves(s) /\ (session'[s].op = "closed" => RevokeOwned(s))
  BY <1>1 DEF AdjustMoves, LeaveMoves
<1> QED
  BY <1>1, <1>2 DEF SessionMoves, AdjustMoves, LeaveMoves

LEMMA HandlerOp ==
    ASSUME TypeOK, NEW s \in Sockets, NEW label
    PROVE  /\ Handling(s, label).op = label /\ Handling(s, label).todo = session[s].todo
           /\ [Idle EXCEPT !.op = label].op = label /\ [Idle EXCEPT !.op = label].todo = {}
           /\ Idle.op = "open"
BY DEF TypeOK, Session, Handling, Idle

LEMMA LoopSessions ==
    ASSUME ServiceInv, NEW s \in Sockets,
           Progress(s) \/ Disconnect(s) \/ PeerLost(s) \/ BeginClose(s)
    PROVE  SessionMoves
<1>t. TypeOK
  BY SlotUndecided
<1> USE DEF Leaving
<1>0. ASSUME NEW handler, Handle(s, handler), handler.op \notin Leaving \cup {"adjust"}
      PROVE  SessionMoves
  BY <1>t, <1>0, HandleSessions
<1>1. CASE \/ ReplayLatest(s) \/ PublishCanceled(s) \/ EndAdjust(s) \/ BeginClose(s)
           \/ AbortDisconnect(s) \/ JoinOrRejectAgain(s)
  <2>1. \/ Handle(s, Idle) \/ \E label \in {"closing", "aborted"} :
                                Handle(s, [Idle EXCEPT !.op = label])
        \/ Handle(s, [Handling(s, "reject") EXCEPT !.on = None])
    BY <1>1 DEF ReplayLatest, PublishCanceled, EndAdjust, BeginClose, AbortDisconnect,
       JoinOrRejectAgain
  <2>2. CASE Handle(s, Idle)
    BY <1>t, <1>0, <2>2, HandlerOp
  <2>3. ASSUME NEW label \in {"closing", "aborted"}, Handle(s, [Idle EXCEPT !.op = label])
        PROVE  SessionMoves
    BY <1>t, <1>0, <2>3, HandlerOp
  <2>4. CASE Handle(s, [Handling(s, "reject") EXCEPT !.on = None])
    <3>1. [Handling(s, "reject") EXCEPT !.on = None].op = "reject"
      BY <1>t DEF Handling, TypeOK, Session
    <3> QED
      BY <1>0, <2>4, <3>1
  <2> QED
    BY <2>1, <2>2, <2>3, <2>4
<1>7. CASE JoinOrReject(s)
  <2>1. \/ Handle(s, Idle) \/ Handle(s, Handling(s, "replay"))
        \/ \E label \in {"awaitPending", "awaitCleanup"} : \E u :
                Handle(s, [Handling(s, label) EXCEPT !.on = u])
    BY <1>7 DEF JoinOrReject
  <2>2. CASE Handle(s, Idle)
    BY <1>t, <1>0, <2>2, HandlerOp
  <2>3. CASE Handle(s, Handling(s, "replay"))
    BY <1>t, <1>0, <2>3, HandlerOp
  <2>4. ASSUME NEW label \in {"awaitPending", "awaitCleanup"}, NEW u,
               Handle(s, [Handling(s, label) EXCEPT !.on = u])
        PROVE  SessionMoves
    <3>1. [Handling(s, label) EXCEPT !.on = u].op = label
      BY <1>t DEF Handling, TypeOK, Session
    <3> QED
      BY <1>0, <2>4, <3>1
  <2> QED
    BY <2>1, <2>2, <2>3, <2>4
<1>2. CASE Detach(s)
  <2> DEFINE handler == [Idle EXCEPT !.op = "fence", !.todo = receipts[s]]
  <2>1. /\ Handle(s, handler) /\ session[s].op = "closing"
        /\ handler.op = "fence" /\ handler.todo = receipts[s]
    BY <1>t, <1>2, HandlerOp DEF Detach
  <2> HIDE DEF handler
  <2> QED
    BY <1>t, <2>1, HandleSessions
<1>3. ASSUME NEW r \in Tasks, FenceOwned(s, r)
      PROVE  SessionMoves
  <2>1. CASE IsCurrent(r)
    <3>1. PICK handler :
            /\ Handle(s, handler) /\ handler.op \in {"fenceNotify", "fenceJoin"}
            /\ session[s].op = "fence" /\ active' = None
      <4>1. Handle(s, [op |-> IF r \in Finished THEN "fenceNotify" ELSE "fenceJoin",
                       id |-> active.id, on |-> ReserveCleanup(r),
                       subs |-> active.subs, todo |-> session[s].todo \ {r}])
        BY <1>3, <2>1 DEF FenceOwned
      <4>2. session[s].op = "fence" /\ active' = None
        BY <1>3, <2>1 DEF FenceOwned, FenceActive
      <4> QED
        BY <4>1, <4>2
    <3> QED
      BY <1>t, <3>1, HandleSessions
  <2>2. CASE ~IsCurrent(r)
    <3> DEFINE handler == [session[s] EXCEPT !.todo = @ \ {r}]
    <3>1. /\ Handle(s, handler) /\ session[s].op = "fence" /\ UNCHANGED active
          /\ handler.op = "fence" /\ handler.todo = session[s].todo \ {r}
      BY <1>t, <1>3, <2>2 DEF FenceOwned, TypeOK, Session
    <3> HIDE DEF handler
    <3>2. \A u \in session[s].todo \ handler.todo : active' = None \/ active.task # u
      BY <2>2, <3>1 DEF IsCurrent
    <3> QED
      BY <1>t, <3>1, <3>2, HandleSessions
  <2> QED
    BY <2>1, <2>2
<1>4. CASE FenceJoined(s) \/ FenceNotify(s) \/ FenceDone(s)
  <2>1. CASE FenceJoined(s)
    <3>1. Handle(s, Handling(s, "fenceNotify")) /\ session[s].op = "fenceJoin"
      BY <2>1 DEF FenceJoined
    <3> QED
      BY <1>t, <3>1, HandlerOp, HandleSessions
  <2>2. CASE FenceNotify(s)
    <3> DEFINE handler == [Idle EXCEPT !.op = "fence", !.todo = session[s].todo]
    <3>1. Handle(s, handler) /\ session[s].op = "fenceNotify"
      BY <2>2 DEF FenceNotify
    <3>2. handler.op = "fence" /\ handler.todo = session[s].todo
      BY DEF Idle
    <3> HIDE DEF handler
    <3> QED
      BY <1>t, <3>1, <3>2, HandleSessions
  <2>3. CASE FenceDone(s)
    <3>1. Handle(s, Handling(s, "gather")) /\ session[s].op = "fence" /\ session[s].todo = {}
      BY <2>3 DEF FenceDone
    <3> QED
      BY <1>t, <3>1, HandlerOp, HandleSessions
  <2> QED
    BY <1>4, <2>1, <2>2, <2>3
<1>5. CASE RevokeOwned(s)
  <2> DEFINE handler == [Idle EXCEPT !.op = "closed"]
  <2>1. /\ Handle(s, handler) /\ session[s].op = "gather" /\ UNCHANGED active
        /\ handler.op = "closed" /\ handler.todo = {}
    BY <1>t, <1>5, HandlerOp DEF RevokeOwned
  <2> HIDE DEF handler
  <2> QED
    BY <1>t, <1>5, <2>1, HandleSessions
<1>6. CASE PeerLost(s)
  BY <1>6, StillSessions DEF PeerLost
<1> QED
  BY <1>1, <1>2, <1>3, <1>4, <1>5, <1>6, <1>7 DEF Progress, Disconnect

LEMMA MessageSessions ==
    ASSUME ServiceInv, NEW s \in Sockets, NEW a \in Attempts, Message(s, a)
    PROVE  SessionMoves
<1>t. TypeOK
  BY SlotUndecided
<1>1. CASE (\E t \in Tasks : Start(s, t, a)) \/ LeaveRoute(s, a)
  BY <1>1, StillSessions DEF Start, LeaveRoute
<1>2. CASE Backpressure(s, a)
  <2> DEFINE handler == [Idle EXCEPT !.op = "reject", !.id = a]
  <2>1. Handle(s, handler) /\ handler.op = "reject"
    BY <1>2 DEF Backpressure, Idle
  <2> HIDE DEF handler
  <2> QED
    BY <1>t, <2>1, HandleSessions DEF Leaving
<1>3. CASE CancelAttempt(s, a)
  <2> DEFINE handler == [Idle EXCEPT !.op = "publish", !.id = a, !.subs = active.subs]
  <2>1. Handle(s, handler) /\ handler.op = "publish"
    BY <1>3 DEF CancelAttempt, Idle
  <2> HIDE DEF handler
  <2> QED
    BY <1>t, <2>1, HandleSessions DEF Leaving
<1>4. CASE BeginAdjust(s, a)
  <2> DEFINE handler == [Idle EXCEPT !.op = "adjust", !.id = a]
  <2>1. Handle(s, handler) /\ handler.op = "adjust" /\ handler.id = a
    BY <1>4 DEF BeginAdjust, Idle
  <2>2. snapshot[a] # None /\ MayAddress(s, a) /\ UNCHANGED <<history, snapshot>>
    BY <1>4 DEF BeginAdjust
  <2> HIDE DEF handler
  <2> QED
    BY <1>t, <2>1, <2>2, HandleSessions DEF Leaving
<1> QED
  BY <1>1, <1>2, <1>3, <1>4 DEF Message

LEMMA SessionMovesLemma == ServiceInv /\ [Next]_vars => SessionMoves
<1> SUFFICES ASSUME ServiceInv, [Next]_vars PROVE SessionMoves
  OBVIOUS
<1>1. CASE \/ \E t \in Tasks : Admission(t) \/ Work(t) \/ PublishAcquiring(t)
           \/ \E s \in Sockets : PublicationEnds(s)
           \/ \E a \in Attempts : TerminalExpires(a) \/ MediaExpires(a)
           \/ CleanupFinishes \/ BeginShutdown \/ EndShutdown \/ Terminated
           \/ UNCHANGED vars
  <2>1. UNCHANGED session
    BY <1>1, ZenonT(60) DEF PublicationEnds, Admission, Work, PublishAcquiring, ReplayTerminal, JoinActive, SendLatest,
       WaitForCleanup, JoinPending, WaitForPending, Retry, ResolveJoined, Displace,
       AnnounceDisplaced, JoinPrior, JoinTimeout, JoinedCleanup, AbandonAdmission,
       AdmitFree, Admit, CommitAdmission, BeginAcquiring, StartFails, AcquisitionEnds,
       Released, GenerationEnds, WorkerJoined, Complete, End, TerminalExpires,
       MediaExpires, CleanupFinishes, BeginShutdown, EndShutdown, Terminated
  <2> QED
    BY <2>1, StillSessions
<1> QED
  BY <1>1, LoopSessions, MessageSessions DEF Next

(* A task that has not ended takes a step.                                     *)
LEMMA RunMovesOn ==
    ASSUME TypeOK, NEW t \in Tasks, pc[t] \notin Ended \cup {"idle"}, NEW label, Goto(t, label)
    PROVE  RunMoves
BY DEF TypeOK, Goto, RunMoves

LEMMA RunMovesLemma == ServiceInv /\ [Next]_vars => RunMoves
<1> SUFFICES ASSUME ServiceInv, [Next]_vars PROVE RunMoves
  OBVIOUS
<1>t. TypeOK
  BY SlotUndecided
<1>1. ASSUME NEW t \in Tasks, Admission(t) \/ Work(t)
      PROVE  RunMoves
  <2>1. pc[t] \notin Ended \cup {"idle"} /\ \E label : Goto(t, label)
    <3>1. CASE AdmitFree(t) \/ Admit(t)
      BY <3>1 DEF AdmitFree, Admit, Unresolved, CommitAdmission, WaitFor, Ended
    <3>2. CASE ~(AdmitFree(t) \/ Admit(t))
      BY <1>1, <3>2 DEF Admission, Work, ReplayTerminal, JoinActive, SendLatest,
         WaitForCleanup, JoinPending, WaitForPending, Retry, ResolveJoined, Displace,
         AnnounceDisplaced, JoinPrior, JoinTimeout, JoinedCleanup, AbandonAdmission,
         BeginAcquiring, StartFails, AcquisitionEnds, Released, GenerationEnds,
         WorkerJoined, Complete, End, Unresolved, WaitFor, Ended
    <3> QED
      BY <3>1, <3>2
  <2> QED
    BY <1>t, <2>1, RunMovesOn
<1>2. ASSUME NEW s \in Sockets, NEW t \in Tasks, NEW a \in Attempts, Start(s, t, a)
      PROVE  RunMoves
  <2>1. /\ session[s].op = "open" /\ UNCHANGED session /\ pc[t] = "idle"
        /\ pc' = [pc EXCEPT ![t] = "prepare"] /\ sock' = [sock EXCEPT ![t] = s]
    BY <1>2 DEF Start, Goto
  <2> QED
    BY <1>t, <2>1 DEF RunMoves, TypeOK, Ended
<1>3. CASE \/ \E t \in Tasks : PublishAcquiring(t)
           \/ \E s \in Sockets : \/ Progress(s) \/ Disconnect(s) \/ PeerLost(s)
                                \/ BeginClose(s) \/ PublicationEnds(s)
           \/ \E s \in Sockets, a \in Attempts :
                Backpressure(s, a) \/ CancelAttempt(s, a) \/ LeaveRoute(s, a) \/ BeginAdjust(s, a)
           \/ \E a \in Attempts : TerminalExpires(a) \/ MediaExpires(a)
           \/ CleanupFinishes \/ BeginShutdown \/ EndShutdown \/ Terminated
           \/ UNCHANGED vars
  <2>1. UNCHANGED pc
    BY <1>3, ZenonT(60) DEF PublishAcquiring, PublicationEnds, Progress, Disconnect, PeerLost, BeginClose, JoinOrReject,
       JoinOrRejectAgain, ReplayLatest, PublishCanceled, EndAdjust, Detach, FenceOwned,
       FenceJoined, FenceNotify, AbortDisconnect, FenceDone, RevokeOwned,
       Backpressure, CancelAttempt, LeaveRoute, BeginAdjust, TerminalExpires,
       MediaExpires, CleanupFinishes, BeginShutdown, EndShutdown, Terminated
  <2> QED
    BY <2>1 DEF RunMoves
<1> QED
  BY <1>1, <1>2, <1>3 DEF Next, Message

-----------------------------------------------------------------------------
(* A completed terminal that has lost its result has no snapshot, and nobody   *)
(* is adjusting it, so its result does not come back.                          *)
RevokedIsOver ==
    \A a \in Attempts : Completed(history, a) /\ ~history.term[a].granted =>
        /\ snapshot[a] = None
        /\ \A s \in Sockets : session[s].op = "adjust" => session[s].id # a

(* A connection adjusts what it owns.                                          *)
OwnAdjusts ==
    \A s \in Sockets : session[s].op = "adjust" =>
        /\ session[s].id \in Live(history)
        /\ history.term[session[s].id].kind = "completed"
        /\ history.term[session[s].id].owner = s

Separate == Roomy /\ ~CrossSocket

Alone == \A r, s \in Sockets : r = s

SeparateInv == ServiceInv /\ MediaInv /\ OwnAdjusts

LEMMA OwnAdjustsNext ==
    ASSUME Separate, SeparateInv, [Next]_vars
    PROVE  OwnAdjusts'
<1> SUFFICES ASSUME NEW s \in Sockets, session'[s].op = "adjust"
             PROVE  LET b == session'[s].id
                    IN  /\ b \in Live(history') /\ history'.term[b].kind = "completed"
                        /\ history'.term[b].owner = s
  BY DEF OwnAdjusts, Live, Retained, Expired
<1>1. AdjustMoves(s) /\ TypeOK
  BY SessionMovesLemma, SlotUndecided DEF SessionMoves, SeparateInv
<1>2. CASE session'[s] = session[s]
  BY <1>2, VerdictStays DEF Separate, SeparateInv, OwnAdjusts
<1>3. ASSUME NEW b \in Attempts, b = session'[s].id, snapshot[b] # None, MayAddress(s, b)
      PROVE  b \in Live(history) /\ history.term[b].kind = "completed" /\ history.term[b].owner = s
  <2>1. PICK t \in Tasks : snapshot[b] = t
    BY <1>1, <1>3 DEF TypeOK
  <2>2. aid[t] = b /\ CompletedBy(t)
    BY <2>1 DEF SeparateInv, MediaInv
  <2>3. sock[t] \in Sockets
    BY <2>2 DEF CompletedBy, SeparateInv, ServiceInv, LifecycleInv, Inductive, SlotInv,
       TasksKnowTheirStart
  <2>4. history.term[b].owner \in {s, None}
    BY <1>3, <2>2 DEF MayAddress, CompletedBy, Live, Separate
  <2> QED
    BY <2>2, <2>3, <2>4, NoneApart DEF CompletedBy
<1> QED
  BY <1>1, <1>2, <1>3 DEF AdjustMoves

LEMMA SeparateNext ==
    ASSUME Separate, SeparateInv, [Next]_vars
    PROVE  SeparateInv'
BY ServiceNext, MediaNext, OwnAdjustsNext DEF Separate, SeparateInv

LEMMA SeparateInit == Init => SeparateInv
<1>1. Idle.op # "adjust"
  BY DEF Idle
<1> QED
  BY <1>1, ServiceInit, MediaInit DEF Init, SeparateInv, OwnAdjusts

LEMMA RevokedIsOverNext ==
    ASSUME ServiceInv, RevokedIsOver, [Next]_vars, Alone \/ (OwnAdjusts /\ ~CrossSocket)
    PROVE  RevokedIsOver'
<1> SUFFICES ASSUME NEW a \in Attempts, a \in Retained(history'),
                    history'.term[a].kind = "completed", ~history'.term[a].granted
             PROVE  /\ snapshot'[a] = None
                    /\ \A s \in Sockets : session'[s].op = "adjust" => session'[s].id # a
  BY DEF RevokedIsOver, Completed, Retained
<1>1. TermsMove /\ MediaMoves /\ SessionMoves /\ TypeOK'
  BY HistoryStepLemma, TermsMoveLemma, MediaMovesLemma, SessionMovesLemma, ServiceNext
     DEF ServiceInv, LifecycleInv, Inductive
<1>2. Stands(a)
  BY <1>1 DEF TermsMove, Gone, Decided, Adjusted
<1>3. Completed(history, a)
  BY <1>2 DEF Stands, Completed
<1>4. CASE ~history.term[a].granted
  <2>1. snapshot[a] = None /\ \A s \in Sockets : session[s].op = "adjust" => session[s].id # a
    BY <1>3, <1>4 DEF RevokedIsOver
  <2>2. \A t \in Tasks : ~(a = aid[t] /\ Completes(t))
    <3>1. \A s : Terminal("completed", s).granted
      BY DEF Terminal
    <3> QED
      BY <3>1 DEF Completes
  <2>3. snapshot'[a] = None
    <3>1. \A t \in Tasks : snapshot'[a] # t
      BY <1>1, <2>1, <2>2, NoneApart DEF MediaMoves
    <3> QED
      BY <1>1, <3>1 DEF TypeOK
  <2> QED
    BY <1>1, <2>1, <2>3 DEF SessionMoves, AdjustMoves
<1>5. CASE history.term[a].granted
  <2>1. PICK s \in Sockets : WithdrawnBy(s, {a})
    BY <1>2, <1>5 DEF Stands
  <2>2. ASSUME NEW r \in Sockets, session'[r].op = "adjust", session'[r].id = a
        PROVE  FALSE
    <3>1. session'[s].op \in {"open", "gather", "closed"}
      <4>1. [Idle EXCEPT !.op = "closed"].op = "closed"
        BY DEF Idle
      <4>2. session \in [Sockets -> Session]
        BY SlotUndecided DEF TypeOK
      <4> QED
        BY <2>1, <4>1, <4>2 DEF WithdrawnBy
    <3>2. r # s
      BY <2>2, <3>1
    <3>3. session[r] = session'[r]
      BY <2>1, <3>2, SlotUndecided DEF WithdrawnBy, TypeOK
    <3>4. CASE OwnAdjusts /\ ~CrossSocket
      BY <2>1, <2>2, <3>2, <3>3, <3>4, NoneApart DEF OwnAdjusts, WithdrawnBy
    <3> QED
      BY <3>2, <3>4 DEF Alone
  <2> QED
    BY <2>1, <2>2 DEF WithdrawnBy
<1> QED
  BY <1>4, <1>5

LEMMA RevokedIsOverInit == Init => RevokedIsOver
BY DEF Init, RevokedIsOver, Completed, Retained

(* A retained terminal keeps its verdict and its owner and, once its result is *)
(* revoked, is not granted another: with one connection, whatever the bounds   *)
(* and whatever expires, and with several that adjust and revoke what is       *)
(* theirs, while nothing expires and there is a place for every attempt        *)
(* (replace_completed_result, revoke_completed_result).                        *)
THEOREM TerminalIsCanonicalHolds ==
    ASSUME Alone \/ Separate
    PROVE  Spec => TerminalIsCanonical
<1> DEFINE Inv == ServiceInv /\ RevokedIsOver /\ (Separate => SeparateInv)
<1>1. Init => Inv
  BY ServiceInit, RevokedIsOverInit, SeparateInit
<1>2. Inv /\ [Next]_vars => Inv'
  <2> SUFFICES ASSUME Inv, [Next]_vars PROVE Inv'
    OBVIOUS
  <2>1. Alone \/ (OwnAdjusts /\ ~CrossSocket)
    BY DEF Separate, SeparateInv
  <2> QED
    BY <2>1, ServiceNext, RevokedIsOverNext, SeparateNext
<1>3. Inv /\ [Next]_vars =>
        [\A a \in (Retained(history) \ Expired(history)) \cap Retained(history') :
            /\ history.term[a].kind = history'.term[a].kind
            /\ history.term[a].owner = history'.term[a].owner
            /\ history'.term[a].granted => history.term[a].granted]_vars
  <2> SUFFICES ASSUME Inv, [Next]_vars,
                      NEW a \in (Retained(history) \ Expired(history)) \cap Retained(history')
               PROVE  /\ history.term[a].kind = history'.term[a].kind
                      /\ history.term[a].owner = history'.term[a].owner
                      /\ history'.term[a].granted => history.term[a].granted
    OBVIOUS
  <2>1. a \in Attempts /\ a \in Live(history) /\ a \in Retained(history')
    BY DEF Live, Retained
  <2>2. Stands(a) \/ Adjusted(a)
    BY <2>1, HistoryStepLemma, TermsMoveLemma DEF TermsMove, Gone, Decided
  <2>3. CASE Stands(a)
    BY <2>3 DEF Stands
  <2>4. CASE Adjusted(a)
    <3>1. history.term[a].granted
      BY <2>1, <2>4 DEF Adjusted, RevokedIsOver
    <3> QED
      BY <2>4, <3>1 DEF Adjusted
  <2> QED
    BY <2>2, <2>3, <2>4
<1> QED
  BY <1>1, <1>2, <1>3, PTL DEF Spec, TerminalIsCanonical

-----------------------------------------------------------------------------
(* Disconnects.                                                                *)
(*                                                                             *)
(* disconnect() works on a snapshot of the receipts it has once connection_    *)
(* closed is set, and revokes what it owns once its tasks have ended.  The     *)
(* invariant says why neither comes too early: the live attempt of the         *)
(* connection stays on the list until it is fenced, no task of it begins an    *)
(* attempt any more, and an ended task leaves no more than it has completed.   *)

FencesToDo ==
    \A s \in Sockets : session[s].op \in Leaving =>
        /\ active # None /\ active.owner = s => active.task \in session[s].todo
        /\ session[s].op \in {"gather", "closed"} => session[s].todo = {}

ClosedIsOver ==
    \A s \in Sockets : session[s].op = "closed" =>
        /\ \A a \in Attempts : HasResult(history, a) => history.term[a].owner # s
        /\ \A t \in Running : sock[t] # s
        /\ \A a \in Attempts, t \in Tasks :
              captured[a] = t \/ snapshot[a] = t => sock[t] # s

LEMMA FencesToDoNext ==
    ASSUME ServiceInv, FencesToDo, [Next]_vars
    PROVE  FencesToDo'
<1> SUFFICES ASSUME NEW s \in Sockets, session'[s].op \in Leaving
             PROVE  /\ active' # None /\ active'.owner = s => active'.task \in session'[s].todo
                    /\ session'[s].op \in {"gather", "closed"} => session'[s].todo = {}
  BY DEF FencesToDo, Leaving
<1>1. LeaveMoves(s) /\ ActiveMoves
  BY SessionMovesLemma, StepMovesLemma DEF SessionMoves, StepMoves
<1>2. session'[s].op \in {"gather", "closed"} => session'[s].todo = {}
  BY <1>1 DEF LeaveMoves, FencesToDo
<1>3. ASSUME active' # None, active'.owner = s
      PROVE  active'.task \in session'[s].todo
  <2>1. CASE UNCHANGED active \/ Same(active, active')
    <3>1. active # None /\ active.owner = s /\ active'.task = active.task
      BY <1>3, <2>1 DEF Same
    <3>2. CASE session'[s] = session[s]
      BY <3>1, <3>2 DEF FencesToDo
    <3>3. CASE session[s].op \in Leaving /\ session'[s] # session[s]
      <4>1. active.task \in session[s].todo /\ session[s].op # "gather"
        BY <3>1, <3>3 DEF FencesToDo
      <4> QED
        BY <1>1, <1>3, <3>1, <3>3, <4>1 DEF LeaveMoves, Leaving
    <3>4. CASE session[s].op = "closing" /\ session'[s].todo = receipts[s]
      <4>1. active.task \in Tasks /\ IsCurrent(active.task)
        BY <3>1, SlotUndecided DEF TypeOK, ActiveAttempt, IsCurrent
      <4>2. active.task \in receipts[s]
        BY <3>1, <4>1 DEF ServiceInv, LifecycleInv, Inductive, ReceiptsMirrorActive
      <4> QED
        BY <3>1, <3>4, <4>2
    <3> QED
      BY <1>1, <3>2, <3>3, <3>4 DEF LeaveMoves
  <2>2. ASSUME NEW t \in Tasks, Begins(t)
        PROVE  FALSE
    <3>1. sock[t] = s /\ ~ConnectionClosed(s) /\ session[s].op \in Leaving
      BY <1>3, <2>2 DEF Begins
    <3> QED
      BY <3>1 DEF ConnectionClosed, Alive, Leaving
  <2> QED
    BY <1>1, <1>3, <2>1, <2>2 DEF ActiveMoves
<1> QED
  BY <1>2, <1>3

(* At the moment of the revocation.                                            *)
LEMMA RevokeOwnedIsOver ==
    ASSUME SeparateInv, NEW s \in Sockets, RevokeOwned(s)
    PROVE  /\ \A a \in Attempts : HasResult(history', a) => history'.term[a].owner # s
           /\ \A t \in Running : sock[t] # s
           /\ \A a \in Attempts, t \in Tasks :
                 captured'[a] = t \/ snapshot'[a] = t => sock[t] # s
<1> DEFINE h == Prune(history)
           ids == OwnedCompleted(h, s)
<1>1. /\ history' = Revoke(h, ids) /\ RevokeMedia(ids) /\ \A t \in Running : sock[t] # s
  BY DEF RevokeOwned
<1>2. /\ TypeOK /\ h \in History /\ Retained(h) = Live(history)
      /\ \A b \in Retained(h) : h.term[b] = history.term[b]
  BY PruneIsLive, PruneLemma, PrunedTerms DEF SeparateInv
<1>3. \A a \in Attempts :
        a \in ids <=> /\ a \in Live(history) /\ history.term[a].kind = "completed"
                      /\ history.term[a].owner = s
  BY <1>2 DEF OwnedCompleted, Completed
<1>4. /\ ids \subseteq Attempts /\ Retained(Revoke(h, ids)) = Retained(h)
      /\ \A b \in Retained(h) :
            /\ Revoke(h, ids).term[b].kind = h.term[b].kind
            /\ Revoke(h, ids).term[b].owner = h.term[b].owner
            /\ Revoke(h, ids).term[b].granted <=> h.term[b].granted /\ b \notin ids
  <2>1. ids \in SUBSET Attempts
    BY DEF OwnedCompleted
  <2> HIDE DEF h, ids
  <2> QED
    BY <1>2, <2>1, RevokeLemma, RevokeTerms
<1> HIDE DEF h, ids
<1>5. ASSUME NEW a \in Attempts, HasResult(history', a), history'.term[a].owner = s
      PROVE  FALSE
  BY <1>1, <1>2, <1>3, <1>4, <1>5 DEF HasResult
<1>6. ASSUME NEW a \in Attempts, NEW t \in Tasks,
             captured'[a] = t \/ snapshot'[a] = t, sock[t] = s
      PROVE  FALSE
  <2>1. a \notin ids /\ (captured[a] = t \/ snapshot[a] = t)
    BY <1>1, <1>2, <1>6, RevokeMediaGo, NoneApart DEF MediaGo
  <2>2. aid[t] = a /\ (pc[t] \in Generating \/ CompletedBy(t))
    BY <2>1 DEF SeparateInv, MediaInv
  <2>3. pc[t] \notin Generating
    BY <1>1, <1>6 DEF Running, Finished, Generating
  <2> QED
    BY <1>3, <1>6, <2>1, <2>2, <2>3 DEF CompletedBy
<1> QED
  BY <1>1, <1>5, <1>6

LEMMA ClosedIsOverNext ==
    ASSUME Separate, SeparateInv, FencesToDo, ClosedIsOver, [Next]_vars
    PROVE  ClosedIsOver'
<1> SUFFICES ASSUME NEW s \in Sockets, session'[s].op = "closed"
             PROVE  /\ \A a \in Attempts : HasResult(history', a) => history'.term[a].owner # s
                    /\ \A t \in Tasks : pc'[t] \notin Ended \cup {"idle"} => sock'[t] # s
                    /\ \A a \in Attempts, t \in Tasks :
                          captured'[a] = t \/ snapshot'[a] = t => sock'[t] # s
  BY DEF ClosedIsOver, HasResult, Retained, Running, Finished, Ended
<1>1. /\ ServiceInv /\ TermsMove /\ MediaMoves /\ SessionMoves /\ RunMoves /\ TasksMove
      /\ MediaInv /\ OwnAdjusts
  BY HistoryStepLemma, TermsMoveLemma, MediaMovesLemma, SessionMovesLemma, RunMovesLemma,
     StepMovesLemma DEF SeparateInv, StepMoves
<1>2. session[s].op = "closed" \/ RevokeOwned(s)
  BY <1>1 DEF SessionMoves
<1>3. /\ \A t \in Running : sock[t] # s
      /\ session[s].op \notin {"open", "adjust"}
      /\ active # None => active.owner # s
  <2>1. session[s].op \in {"gather", "closed"}
    BY <1>2 DEF RevokeOwned
  <2>2. active # None => active.owner # s
    BY <2>1 DEF FencesToDo, Leaving
  <2> QED
    BY <1>2, <2>1, <2>2, RevokeOwnedIsOver DEF ClosedIsOver
<1>4. ASSUME NEW t \in Tasks, pc'[t] \notin Ended \cup {"idle"}
      PROVE  sock'[t] # s
  <2>1. CASE pc[t] = "idle"
    BY <1>1, <1>3, <1>4, <2>1 DEF RunMoves
  <2>2. CASE pc[t] # "idle"
    <3>1. t \in Running /\ sock'[t] = sock[t]
      BY <1>1, <1>4, <2>2 DEF RunMoves, TasksMove, Running, Finished, Ended
    <3> QED
      BY <1>3, <3>1
  <2> QED
    BY <2>1, <2>2
<1>5. ASSUME NEW a \in Attempts, HasResult(history', a), history'.term[a].owner = s
      PROVE  FALSE
  <2>1. CASE RevokeOwned(s)
    BY <1>5, <2>1, RevokeOwnedIsOver
  <2>2. CASE session[s].op = "closed"
    <3>1. ~Gone(a)
      BY <1>5 DEF Gone, HasResult
    <3>2. CASE Stands(a)
      BY <1>5, <2>2, <3>2 DEF Stands, HasResult, ClosedIsOver
    <3>3. CASE Decided(a)
      BY <1>3, <1>5, <3>3 DEF Decided, HasResult
    <3>4. CASE Adjusted(a)
      BY <1>1, <1>3, <1>5, <3>4 DEF Adjusted, OwnAdjusts
    <3> QED
      BY <1>1, <3>1, <3>2, <3>3, <3>4 DEF TermsMove
  <2> QED
    BY <1>2, <2>1, <2>2
<1>6. ASSUME NEW a \in Attempts, NEW t \in Tasks, captured'[a] = t \/ snapshot'[a] = t
      PROVE  sock'[t] # s
  <2>1. \/ captured[a] = t \/ snapshot[a] = t
        \/ pc[t] \in {"release", "generate"}
    BY <1>1, <1>6 DEF MediaMoves, Completes
  <2>2. pc[t] # "idle"
    BY <1>1, <2>1 DEF MediaInv, Generating, CompletedBy
  <2>3. sock'[t] = sock[t]
    BY <1>1, <2>2 DEF TasksMove
  <2>4. CASE pc[t] \in {"release", "generate"}
    <3>1. t \in Running
      BY <2>4 DEF Running, Finished
    <3> QED
      BY <1>3, <2>3, <3>1
  <2>5. CASE captured[a] = t \/ snapshot[a] = t
    <3>1. CASE RevokeOwned(s)
      BY <1>6, <2>3, <3>1, RevokeOwnedIsOver
    <3>2. CASE session[s].op = "closed"
      BY <2>3, <2>5, <3>2 DEF ClosedIsOver
    <3> QED
      BY <1>2, <3>1, <3>2
  <2> QED
    BY <2>1, <2>4, <2>5
<1> QED
  BY <1>4, <1>5, <1>6

(* Once disconnect() has returned the connection owns no live attempt, no      *)
(* grant and no retained source material, and none comes back, wherever its    *)
(* tasks and its messages were when the peer went away (disconnect of          *)
(* TryOnAttemptRuntime, cancel_owner_and_join, revoke_completed_owner_results).*)
THEOREM DisconnectFencesHolds ==
    ASSUME Separate
    PROVE  Spec => []DisconnectFences
<1> DEFINE Inv == SeparateInv /\ FencesToDo /\ ClosedIsOver
<1>1. Init => Inv
  <2>1. Idle.op = "open"
    BY DEF Idle
  <2> QED
    BY <2>1, SeparateInit DEF Init, FencesToDo, ClosedIsOver, Leaving
<1>2. Inv /\ [Next]_vars => Inv'
  BY SeparateNext, FencesToDoNext, ClosedIsOverNext DEF SeparateInv
<1>3. Inv => DisconnectFences
  <2> SUFFICES ASSUME Inv, NEW s \in Sockets, session[s].op = "closed"
               PROVE  /\ active # None => active.owner # s
                      /\ \A a \in history.results : history.term[a].owner # s
                      /\ \A a \in Attempts, t \in Tasks :
                            captured[a] = t \/ snapshot[a] = t => sock[t] # s
    BY DEF DisconnectFences
  <2>1. active # None => active.owner # s
    BY DEF FencesToDo, Leaving
  <2>2. \A a \in history.results : a \in Attempts /\ HasResult(history, a)
    BY SlotUndecided DEF SeparateInv, ServiceInv, Matched, History
  <2> QED
    BY <2>1, <2>2 DEF ClosedIsOver
<1> QED
  BY <1>1, <1>2, <1>3, PTL DEF Spec

=============================================================================
