------------------------ MODULE ObserverWorkerProofs ------------------------
(***************************************************************************)
(* What ObserverWorker.cfg checks on two callers and a few processes holds *)
(* of any number of them, and of every bound.                              *)
(*                                                                         *)
(* The worker's invariant is inductive with the types, the order in which  *)
(* processes are spawned, what a closed process has left (ClosedIsOver),   *)
(* whose request a child has in hand (RequestIsHolders) and who else may   *)
(* be about while the worker is shut down (DownAlone).                     *)
(***************************************************************************)
EXTENDS ObserverWorker, TLAPS

USE DEF childSide, held, locks, Alive

(* Processes are spawned in the order of their numbers, and one that is not    *)
(* spawned yet has left no trace.                                              *)
Spawned ==
    /\ \A p \in Procs : p > spent.procs => /\ child[p] = "none" /\ answer[p] = "none"
                                           /\ p \notin closed
    /\ \A a \in Actors : actor[a].p <= spent.procs
    /\ \A a \in Actors : actor[a].pc \in {"poll", "signal", "confirm", "graceful"}
                            => actor[a].p # NoProc

(* A closed process is dead, forgotten and without a slot.                     *)
ClosedIsOver ==
    \A p \in closed : ~Alive(p) /\ p # handle /\ p \notin open

(* a has submitted to p, or stops it because that failed.                      *)
Engaged(a, p) ==
    \/ actor[a].pc \in {"poll", "signal", "confirm"} /\ actor[a].p = p
    \/ actor[a].pc = "abort"

(* The child works on a request or has answered it. *)
InHand(p) == child[p] \in {"loaded", "work"} \/ (Alive(p) /\ answer[p] = "ok")

(* A request in hand is the slot holder's, and is not answered yet while the   *)
(* child works on it.                                                          *)
RequestIsHolders ==
    fatal = "none" /\ ~torn =>
        \A p \in Procs : InHand(p) =>
            /\ slotOf \in Callers /\ Engaged(slotOf, p)
            /\ answer[p] = "ok" => child[p] = "idle"

(* The shutdown has the worker to itself. *)
DownAlone ==
    /\ \A a \in Callers : actor[a].pc \notin {"graceful", "done"}
    /\ actor["down"].pc \in {"idle", "graceful", "abort", "signal", "confirm", "done"}
    /\ actor["down"].pc # "idle" => \A a \in Callers : actor[a].pc = "idle"
    /\ actor["down"].pc \in {"abort", "signal", "confirm"} => actor["down"].then = "shutdown"
    /\ actor["down"].pc \in {"graceful", "signal", "confirm"} =>
          handle \in {NoProc, actor["down"].p}

Codes == {"idle", "lock", "spawn", "boot", "take", "poll", "abort", "signal", "confirm",
          "graceful", "done"}
Causes == {"none", "finalize", "failed", "cancelled", "startCancelled", "shutdown"}
ActorState == [pc : Codes, p : Procs \cup {NoProc}, then : Causes, cancelled : BOOLEAN]

(* TypeOK in four parts.                                                       *)
ActorsOK == actor \in [Actors -> ActorState]
SpentOK ==
    spent \in [procs : 0 .. MaxProcs, calls : 0 .. MaxCalls, cancels : 0 .. MaxCancels,
               kills : 0 .. MaxKills, faults : 0 .. MaxFaults]
ChildOK ==
    /\ child \in [Procs -> {"none", "boot", "loaded", "idle", "work", "dead"}]
    /\ doomed \subseteq Procs
    /\ answer \in [Procs -> {"none", "ready", "ok", "error"}]
WorkerOK ==
    /\ handle \in 0 .. spent.procs /\ ready \in BOOLEAN /\ active \in BOOLEAN
    /\ fatal \in Fatals /\ torn \in BOOLEAN
    /\ {slotOf, startLock} \subseteq Callers \cup {"none"} /\ stopLock \in Actors \cup {"none"}
    /\ closed \subseteq Procs /\ open \subseteq Procs

Accounts == Spawned /\ ClosedIsOver /\ NoLostChild /\ NoLeakedSlot

IInv ==
    /\ ActorsOK /\ SpentOK /\ ChildOK /\ WorkerOK
    /\ Accounts /\ RequestIsHolders /\ DownAlone /\ ShutdownClean

LEMMA TypeParts == TypeOK <=> ActorsOK /\ SpentOK /\ ChildOK /\ WorkerOK
BY DEF TypeOK, ActorsOK, SpentOK, ChildOK, WorkerOK, ActorState, Codes, Causes

(* What a caller does next is typed, and touches no other caller.              *)
Only(a) == \A b \in Actors : b # a => actor'[b] = actor[b]

LEMMA MovesActor ==
    ASSUME ActorsOK, NEW a \in Actors, NEW pc \in Codes, Moves(a, pc)
    PROVE  /\ ActorsOK' /\ Only(a)
           /\ actor'[a].pc = pc /\ actor'[a].p = actor[a].p
           /\ actor'[a].then = actor[a].then
BY DEF ActorsOK, ActorState, Moves, Only

LEMMA AbortsActor ==
    ASSUME ActorsOK, NEW a \in Actors, NEW c \in Causes, Aborts(a, c)
    PROVE  /\ ActorsOK' /\ Only(a)
           /\ actor'[a].pc = "abort" /\ actor'[a].p = actor[a].p /\ actor'[a].then = c
<1>1. "abort" \in Codes
  BY DEF Codes
<1> QED
  BY <1>1 DEF ActorsOK, ActorState, Aborts, Only

LEMMA LeavesActor ==
    ASSUME ActorsOK, NEW a \in Actors, Leaves(a)
    PROVE  /\ ActorsOK' /\ Only(a)
           /\ actor'[a].pc = IF a = "down" THEN "done" ELSE "idle"
           /\ actor'[a].p = NoProc /\ actor'[a].then = "none"
           /\ startLock' = IF startLock = a THEN "none" ELSE startLock
           /\ slotOf' = IF slotOf = a THEN "none" ELSE slotOf
           /\ active' = (active /\ slotOf # a)
BY DEF ActorsOK, ActorState, Codes, Causes, Leaves, Rest, Only

LEMMA TargetsActor ==
    ASSUME ActorsOK, NEW a \in Actors, NEW pc \in Codes, NEW p \in Procs \cup {NoProc},
           actor' = [actor EXCEPT ![a].pc = pc, ![a].p = p]
    PROVE  /\ ActorsOK' /\ Only(a)
           /\ actor'[a].pc = pc /\ actor'[a].p = p
           /\ actor'[a].then = actor[a].then
BY DEF ActorsOK, ActorState, Only

LEMMA ActorTyped ==
    ASSUME ActorsOK, NEW a \in Actors
    PROVE  /\ actor[a].pc \in Codes /\ actor[a].p \in Procs \cup {NoProc}
           /\ actor[a].then \in Causes
BY DEF ActorsOK, ActorState

LEMMA Counts ==
    ASSUME SpentOK
    PROVE  /\ spent.procs \in Nat /\ spent.procs <= MaxProcs /\ MaxProcs \in Nat
           /\ NoProc \in 0 .. spent.procs /\ NoProc \notin Procs
           /\ \A p \in 0 .. spent.procs : p \in Procs \cup {NoProc} /\ p <= spent.procs
BY ObserverBounds DEF SpentOK, NoProc, Procs

(* A caller that is under way leaves the shutdown to wait.                     *)
LEMMA CallerAlone ==
    ASSUME DownAlone, NEW a \in Callers, actor[a].pc # "idle"
    PROVE  /\ actor["down"].pc = "idle"
           /\ a \in Actors /\ "down" \in Actors /\ a # "down"
BY ObserverBounds DEF DownAlone, Actors

(* A caller goes on, and leaves everything but the locks alone.                *)
LEMMA CallerMoves ==
    ASSUME IInv, NEW a \in Callers, actor["down"].pc = "idle", ActorsOK', Only(a),
           actor'[a].pc \in {"lock", "spawn", "boot", "take", "abort"},
           actor[a].pc \in {"idle", "lock", "spawn", "boot", "take"} \/ actor'[a].pc = "abort",
           actor'[a].p = actor[a].p, WorkerOK', SpentOK', spent'.procs = spent.procs,
           UNCHANGED <<held, childSide, fatal, slotOf>>
    PROVE  IInv'
<1> USE ObserverBounds DEF IInv
<1>1. "down" \in Actors /\ a \in Actors /\ a # "down" /\ actor'["down"] = actor["down"]
  BY DEF Actors, Only
<1>2. ChildOK'
  BY DEF ChildOK
<1>3. Accounts'
  <2>1. Spawned'
    BY <1>1 DEF Accounts, Spawned, Only
  <2> QED
    BY <2>1 DEF Accounts, ClosedIsOver, NoLostChild, NoLeakedSlot
<1>4. RequestIsHolders'
  <2>1. ASSUME NEW b \in Callers, NEW p \in Procs, Engaged(b, p) PROVE Engaged(b, p)'
    BY <2>1 DEF Engaged, Only, Actors
  <2> QED
    BY <2>1 DEF RequestIsHolders, InHand
<1>5. DownAlone' /\ ShutdownClean'
  <2>1. \A b \in Callers : actor'[b].pc \notin {"graceful", "done"}
    BY <1>1 DEF DownAlone, Only, Actors
  <2> QED
    BY <1>1, <2>1 DEF DownAlone, ShutdownClean
<1> QED
  BY <1>2, <1>3, <1>4, <1>5

(* A caller leaves, and whoever was engaged is engaged still, unless an abort  *)
(* is torn by it.                                                              *)
LEMMA CallerLeaves ==
    ASSUME IInv, NEW a \in Callers, Leaves(a), actor[a].pc # "idle",
           actor[a].pc \in {"lock", "spawn", "boot", "take"} \/ torn',
           stopLock' \in Actors \cup {"none"}, torn' \in BOOLEAN, torn => torn',
           SpentOK', spent'.procs = spent.procs,
           UNCHANGED <<handle, closed, open, childSide, fatal, ready>>
    PROVE  IInv'
<1> USE ObserverBounds DEF IInv
<1>1. /\ "down" \in Actors /\ a \in Actors /\ a # "down"
      /\ actor["down"].pc = "idle"
  BY CallerAlone
<1>2. /\ ActorsOK' /\ Only(a) /\ actor'[a].pc = "idle" /\ actor'[a].p = NoProc
      /\ startLock' = (IF startLock = a THEN "none" ELSE startLock)
      /\ slotOf' = (IF slotOf = a THEN "none" ELSE slotOf)
      /\ active' = (active /\ slotOf # a)
  BY <1>1, LeavesActor
<1>3. actor'["down"] = actor["down"]
  BY <1>1, <1>2 DEF Only
<1>4. ChildOK' /\ WorkerOK'
  BY <1>2 DEF ChildOK, WorkerOK
<1>5. Accounts'
  <2>1. Spawned'
    BY <1>2, Counts DEF Accounts, Spawned, Only
  <2> QED
    BY <2>1 DEF Accounts, ClosedIsOver, NoLostChild, NoLeakedSlot
<1>6. RequestIsHolders'
  <2>1. SUFFICES ASSUME fatal = "none", ~torn', NEW p \in Procs, InHand(p)
                 PROVE  /\ slotOf' \in Callers /\ Engaged(slotOf, p)'
                        /\ answer[p] = "ok" => child[p] = "idle"
    BY DEF RequestIsHolders, InHand
  <2>2. /\ slotOf \in Callers /\ Engaged(slotOf, p)
        /\ answer[p] = "ok" => child[p] = "idle"
    BY <2>1 DEF RequestIsHolders
  <2>3. slotOf # a
    BY <2>1, <2>2 DEF Engaged
  <2> QED
    BY <1>2, <2>2, <2>3 DEF Engaged, Only, Actors
<1>7. DownAlone' /\ ShutdownClean'
  <2>1. \A b \in Callers : actor'[b].pc \notin {"graceful", "done"}
    BY <1>2 DEF DownAlone, Only, Actors
  <2> QED
    BY <1>3, <2>1 DEF DownAlone, ShutdownClean
<1> QED
  BY <1>2, <1>4, <1>5, <1>6, <1>7

LEMMA BeginKeeps ==
    ASSUME IInv, NEW a \in Callers, Begin(a)
    PROVE  IInv'
<1> USE DEF IInv
<1>1. ActorsOK' /\ Only(a) /\ actor'[a].pc = "lock" /\ actor'[a].p = actor[a].p
  BY MovesActor DEF Begin, Actors, Codes
<1>2. SpentOK' /\ spent'.procs = spent.procs
  BY ObserverBounds DEF SpentOK, Begin, Spend
<1>3. WorkerOK'
  BY <1>2 DEF WorkerOK, Begin
<1> QED
  BY <1>1, <1>2, <1>3, CallerMoves DEF Begin

LEMMA LocksKeeps ==
    ASSUME IInv, NEW a \in Callers, Locks(a)
    PROVE  IInv'
<1> USE DEF IInv
<1>1. /\ ActorsOK' /\ Only(a) /\ actor'[a].pc \in {"take", "spawn"}
      /\ actor'[a].p = actor[a].p
  BY MovesActor DEF Locks, Actors, Codes
<1>2. SpentOK' /\ WorkerOK'
  BY DEF SpentOK, WorkerOK, Locks
<1>3. actor["down"].pc = "idle" /\ actor[a].pc = "lock"
  BY CallerAlone DEF Locks
<1> QED
  BY <1>1, <1>2, <1>3, CallerMoves DEF Locks

LEMMA SpawnNothingKeeps ==
    ASSUME IInv, NEW a \in Callers, SpawnNothing(a)
    PROVE  IInv'
<1> USE DEF IInv
<1>1. /\ ActorsOK' /\ Only(a) /\ actor'[a].pc \in {"abort", "boot"}
      /\ actor'[a].p = actor[a].p
  BY MovesActor, AbortsActor DEF SpawnNothing, Actors, Codes, Causes
<1>2. SpentOK' /\ WorkerOK'
  BY DEF SpentOK, WorkerOK, SpawnNothing
<1>3. actor["down"].pc = "idle" /\ actor[a].pc = "spawn"
  BY CallerAlone DEF SpawnNothing
<1> QED
  BY <1>1, <1>2, <1>3, CallerMoves DEF SpawnNothing

LEMMA BootAbortsKeeps ==
    ASSUME IInv, NEW a \in Callers, BootInvalid(a) \/ BootTimesOut(a)
    PROVE  IInv'
<1> USE DEF IInv
<1>1. ActorsOK' /\ Only(a) /\ actor'[a].pc = "abort" /\ actor'[a].p = actor[a].p
  BY AbortsActor DEF BootInvalid, BootTimesOut, Actors, Causes
<1>2. SpentOK' /\ WorkerOK'
  BY DEF SpentOK, WorkerOK, BootInvalid, BootTimesOut
<1>3. actor["down"].pc = "idle" /\ actor[a].pc = "boot"
  BY CallerAlone DEF BootInvalid, BootTimesOut
<1> QED
  BY <1>1, <1>2, <1>3, CallerMoves DEF BootInvalid, BootTimesOut

LEMMA RefusedKeeps ==
    ASSUME IInv, NEW a \in Callers, SpawnRefused(a) \/ Busy(a)
    PROVE  IInv'
<1>1. SpentOK' /\ stopLock' \in Actors \cup {"none"} /\ torn' \in BOOLEAN
  BY DEF IInv, SpentOK, WorkerOK, SpawnRefused, Busy
<1> QED
  BY <1>1, CallerLeaves DEF SpawnRefused, Busy

LEMMA CancelKeeps ==
    ASSUME IInv, NEW a \in Callers, Cancel(a)
    PROVE  IInv'
<1> USE DEF IInv
<1>1. SpentOK' /\ spent'.procs = spent.procs
  BY ObserverBounds DEF SpentOK, Cancel, Spend
<1>2. actor[a].pc # "idle"
  BY DEF Cancel, Tearable
<1>3. actor["down"].pc = "idle" /\ a \in Actors
  BY <1>2, CallerAlone
<1>4. UNCHANGED <<handle, closed, open, ready, fatal, childSide>>
  BY DEF Cancel
<1>5. CASE actor[a].pc \in {"lock", "boot"} /\ Leaves(a) /\ UNCHANGED <<stopLock, torn>>
  <2>1. stopLock' \in Actors \cup {"none"} /\ torn' \in BOOLEAN
    BY <1>5 DEF WorkerOK
  <2> QED
    BY <1>1, <1>4, <1>5, <2>1, CallerLeaves
<1>6. CASE /\ actor[a].pc = "spawn" /\ actor' = [actor EXCEPT ![a].cancelled = TRUE]
           /\ UNCHANGED <<active, locks, torn>>
  <2>1. ActorsOK' /\ Only(a) /\ actor'[a].pc = "spawn" /\ actor'[a].p = actor[a].p
    BY <1>6 DEF ActorsOK, ActorState, Only
  <2>2. WorkerOK'
    BY <1>1, <1>4, <1>6 DEF WorkerOK
  <2> QED
    BY <1>1, <1>3, <1>4, <1>6, <2>1, <2>2, CallerMoves
<1>7. CASE actor[a].pc = "poll" /\ Aborts(a, "cancelled") /\ UNCHANGED <<active, locks, torn>>
  <2>1. ActorsOK' /\ Only(a) /\ actor'[a].pc = "abort" /\ actor'[a].p = actor[a].p
    BY <1>3, <1>7, AbortsActor DEF Causes
  <2>2. WorkerOK'
    BY <1>1, <1>4, <1>7 DEF WorkerOK
  <2> QED
    BY <1>1, <1>3, <1>4, <1>7, <2>1, <2>2, CallerMoves
<1>8. CASE /\ Tearable(a) /\ Leaves(a) /\ torn' = TRUE
           /\ stopLock' = IF stopLock = a THEN "none" ELSE stopLock
  <2>1. stopLock' \in Actors \cup {"none"}
    BY <1>8 DEF WorkerOK
  <2> QED
    BY <1>1, <1>2, <1>4, <1>8, <2>1, CallerLeaves
<1> QED
  BY <1>5, <1>6, <1>7, <1>8 DEF Cancel

LEMMA SpawnKeeps ==
    ASSUME IInv, NEW a \in Callers, Spawn(a)
    PROVE  IInv'
<1> USE ObserverBounds DEF IInv
<1> DEFINE q == spent.procs + 1
<1>0. /\ q \in Procs /\ handle' = q /\ open' = (open \ {handle}) \cup {q}
      /\ closed' = closed \cup ({handle} \ {NoProc})
      /\ child' = [child EXCEPT ![q] = "boot"] /\ ~Alive(handle)
      /\ UNCHANGED <<ready, fatal, active, locks, doomed, answer, torn>>
  BY DEF Spawn
<1>1. /\ ActorsOK' /\ Only(a) /\ actor'[a].pc \in {"abort", "boot"}
      /\ actor'[a].p = actor[a].p
  BY MovesActor, AbortsActor DEF Spawn, Actors, Codes, Causes
<1>2. /\ "down" \in Actors /\ a \in Actors /\ a # "down"
      /\ actor["down"].pc = "idle" /\ actor[a].pc = "spawn"
  BY CallerAlone DEF Spawn
<1>3. SpentOK' /\ spent'.procs = q
  BY DEF SpentOK, Spawn, Spend, Procs
<1>4. ChildOK' /\ WorkerOK'
  BY <1>0, <1>3, Counts DEF ChildOK, WorkerOK
<1>5. \A p \in Procs : p # handle => ~Alive(p)
  BY DEF Accounts, NoLostChild
<1>6. \A p \in Procs : Alive(p)' => p = q
  BY <1>0, <1>5 DEF ChildOK
<1>7. q > spent.procs /\ q # NoProc /\ q \notin closed /\ handle # q /\ answer[q] = "none"
  BY <1>0, Counts DEF Accounts, Spawned, WorkerOK
<1>8. Accounts'
  <2>1. Spawned'
    <3>1. \A p \in Procs : p > q => child'[p] = "none" /\ answer'[p] = "none" /\ p \notin closed'
      BY <1>0, Counts DEF Accounts, Spawned, WorkerOK, Procs
    <3>2. \A b \in Actors : actor'[b].p <= q
      BY <1>1, Counts, ActorTyped DEF Accounts, Spawned, Only, Procs
    <3> QED
      BY <1>1, <1>3, <3>1, <3>2 DEF Accounts, Spawned, Only
  <2>2. ClosedIsOver'
    BY <1>0, <1>7 DEF Accounts, ClosedIsOver
  <2>3. NoLostChild' /\ NoLeakedSlot'
    BY <1>0 DEF Accounts, NoLostChild, NoLeakedSlot
  <2> QED
    BY <2>1, <2>2, <2>3 DEF Accounts
<1>9. RequestIsHolders'
  <2>1. ASSUME NEW p \in Procs, InHand(p)' PROVE p # q /\ InHand(p) /\ child'[p] = child[p]
    BY <1>0, <1>7, <2>1 DEF InHand, ChildOK
  <2>2. \A b \in Callers, p \in Procs : Engaged(b, p) => Engaged(b, p)'
    BY <1>1, <1>2 DEF Engaged, Only, Actors
  <2> QED
    BY <1>0, <2>1, <2>2 DEF RequestIsHolders
<1>10. DownAlone' /\ ShutdownClean'
  <2>1. \A b \in Callers : actor'[b].pc \notin {"graceful", "done"}
    BY <1>1 DEF DownAlone, Only, Actors
  <2>2. actor'["down"] = actor["down"]
    BY <1>1, <1>2 DEF Only
  <2> QED
    BY <1>2, <2>1, <2>2 DEF DownAlone, ShutdownClean
<1> QED
  BY <1>1, <1>3, <1>4, <1>8, <1>9, <1>10

(* The shutdown begins, or turns to the abort.                                 *)
LEMMA DownMoves ==
    ASSUME IInv, ActorsOK', Only("down"), DownAlone', ShutdownClean',
           actor'["down"].p \in {actor["down"].p, handle},
           actor'["down"].pc = "graceful" => actor'["down"].p # NoProc,
           actor'["down"].pc \in {"graceful", "abort", "done"},
           UNCHANGED <<held, ready, fatal, active, locks, childSide, spent>>
    PROVE  IInv'
<1> USE ObserverBounds DEF IInv
<1>1. SpentOK' /\ ChildOK' /\ WorkerOK'
  BY DEF SpentOK, ChildOK, WorkerOK
<1>2. Accounts'
  <2>1. Spawned'
    BY DEF Accounts, Spawned, Only, WorkerOK
  <2> QED
    BY <2>1 DEF Accounts, ClosedIsOver, NoLostChild, NoLeakedSlot
<1>3. RequestIsHolders'
  BY DEF RequestIsHolders, InHand, Engaged, Only, Actors
<1> QED
  BY <1>1, <1>2, <1>3

LEMMA ShutdownBeginsKeeps ==
    ASSUME IInv, ShutdownBegins
    PROVE  IInv'
<1> USE ObserverBounds DEF IInv
<1>1. "down" \in Actors /\ UNCHANGED <<held, ready, fatal, active, locks, childSide, spent>>
  BY DEF Actors, ShutdownBegins
<1>2. CASE /\ ready /\ Alive(handle) /\ ~active
           /\ actor' = [actor EXCEPT !["down"].pc = "graceful", !["down"].p = handle]
  <2>1. /\ ActorsOK' /\ Only("down")
        /\ actor'["down"].pc = "graceful" /\ actor'["down"].p = handle
    BY <1>1, <1>2, TargetsActor, Counts DEF WorkerOK, Codes
  <2>2. DownAlone' /\ ShutdownClean'
    BY <2>1 DEF DownAlone, ShutdownClean, Only, Actors, ShutdownBegins
  <2> QED
    BY <1>1, <1>2, <2>1, <2>2, DownMoves
<1>3. CASE Aborts("down", "shutdown")
  <2>1. /\ ActorsOK' /\ Only("down") /\ actor'["down"].pc = "abort"
        /\ actor'["down"].p = actor["down"].p /\ actor'["down"].then = "shutdown"
    BY <1>1, <1>3, AbortsActor DEF Causes
  <2>2. DownAlone' /\ ShutdownClean'
    BY <2>1 DEF DownAlone, ShutdownClean, Only, Actors, ShutdownBegins
  <2> QED
    BY <1>1, <2>1, <2>2, DownMoves
<1> QED
  BY <1>2, <1>3 DEF ShutdownBegins

LEMMA ShutdownAbortsKeeps ==
    ASSUME IInv, ShutdownAborts
    PROVE  IInv'
<1> USE ObserverBounds DEF IInv
<1>1. /\ "down" \in Actors /\ actor["down"].pc = "graceful"
      /\ UNCHANGED <<held, ready, fatal, active, locks, childSide, spent>>
      /\ \A a \in Callers : actor[a].pc = "idle"
  BY DEF Actors, ShutdownAborts, DownAlone
<1>2. CASE actor["down"].p \in closed /\ Moves("down", "done")
  <2>1. /\ ActorsOK' /\ Only("down")
        /\ actor'["down"].pc = "done" /\ actor'["down"].p = actor["down"].p
    BY <1>1, <1>2, MovesActor DEF Codes
  <2>2. handle = NoProc
    BY <1>1, <1>2 DEF DownAlone, Accounts, ClosedIsOver
  <2>3. open = {} /\ \A p \in Procs : ~Alive(p)
    BY <2>2, Counts DEF Accounts, NoLostChild, NoLeakedSlot, WorkerOK
  <2>4. DownAlone' /\ ShutdownClean'
    BY <1>1, <2>1, <2>3 DEF DownAlone, ShutdownClean, Only, Actors
  <2> QED
    BY <1>1, <2>1, <2>4, DownMoves
<1>3. CASE Aborts("down", "shutdown")
  <2>1. /\ ActorsOK' /\ Only("down") /\ actor'["down"].pc = "abort"
        /\ actor'["down"].p = actor["down"].p /\ actor'["down"].then = "shutdown"
    BY <1>1, <1>3, AbortsActor DEF Causes
  <2>2. DownAlone' /\ ShutdownClean'
    BY <1>1, <2>1 DEF DownAlone, ShutdownClean, Only, Actors
  <2> QED
    BY <1>1, <2>1, <2>2, DownMoves
<1> QED
  BY <1>2, <1>3 DEF ShutdownAborts

LEMMA SpawnFailsKeeps ==
    ASSUME IInv, NEW a \in Callers, SpawnFails(a)
    PROVE  IInv'
<1> USE ObserverBounds DEF IInv
<1>1. ActorsOK' /\ Only(a)
        /\ actor'[a].pc = (IF a = "down" THEN "done" ELSE "idle")
        /\ actor'[a].p = NoProc /\ actor'[a].then = "none"
        /\ startLock' = (IF startLock = a THEN "none" ELSE startLock)
        /\ slotOf' = (IF slotOf = a THEN "none" ELSE slotOf)
        /\ active' = (active /\ slotOf # a)
  BY LeavesActor DEF SpawnFails, Actors
<1>2. SpentOK' /\ spent'.procs = spent.procs
  BY DEF SpentOK, SpawnFails, CanFail, Spend
<1>3. ChildOK'
  BY DEF ChildOK, SpawnFails
<1>4. WorkerOK'
  BY <1>1, <1>2, Counts DEF WorkerOK, Fatals, SpawnFails
<1>5. Accounts'
  <2>1. Spawned'
    BY <1>1, <1>2, Counts DEF Accounts, WorkerOK, SpawnFails, Only, Spawned
  <2>2. ClosedIsOver'
    BY Counts DEF Accounts, WorkerOK, SpawnFails, ClosedIsOver
  <2>3. NoLostChild' /\ NoLeakedSlot'
    BY DEF Accounts, SpawnFails, NoLostChild, NoLeakedSlot
  <2> QED
    BY <2>1, <2>2, <2>3 DEF Accounts
<1>6. RequestIsHolders'
  BY DEF SpawnFails, RequestIsHolders
<1>7. DownAlone' /\ ShutdownClean'
  BY <1>1 DEF SpawnFails, Only, Actors, DownAlone, ShutdownClean
<1> QED
  BY <1>1, <1>2, <1>3, <1>4, <1>5, <1>6, <1>7

LEMMA BootReadyKeeps ==
    ASSUME IInv, NEW a \in Callers, BootReady(a)
    PROVE  IInv'
<1> USE ObserverBounds DEF IInv
<1>1. ActorsOK' /\ Only(a)
        /\ actor'[a].pc = "take" /\ actor'[a].p = actor[a].p /\ actor'[a].then = actor[a].then
  BY MovesActor DEF BootReady, Actors, Codes
<1>2. SpentOK' /\ spent'.procs = spent.procs
  BY DEF SpentOK, BootReady
<1>3. ChildOK'
  BY DEF ChildOK, BootReady
<1>4. WorkerOK'
  BY DEF WorkerOK, BootReady
<1>5. Accounts'
  <2>1. Spawned'
    BY <1>1 DEF Accounts, BootReady, Only, Spawned
  <2>2. ClosedIsOver'
    BY DEF Accounts, BootReady, ClosedIsOver
  <2>3. NoLostChild' /\ NoLeakedSlot'
    BY DEF Accounts, BootReady, NoLostChild, NoLeakedSlot
  <2> QED
    BY <2>1, <2>2, <2>3 DEF Accounts
<1>6. RequestIsHolders'
  BY <1>1 DEF BootReady, Only, Actors, NoLostChild, RequestIsHolders, InHand,
     Engaged
<1>7. DownAlone' /\ ShutdownClean'
  BY <1>1 DEF BootReady, Only, Actors, DownAlone, ShutdownClean
<1> QED
  BY <1>1, <1>2, <1>3, <1>4, <1>5, <1>6, <1>7

LEMMA UnavailableKeeps ==
    ASSUME IInv, NEW a \in Callers, Unavailable(a)
    PROVE  IInv'
<1> USE ObserverBounds DEF IInv
<1>1. ActorsOK' /\ Only(a)
        /\ actor'[a].pc = "abort" /\ actor'[a].p = actor[a].p /\ actor'[a].then = "failed"
  BY AbortsActor DEF Unavailable, Actors, Causes
<1>2. SpentOK' /\ spent'.procs = spent.procs
  BY DEF SpentOK, Unavailable
<1>3. ChildOK'
  BY DEF ChildOK, Unavailable
<1>4. WorkerOK'
  BY DEF WorkerOK, Unavailable
<1>5. Accounts'
  <2>1. Spawned'
    BY <1>1 DEF Accounts, Unavailable, Only, Spawned
  <2>2. ClosedIsOver'
    BY DEF Accounts, Unavailable, ClosedIsOver
  <2>3. NoLostChild' /\ NoLeakedSlot'
    BY DEF Accounts, Unavailable, NoLostChild, NoLeakedSlot
  <2> QED
    BY <2>1, <2>2, <2>3 DEF Accounts
<1>6. RequestIsHolders'
  BY DEF Unavailable, RequestIsHolders, InHand
<1>7. DownAlone' /\ ShutdownClean'
  BY <1>1 DEF Unavailable, Only, Actors, DownAlone, ShutdownClean
<1> QED
  BY <1>1, <1>2, <1>3, <1>4, <1>5, <1>6, <1>7

LEMMA SubmitKeeps ==
    ASSUME IInv, NEW a \in Callers, Submit(a)
    PROVE  IInv'
<1> USE ObserverBounds DEF IInv
<1>1. /\ ActorsOK' /\ Only(a) /\ actor'[a].pc = "poll" /\ actor'[a].p = handle
      /\ actor'[a].then = actor[a].then
  BY TargetsActor, Counts DEF Submit, Codes, WorkerOK, Actors
<1>2. SpentOK' /\ spent'.procs = spent.procs
  BY DEF SpentOK, Submit
<1>3. ChildOK'
  BY DEF ChildOK, Submit
<1>4. WorkerOK'
  BY DEF WorkerOK, Submit
<1>5. Accounts'
  <2>1. Spawned'
    BY <1>1, Counts DEF Accounts, WorkerOK, ChildOK, Submit, Only, Spawned
  <2>2. ClosedIsOver'
    BY DEF Accounts, Submit, ClosedIsOver
  <2>3. NoLostChild' /\ NoLeakedSlot'
    BY DEF Accounts, Submit, NoLostChild, NoLeakedSlot
  <2> QED
    BY <2>1, <2>2, <2>3 DEF Accounts
<1>6. RequestIsHolders'
  BY <1>1 DEF Submit, RequestIsHolders, InHand, Engaged
<1>7. DownAlone' /\ ShutdownClean'
  <2>1. actor["down"].pc = "idle" /\ "down" \in Actors /\ a # "down"
    BY CallerAlone DEF Submit
  <2>2. actor'["down"] = actor["down"]
    BY <1>1, <2>1 DEF Only
  <2>3. \A b \in Callers : actor'[b].pc \notin {"graceful", "done"}
    BY <1>1 DEF DownAlone, Only, Actors
  <2> QED
    BY <2>1, <2>2, <2>3 DEF DownAlone, ShutdownClean
<1> QED
  BY <1>1, <1>2, <1>3, <1>4, <1>5, <1>6, <1>7

LEMMA ObservedKeeps ==
    ASSUME IInv, NEW a \in Callers, Observed(a)
    PROVE  IInv'
<1> USE ObserverBounds DEF IInv
<1>1. ActorsOK' /\ Only(a)
        /\ actor'[a].pc = (IF a = "down" THEN "done" ELSE "idle")
        /\ actor'[a].p = NoProc /\ actor'[a].then = "none"
        /\ startLock' = (IF startLock = a THEN "none" ELSE startLock)
        /\ slotOf' = (IF slotOf = a THEN "none" ELSE slotOf)
        /\ active' = (active /\ slotOf # a)
  BY LeavesActor DEF Observed, Actors
<1>2. SpentOK' /\ spent'.procs = spent.procs
  BY DEF SpentOK, Observed, Answered
<1>3. ChildOK'
  BY DEF ChildOK, Observed
<1>4. WorkerOK'
  BY <1>1 DEF WorkerOK, Observed
<1>5. Accounts'
  <2>1. Spawned'
    BY <1>1, Counts DEF Accounts, Observed, Only, Spawned
  <2>2. ClosedIsOver'
    BY DEF Accounts, Observed, ClosedIsOver
  <2>3. NoLostChild' /\ NoLeakedSlot'
    BY DEF Accounts, Observed, NoLostChild, NoLeakedSlot
  <2> QED
    BY <2>1, <2>2, <2>3 DEF Accounts
<1>6. RequestIsHolders'
  BY <1>1 DEF ChildOK, Observed, Only, Actors, RequestIsHolders, InHand, Engaged
<1>7. DownAlone' /\ ShutdownClean'
  BY <1>1 DEF Observed, Only, Actors, ClosedIsOver, DownAlone, ShutdownClean
<1> QED
  BY <1>1, <1>2, <1>3, <1>4, <1>5, <1>6, <1>7

LEMMA ObserveFailsKeeps ==
    ASSUME IInv, NEW a \in Callers, ObserveFails(a)
    PROVE  IInv'
<1> USE ObserverBounds DEF IInv
<1>1. ActorsOK' /\ Only(a)
        /\ actor'[a].pc = "abort" /\ actor'[a].p = actor[a].p /\ actor'[a].then = "failed"
  BY AbortsActor DEF ObserveFails, Actors, Causes
<1>2. SpentOK' /\ spent'.procs = spent.procs
  BY DEF SpentOK, ObserveFails, Answered
<1>3. ChildOK'
  BY DEF ChildOK, ObserveFails
<1>4. WorkerOK'
  BY DEF WorkerOK, ObserveFails
<1>5. Accounts'
  <2>1. Spawned'
    BY <1>1 DEF Accounts, ObserveFails, Only, Spawned
  <2>2. ClosedIsOver'
    BY DEF Accounts, ObserveFails, ClosedIsOver
  <2>3. NoLostChild' /\ NoLeakedSlot'
    BY DEF Accounts, ObserveFails, NoLostChild, NoLeakedSlot
  <2> QED
    BY <2>1, <2>2, <2>3 DEF Accounts
<1>6. RequestIsHolders'
  BY <1>1 DEF ObserveFails, Only, Actors, ClosedIsOver, RequestIsHolders, InHand,
     Engaged
<1>7. DownAlone' /\ ShutdownClean'
  BY <1>1 DEF ObserveFails, Only, Actors, NoLostChild, DownAlone, ShutdownClean
<1> QED
  BY <1>1, <1>2, <1>3, <1>4, <1>5, <1>6, <1>7

LEMMA AbortNothingKeeps ==
    ASSUME IInv, NEW a \in Actors, AbortNothing(a)
    PROVE  IInv'
<1> USE ObserverBounds DEF IInv
<1>1. ActorsOK' /\ Only(a)
        /\ actor'[a].pc = (IF a = "down" THEN "done" ELSE "idle")
        /\ actor'[a].p = NoProc /\ actor'[a].then = "none"
        /\ startLock' = (IF startLock = a THEN "none" ELSE startLock)
        /\ slotOf' = (IF slotOf = a THEN "none" ELSE slotOf)
        /\ active' = (active /\ slotOf # a)
  BY LeavesActor DEF AbortNothing, Actors
<1>2. SpentOK' /\ spent'.procs = spent.procs
  BY DEF SpentOK, AbortNothing
<1>3. ChildOK'
  BY DEF ChildOK, AbortNothing
<1>4. WorkerOK'
  BY <1>1 DEF WorkerOK, Fatals, AbortNothing
<1>5. Accounts'
  <2>1. Spawned'
    BY <1>1, Counts DEF Accounts, AbortNothing, Only, Spawned
  <2>2. ClosedIsOver'
    BY DEF Accounts, AbortNothing, ClosedIsOver
  <2>3. NoLostChild' /\ NoLeakedSlot'
    BY DEF Accounts, AbortNothing, NoLostChild, NoLeakedSlot
  <2> QED
    BY <2>1, <2>2, <2>3 DEF Accounts
<1>6. RequestIsHolders'
  BY DEF Accounts, AbortNothing, Procs, NoProc, NoLostChild, RequestIsHolders,
     InHand
<1>7. DownAlone' /\ ShutdownClean'
  BY <1>1 DEF Accounts, WorkerOK, AbortNothing, Only, Actors, Procs, NoProc,
     NoLostChild, NoLeakedSlot, DownAlone, ShutdownClean
<1> QED
  BY <1>1, <1>2, <1>3, <1>4, <1>5, <1>6, <1>7

LEMMA AbortBeginsKeeps ==
    ASSUME IInv, NEW a \in Actors, AbortBegins(a)
    PROVE  IInv'
<1> USE ObserverBounds DEF IInv
<1>1. /\ ActorsOK' /\ Only(a) /\ actor'[a].pc = "signal" /\ actor'[a].p = handle
      /\ actor'[a].then = actor[a].then
  BY TargetsActor, Counts DEF AbortBegins, Codes, WorkerOK
<1>2. SpentOK' /\ spent'.procs = spent.procs
  BY DEF SpentOK, AbortBegins
<1>3. ChildOK'
  BY DEF ChildOK, AbortBegins
<1>4. WorkerOK'
  BY DEF WorkerOK, AbortBegins
<1>5. Accounts'
  <2>1. Spawned'
    BY <1>1, Counts DEF Accounts, WorkerOK, AbortBegins, Only, Spawned
  <2>2. ClosedIsOver'
    BY DEF Accounts, AbortBegins, ClosedIsOver
  <2>3. NoLostChild' /\ NoLeakedSlot'
    BY DEF Accounts, AbortBegins, NoLostChild, NoLeakedSlot
  <2> QED
    BY <2>1, <2>2, <2>3 DEF Accounts
<1>6. RequestIsHolders'
  <2>1. SUFFICES ASSUME fatal = "none", ~torn, NEW p \in Procs, InHand(p)'
                 PROVE  /\ slotOf \in Callers /\ Engaged(slotOf, p)'
                        /\ answer[p] = "ok" => child[p] = "idle"
    BY DEF AbortBegins, RequestIsHolders
  <2>2. InHand(p) /\ handle = p
    <3>1. InHand(p)
      BY <2>1 DEF InHand, AbortBegins
    <3>2. Alive(p)
      BY <3>1, Counts DEF InHand
    <3> QED
      BY <3>1, <3>2 DEF Accounts, NoLostChild
  <2>3. /\ slotOf \in Callers /\ Engaged(slotOf, p)
        /\ answer[p] = "ok" => child[p] = "idle"
    BY <2>1, <2>2 DEF RequestIsHolders
  <2>4. Engaged(slotOf, p)'
    BY <1>1, <2>2, <2>3 DEF Engaged, Only, Actors, AbortBegins
  <2> QED
    BY <2>3, <2>4
<1>7. DownAlone' /\ ShutdownClean'
  <2>1. CASE a = "down"
    <3>1. \A b \in Callers : actor'[b] = actor[b]
      BY <1>1, <2>1 DEF Only, Actors
    <3> QED
      BY <1>1, <2>1, <3>1 DEF AbortBegins, DownAlone, ShutdownClean
  <2>2. CASE a # "down"
    <3>1. a \in Callers /\ actor["down"].pc = "idle" /\ "down" \in Actors
      BY <2>2, CallerAlone DEF Actors, AbortBegins
    <3>2. actor'["down"] = actor["down"]
      BY <1>1, <2>2, <3>1 DEF Only
    <3>3. \A b \in Callers : actor'[b].pc \notin {"graceful", "done"}
      BY <1>1 DEF DownAlone, Only, Actors
    <3> QED
      BY <3>1, <3>2, <3>3 DEF DownAlone, ShutdownClean
  <2> QED
    BY <2>1, <2>2
<1> QED
  BY <1>1, <1>2, <1>3, <1>4, <1>5, <1>6, <1>7

LEMMA AbortSignalsKeeps ==
    ASSUME IInv, NEW a \in Actors, AbortSignals(a)
    PROVE  IInv'
<1> USE ObserverBounds DEF IInv
<1>1. ActorsOK' /\ Only(a)
        /\ actor'[a].pc = "confirm" /\ actor'[a].p = actor[a].p /\ actor'[a].then = actor[a].then
  BY MovesActor DEF AbortSignals, Actors, Codes
<1>2. SpentOK' /\ spent'.procs = spent.procs
  BY DEF SpentOK, AbortSignals, CanFail, Spend
<1>3. ChildOK'
  BY ActorTyped DEF ChildOK, AbortSignals
<1>4. WorkerOK'
  BY <1>2 DEF WorkerOK, AbortSignals
<1>5. Accounts'
  <2>1. Spawned'
    BY <1>1, <1>2 DEF Accounts, ChildOK, AbortSignals, Only, Spawned
  <2>2. ClosedIsOver'
    BY DEF Accounts, WorkerOK, ChildOK, AbortSignals, ClosedIsOver
  <2>3. NoLostChild' /\ NoLeakedSlot'
    BY DEF Accounts, ChildOK, AbortSignals, NoLostChild, NoLeakedSlot
  <2> QED
    BY <2>1, <2>2, <2>3 DEF Accounts
<1>6. RequestIsHolders'
  BY <1>1 DEF ChildOK, AbortSignals, Only, Actors, RequestIsHolders, InHand, Engaged
<1>7. DownAlone' /\ ShutdownClean'
  BY <1>1 DEF AbortSignals, Only, Actors, ClosedIsOver, DownAlone, ShutdownClean
<1> QED
  BY <1>1, <1>2, <1>3, <1>4, <1>5, <1>6, <1>7

LEMMA AbortConfirmsKeeps ==
    ASSUME IInv, NEW a \in Actors, AbortConfirms(a)
    PROVE  IInv'
<1> USE ObserverBounds DEF IInv
<1>1. ActorsOK' /\ Only(a)
        /\ actor'[a].pc = (IF a = "down" THEN "done" ELSE "idle")
        /\ actor'[a].p = NoProc /\ actor'[a].then = "none"
        /\ startLock' = (IF startLock = a THEN "none" ELSE startLock)
        /\ slotOf' = (IF slotOf = a THEN "none" ELSE slotOf)
        /\ active' = (active /\ slotOf # a)
  BY LeavesActor DEF AbortConfirms, Actors
<1>2. SpentOK' /\ spent'.procs = spent.procs
  BY DEF SpentOK, AbortConfirms
<1>3. ChildOK'
  BY DEF ChildOK, AbortConfirms
<1>4. WorkerOK'
  BY <1>1, ActorTyped, Counts DEF WorkerOK, Fatals, AbortConfirms, Accounts, Spawned
<1>5. Accounts'
  <2>1. Spawned'
    <3>1. actor[a].p <= spent.procs /\ actor[a].p \in Procs \cup {NoProc}
      BY ActorTyped DEF Accounts, Spawned, Actors
    <3>2. \A q \in Procs : q > spent'.procs => /\ child'[q] = "none" /\ answer'[q] = "none"
                                               /\ q \notin closed'
      BY Counts DEF Accounts, Spawned, AbortConfirms, Procs
    <3> QED
      BY <1>1, <1>2, <3>2, Counts DEF Accounts, Spawned, Only
  <2>2. ClosedIsOver'
    BY Counts DEF Accounts, WorkerOK, AbortConfirms, Spawned, ClosedIsOver
  <2>3. NoLostChild' /\ NoLeakedSlot'
    BY DEF Accounts, AbortConfirms, NoLostChild, NoLeakedSlot
  <2> QED
    BY <2>1, <2>2, <2>3 DEF Accounts
<1>6. RequestIsHolders'
  BY <1>1 DEF Accounts, ChildOK, AbortConfirms, Only, Actors, Procs, NoProc,
     NoLostChild, RequestIsHolders, InHand, Engaged
<1>7. DownAlone' /\ ShutdownClean'
  BY <1>1, <1>4 DEF Accounts, WorkerOK, AbortConfirms, Only, Actors, Procs, NoProc,
     NoLostChild, NoLeakedSlot, DownAlone, ShutdownClean
<1> QED
  BY <1>1, <1>2, <1>3, <1>4, <1>5, <1>6, <1>7

LEMMA AbortGivesUpKeeps ==
    ASSUME IInv, NEW a \in Actors, AbortGivesUp(a)
    PROVE  IInv'
<1> USE ObserverBounds DEF IInv
<1>1. ActorsOK' /\ Only(a)
        /\ actor'[a].pc = (IF a = "down" THEN "done" ELSE "idle")
        /\ actor'[a].p = NoProc /\ actor'[a].then = "none"
        /\ startLock' = (IF startLock = a THEN "none" ELSE startLock)
        /\ slotOf' = (IF slotOf = a THEN "none" ELSE slotOf)
        /\ active' = (active /\ slotOf # a)
  BY LeavesActor DEF AbortGivesUp, Actors
<1>2. SpentOK' /\ spent'.procs = spent.procs
  BY DEF SpentOK, AbortGivesUp, Finalized
<1>3. ChildOK'
  BY DEF ChildOK, AbortGivesUp
<1>4. WorkerOK'
  BY <1>1, Counts DEF WorkerOK, Fatals, AbortGivesUp, Finalized
<1>5. Accounts'
  <2>1. Spawned'
    BY <1>1, Counts DEF Accounts, WorkerOK, AbortGivesUp, Finalized, Only, Spawned
  <2>2. ClosedIsOver'
    <3>1. UNCHANGED <<held, childSide>>
      BY ActorTyped DEF AbortGivesUp, Finalized, Accounts, NoLostChild
    <3> QED
      BY <3>1 DEF Accounts, ClosedIsOver
  <2>3. NoLostChild' /\ NoLeakedSlot'
    BY DEF Accounts, AbortGivesUp, Finalized, NoLostChild, NoLeakedSlot
  <2> QED
    BY <2>1, <2>2, <2>3 DEF Accounts
<1>6. RequestIsHolders'
  BY <1>1 DEF Accounts, AbortGivesUp, Finalized, Only, Actors, NoLostChild,
     RequestIsHolders, InHand, Engaged
<1>7. DownAlone' /\ ShutdownClean'
  BY <1>1, <1>4 DEF Accounts, WorkerOK, Fatals, AbortGivesUp, Finalized, Only,
     Actors, Procs, NoProc, NoLostChild, NoLeakedSlot, DownAlone, ShutdownClean
<1> QED
  BY <1>1, <1>2, <1>3, <1>4, <1>5, <1>6, <1>7

LEMMA AbortRaisesKeeps ==
    ASSUME IInv, NEW a \in Actors, AbortRaises(a)
    PROVE  IInv'
<1> USE ObserverBounds DEF IInv
<1>1. ActorsOK' /\ Only(a)
        /\ actor'[a].pc = (IF a = "down" THEN "done" ELSE "idle")
        /\ actor'[a].p = NoProc /\ actor'[a].then = "none"
        /\ startLock' = (IF startLock = a THEN "none" ELSE startLock)
        /\ slotOf' = (IF slotOf = a THEN "none" ELSE slotOf)
        /\ active' = (active /\ slotOf # a)
  BY LeavesActor DEF AbortRaises, Actors
<1>2. SpentOK' /\ spent'.procs = spent.procs
  BY DEF SpentOK, AbortRaises
<1>3. ChildOK'
  BY DEF ChildOK, AbortRaises
<1>4. WorkerOK'
  BY <1>1 DEF WorkerOK, AbortRaises
<1>5. Accounts'
  <2>1. Spawned'
    BY <1>1, Counts DEF Accounts, AbortRaises, Only, Spawned
  <2>2. ClosedIsOver'
    BY DEF Accounts, AbortRaises, ClosedIsOver
  <2>3. NoLostChild' /\ NoLeakedSlot'
    BY DEF Accounts, AbortRaises, NoLostChild, NoLeakedSlot
  <2> QED
    BY <2>1, <2>2, <2>3 DEF Accounts
<1>6. RequestIsHolders'
  BY <1>1 DEF Accounts, AbortRaises, Only, Actors, Procs, NoProc, ClosedIsOver,
     RequestIsHolders, InHand, Engaged
<1>7. DownAlone' /\ ShutdownClean'
  BY <1>1 DEF Accounts, WorkerOK, AbortRaises, Only, Actors, Procs, NoProc,
     ClosedIsOver, NoLostChild, NoLeakedSlot, DownAlone, ShutdownClean
<1> QED
  BY <1>1, <1>2, <1>3, <1>4, <1>5, <1>6, <1>7

LEMMA ChildReadyKeeps ==
    ASSUME IInv, NEW p \in Procs, ChildReady(p)
    PROVE  IInv'
<1> USE ObserverBounds DEF IInv
<1>1. ActorsOK' /\ UNCHANGED actor
  BY DEF ChildReady, ActorsOK, ActorState
<1>2. SpentOK' /\ spent'.procs = spent.procs
  BY DEF SpentOK, ChildReady, CanFail, Spend
<1>3. ChildOK'
  BY DEF ChildOK, ChildReady
<1>4. WorkerOK'
  BY <1>2 DEF WorkerOK, ChildReady
<1>5. Accounts'
  <2>1. Spawned'
    BY <1>2 DEF Accounts, ChildOK, ChildReady, Spawned
  <2>2. ClosedIsOver'
    BY DEF Accounts, WorkerOK, ChildOK, ChildReady, ClosedIsOver
  <2>3. NoLostChild' /\ NoLeakedSlot'
    BY DEF Accounts, ChildOK, ChildReady, NoLostChild, NoLeakedSlot
  <2> QED
    BY <2>1, <2>2, <2>3 DEF Accounts
<1>6. RequestIsHolders'
  <2>1. ASSUME NEW q \in Procs, InHand(q)'
        PROVE  InHand(q) /\ (answer'[q] = "ok" => answer[q] = "ok" /\ q # p)
    BY <2>1 DEF InHand, ChildReady, ChildOK
  <2>2. ASSUME NEW q \in Procs, NEW b PROVE Engaged(b, q)' = Engaged(b, q)
    BY <1>1 DEF Engaged
  <2> QED
    BY <2>1, <2>2 DEF RequestIsHolders, ChildReady, ChildOK
<1>7. DownAlone' /\ ShutdownClean'
  BY DEF ChildOK, ChildReady, DownAlone, ShutdownClean
<1> QED
  BY <1>1, <1>2, <1>3, <1>4, <1>5, <1>6, <1>7

LEMMA ChildAnswersKeeps ==
    ASSUME IInv, NEW p \in Procs, ChildAnswers(p)
    PROVE  IInv'
<1> USE ObserverBounds DEF IInv
<1>1. ActorsOK' /\ UNCHANGED actor
  BY DEF ChildAnswers, ActorsOK, ActorState
<1>2. SpentOK' /\ spent'.procs = spent.procs
  BY DEF SpentOK, ChildAnswers
<1>3. ChildOK'
  BY DEF ChildOK, ChildAnswers
<1>4. WorkerOK'
  BY DEF WorkerOK, ChildAnswers
<1>5. Accounts'
  <2>1. Spawned'
    BY DEF Accounts, ChildOK, ChildAnswers, Spawned
  <2>2. ClosedIsOver'
    BY DEF Accounts, WorkerOK, ChildOK, ChildAnswers, ClosedIsOver
  <2>3. NoLostChild' /\ NoLeakedSlot'
    BY DEF Accounts, ChildOK, ChildAnswers, NoLostChild, NoLeakedSlot
  <2> QED
    BY <2>1, <2>2, <2>3 DEF Accounts
<1>6. RequestIsHolders'
  BY DEF ChildOK, ChildAnswers, Spawned, RequestIsHolders, InHand, Engaged
<1>7. DownAlone' /\ ShutdownClean'
  BY DEF ChildOK, ChildAnswers, NoProc, DownAlone, ShutdownClean
<1> QED
  BY <1>1, <1>2, <1>3, <1>4, <1>5, <1>6, <1>7

LEMMA ChildDiesKeeps ==
    ASSUME IInv, NEW p \in Procs, ChildDies(p)
    PROVE  IInv'
<1> USE ObserverBounds DEF IInv
<1>1. ActorsOK' /\ UNCHANGED actor
  BY DEF ChildDies, ActorsOK, ActorState
<1>2. SpentOK' /\ spent'.procs = spent.procs
  BY DEF SpentOK, ChildDies, CanFail, Spend
<1>3. ChildOK'
  BY DEF ChildOK, ChildDies
<1>4. WorkerOK'
  BY <1>2 DEF WorkerOK, ChildDies
<1>5. Accounts'
  <2>1. Spawned'
    BY <1>2 DEF Accounts, ChildDies, Spawned
  <2>2. ClosedIsOver'
    BY DEF Accounts, ChildDies, ClosedIsOver
  <2>3. NoLostChild' /\ NoLeakedSlot'
    BY DEF Accounts, ChildDies, NoLostChild, NoLeakedSlot
  <2> QED
    BY <2>1, <2>2, <2>3 DEF Accounts
<1>6. RequestIsHolders'
  BY DEF Accounts, ChildOK, ChildDies, Procs, NoProc, NoLostChild, RequestIsHolders,
     InHand
<1>7. DownAlone' /\ ShutdownClean'
  BY DEF ChildDies, DownAlone, ShutdownClean
<1> QED
  BY <1>1, <1>2, <1>3, <1>4, <1>5, <1>6, <1>7

LEMMA ReadPidKeeps ==
    ASSUME IInv, ReadPid
    PROVE  IInv'
<1> USE ObserverBounds DEF IInv
<1>1. ActorsOK' /\ UNCHANGED actor
  BY DEF ReadPid, ActorsOK, ActorState
<1>2. SpentOK' /\ spent'.procs = spent.procs
  BY DEF SpentOK, ReadPid
<1>3. ChildOK'
  BY DEF ChildOK, ReadPid
<1>4. WorkerOK'
  BY Counts DEF WorkerOK, ReadPid
<1>5. Accounts'
  <2>1. Spawned'
    BY Counts DEF Accounts, WorkerOK, ReadPid, Spawned
  <2>2. ClosedIsOver'
    BY Counts DEF Accounts, WorkerOK, ReadPid, ClosedIsOver
  <2>3. NoLostChild' /\ NoLeakedSlot'
    BY DEF Accounts, ReadPid, NoLostChild, NoLeakedSlot
  <2> QED
    BY <2>1, <2>2, <2>3 DEF Accounts
<1>6. RequestIsHolders'
  BY DEF Accounts, ReadPid, Procs, NoProc, NoLostChild, RequestIsHolders, InHand
<1>7. DownAlone' /\ ShutdownClean'
  BY DEF ReadPid, DownAlone, ShutdownClean
<1> QED
  BY <1>1, <1>2, <1>3, <1>4, <1>5, <1>6, <1>7

LEMMA KillChildKeeps ==
    ASSUME IInv, KillChild
    PROVE  IInv'
<1> USE ObserverBounds DEF IInv
<1>1. ActorsOK' /\ UNCHANGED actor
  BY DEF KillChild, ActorsOK, ActorState
<1>2. SpentOK' /\ spent'.procs = spent.procs
  BY DEF SpentOK, KillChild, Spend
<1>3. ChildOK'
  BY DEF ChildOK, KillChild
<1>4. WorkerOK'
  BY <1>2 DEF WorkerOK, KillChild
<1>5. Accounts'
  <2>1. Spawned'
    BY <1>2 DEF Accounts, KillChild, Spawned
  <2>2. ClosedIsOver'
    BY DEF Accounts, KillChild, ClosedIsOver
  <2>3. NoLostChild' /\ NoLeakedSlot'
    BY DEF Accounts, KillChild, NoLostChild, NoLeakedSlot
  <2> QED
    BY <2>1, <2>2, <2>3 DEF Accounts
<1>6. RequestIsHolders'
  BY DEF Accounts, ChildOK, KillChild, Procs, NoProc, NoLostChild, RequestIsHolders,
     InHand
<1>7. DownAlone' /\ ShutdownClean'
  BY DEF KillChild, DownAlone, ShutdownClean
<1> QED
  BY <1>1, <1>2, <1>3, <1>4, <1>5, <1>6, <1>7

LEMMA ChildExitsKeeps ==
    ASSUME IInv, ChildExits
    PROVE  IInv'
<1> USE ObserverBounds DEF IInv
<1>1. ActorsOK' /\ UNCHANGED actor
  BY DEF ChildExits, ActorsOK, ActorState
<1>2. SpentOK' /\ spent'.procs = spent.procs
  BY DEF SpentOK, ChildExits
<1>3. ChildOK'
  BY DEF ChildOK, ChildExits
<1>4. WorkerOK'
  BY DEF WorkerOK, ChildExits
<1>5. Accounts'
  <2>1. Spawned'
    BY DEF Accounts, ChildExits, Spawned
  <2>2. ClosedIsOver'
    BY DEF Accounts, ChildExits, ClosedIsOver
  <2>3. NoLostChild' /\ NoLeakedSlot'
    BY DEF Accounts, ChildExits, NoLostChild, NoLeakedSlot
  <2> QED
    BY <2>1, <2>2, <2>3 DEF Accounts
<1>6. RequestIsHolders'
  BY <1>3 DEF Accounts, ChildOK, ChildExits, Procs, NoProc, NoLostChild,
     RequestIsHolders, InHand
<1>7. DownAlone' /\ ShutdownClean'
  BY DEF ChildExits, DownAlone, ShutdownClean
<1> QED
  BY <1>1, <1>2, <1>3, <1>4, <1>5, <1>6, <1>7

LEMMA ShutdownFinalizesKeeps ==
    ASSUME IInv, ShutdownFinalizes
    PROVE  IInv'
<1> USE ObserverBounds DEF IInv
<1>1. ActorsOK' /\ Only("down")
        /\ actor'["down"].pc = "done" /\ actor'["down"].p = actor["down"].p
        /\ actor'["down"].then = actor["down"].then
  BY MovesActor DEF ShutdownFinalizes, Actors, Codes
<1>2. SpentOK' /\ spent'.procs = spent.procs
  BY DEF SpentOK, ShutdownFinalizes
<1>3. ChildOK'
  BY DEF ChildOK, ShutdownFinalizes
<1>4. WorkerOK'
  BY ActorTyped, Counts DEF WorkerOK, Fatals, ShutdownFinalizes, Actors, Accounts,
     Spawned
<1>5. Accounts'
  <2>1. Spawned'
    <3>1. actor["down"].p <= spent.procs /\ actor["down"].p \in Procs \cup {NoProc}
      BY ActorTyped DEF Accounts, Spawned, Actors
    <3>2. \A q \in Procs : q > spent'.procs => /\ child'[q] = "none" /\ answer'[q] = "none"
                                               /\ q \notin closed'
      BY <3>1, Counts DEF Accounts, Spawned, ShutdownFinalizes, Procs
    <3> QED
      BY <1>1, <1>2, <3>2 DEF Accounts, Spawned, Only
  <2>2. ClosedIsOver'
    BY Counts DEF Accounts, WorkerOK, ShutdownFinalizes, Spawned, ClosedIsOver,
       NoLeakedSlot, Actors
  <2>3. NoLostChild' /\ NoLeakedSlot'
    BY DEF Accounts, ShutdownFinalizes, NoLostChild, NoLeakedSlot, DownAlone
  <2> QED
    BY <2>1, <2>2, <2>3 DEF Accounts
<1>6. RequestIsHolders'
  BY DEF Accounts, ShutdownFinalizes, Procs, NoProc, NoLostChild, RequestIsHolders,
     InHand, DownAlone
<1>7. DownAlone' /\ ShutdownClean'
  BY <1>1 DEF Accounts, ShutdownFinalizes, Only, Actors, ClosedIsOver, NoLostChild,
     NoLeakedSlot, DownAlone, ShutdownClean
<1> QED
  BY <1>1, <1>2, <1>3, <1>4, <1>5, <1>6, <1>7

-----------------------------------------------------------------------------
LEMMA InitHolds == Init => IInv
<1> SUFFICES ASSUME Init PROVE IInv
  OBVIOUS
<1> USE ObserverBounds DEF Init
<1>1. Rest \in ActorState
  BY DEF Rest, ActorState, Codes, Causes
<1>2. ActorsOK /\ \A a \in Actors : actor[a] = Rest
  BY <1>1 DEF ActorsOK
<1>3. SpentOK /\ ChildOK /\ WorkerOK
  <2>1. SpentOK
    BY DEF SpentOK
  <2>2. ChildOK
    BY DEF ChildOK
  <2>3. WorkerOK
    BY <2>1, Counts DEF WorkerOK, Fatals
  <2> QED
    BY <2>1, <2>2, <2>3
<1>4. "down" \in Actors /\ Callers \subseteq Actors
  BY DEF Actors
<1>5. Accounts
  BY DEF Accounts, Spawned, ClosedIsOver, NoLostChild, NoLeakedSlot, Rest, NoProc
<1>6. RequestIsHolders /\ DownAlone /\ ShutdownClean
  BY <1>4 DEF RequestIsHolders, InHand, DownAlone, ShutdownClean, Rest
<1> QED
  BY <1>2, <1>3, <1>5, <1>6 DEF IInv

LEMMA StutterKeeps == ASSUME IInv, UNCHANGED vars PROVE IInv'
BY DEF vars, IInv, ActorsOK, SpentOK, ChildOK, WorkerOK, Accounts, Spawned,
   ClosedIsOver, NoLostChild, NoLeakedSlot, RequestIsHolders, InHand, Engaged,
   DownAlone, ShutdownClean

LEMMA StepKeeps == IInv /\ [Next]_vars => IInv'
<1> SUFFICES ASSUME IInv, [Next]_vars PROVE IInv'
  OBVIOUS
<1>1. ASSUME NEW a \in Callers, Caller(a) PROVE IInv'
  BY <1>1, LocksKeeps, SpawnNothingKeeps, SpawnKeeps, SpawnFailsKeeps, RefusedKeeps,
     BootReadyKeeps, BootAbortsKeeps, UnavailableKeeps, SubmitKeeps, ObservedKeeps,
     ObserveFailsKeeps DEF Caller
<1>2. ASSUME NEW a \in Actors, Abort(a) PROVE IInv'
  BY <1>2, AbortNothingKeeps, AbortBeginsKeeps, AbortSignalsKeeps,
     AbortConfirmsKeeps, AbortGivesUpKeeps, AbortRaisesKeeps DEF Abort
<1>3. ASSUME Shutdown PROVE IInv'
  BY <1>3, ShutdownFinalizesKeeps, ShutdownAbortsKeeps DEF Shutdown
<1> QED
  BY <1>1, <1>2, <1>3, BeginKeeps, CancelKeeps, ChildReadyKeeps, ChildAnswersKeeps,
     ChildDiesKeeps, ReadPidKeeps, KillChildKeeps, ShutdownBeginsKeeps,
     ChildExitsKeeps, StutterKeeps DEF Next

LEMMA WorkerInvFollows == ASSUME IInv PROVE WorkerInv
<1> USE DEF IInv
<1>1. QuietWhenIdle
  BY ObserverBounds DEF QuietWhenIdle, RequestIsHolders, InHand
<1> QED
  BY <1>1, TypeParts DEF WorkerInv, Accounts

(* The worker keeps account of its child and its slot: a live child is the one *)
(* it holds, no shared slot outlives its process, no child works on a request  *)
(* that nobody waits for unless the worker is fatal or an abort was torn, and  *)
(* a shutdown that reports no failure leaves neither child nor slot.           *)
THEOREM WorkerInvHolds == Spec => []WorkerInv
<1>1. Spec => []IInv
  BY InitHolds, StepKeeps, PTL DEF Spec
<1> QED
  BY <1>1, WorkerInvFollows, PTL

=============================================================================
