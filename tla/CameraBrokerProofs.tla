------------------------- MODULE CameraBrokerProofs -------------------------
(***************************************************************************)
(* What the CameraBroker runs check on a few brokers, reads and faults     *)
(* holds of any number of them.                                            *)
(*                                                                         *)
(* The invariant has two halves.  Answers says who uses which broker: who  *)
(* refers to one (OwnInv), at which places in which mode (ModeInv), who    *)
(* has its slot (SlotInv), what was aborted (AbortInv), which process it   *)
(* holds (HandleInv), and so that what is in a pipe is of the request      *)
(* under way (PipeInv).  It is inductive by itself.  Children rests on it  *)
(* and says which child may be alive: that of the registered broker        *)
(* (RegisteredInv, ChildInv, StopInv), none of a held candidate but the    *)
(* one under maintenance (MaintInv), none that a bulk release overtook     *)
(* (OvertakenInv).                                                         *)
(***************************************************************************)
EXTENDS CameraBroker, TLAPS

(* TypeOK, variable by variable.                                              *)
BrokerState ==
    [cfg : Bindings \cup {0}, handle : Nat, alive : BOOLEAN, ready : BOOLEAN, fatal : BOOLEAN,
     quiesced : BOOLEAN, abort : BOOLEAN, slot : Users \cup {"free"}, announced : BOOLEAN,
     doomed : BOOLEAN, req : Nat, resp : Nat]
ReaderState ==
    [pc : {"idle", "resolve", "take", "wait", "cleanup", "stop", "stopping", "join", "failed",
           "retry", "restart", "start", "boot", "unslot", "check"},
     mode : {"read", "restart"}, own : 0 .. MaxBrokers, stop : Stops,
     cfg : Bindings \cup {0}, tries : 0 .. 1, gen : 0 .. 1, cancelled : BOOLEAN, dead : BOOLEAN]
SyncState ==
    [pc : {"idle", "resolve", "take", "wait", "unslot", "recover", "pop", "retry"},
     kind : {"read", "status"}, own : 0 .. MaxBrokers, cfg : Bindings \cup {0}, tries : 0 .. 1]
ThreadState ==
    [pc : {"none", "start", "boot", "poll", "done"}, b : 0 .. MaxBrokers, p : Nat, n : Nat,
     ok : BOOLEAN, got : Nat]
MaintState ==
    [pc : {"idle", "begin", "release", "held"}, c : Bindings \cup {0}, b : 0 .. MaxBrokers]
FaultState == [spent : 0 .. MaxFaults, reads : 0 .. MaxReads, calls : SUBSET Calls]

BrokersOK == broker \in [Brokers -> BrokerState]
ReaderOK == reader \in ReaderState
SyncOK == sync \in SyncState
ThreadsOK == thread \in [Users -> ThreadState]
MaintOK == maint \in MaintState
BooksOK ==
    /\ registered \in 0 .. made /\ made \in 0 .. MaxBrokers
    /\ started \in Nat /\ sent \in Nat
RestOK ==
    /\ scene \in Scenes /\ generation \in 0 .. 1
    /\ binding \in Bindings /\ held \subseteq Bindings /\ faults \in FaultState
Typed == BrokersOK /\ ReaderOK /\ SyncOK /\ ThreadsOK /\ MaintOK /\ BooksOK /\ RestOK

(* Who refers to a broker refers to one that was made.                        *)
Stopping(whys) == reader.pc \in {"stop", "stopping"} /\ reader.stop.why \in whys

(* A call that has resolved its broker has one, and one that was made.        *)
OwnInv ==
    /\ reader.own <= made /\ reader.stop.b <= made /\ sync.own <= made /\ maint.b <= made
    /\ \A u \in Users : thread[u].b <= made
    /\ \/ reader.pc \in {"take", "wait", "cleanup", "join", "restart"}
       \/ reader.pc \in {"start", "boot", "unslot", "check"} \/ reader.mode = "restart"
       \/ Stopping({"outer", "cleanup", "confirm"})
       => reader.own # NoBroker
    /\ reader.pc \in {"stop", "stopping"} =>
        reader.stop.b # NoBroker /\ reader.stop.why # "none"
    /\ sync.pc \in {"take", "wait", "unslot", "pop"} => sync.own # NoBroker
    /\ maint.pc \in {"begin", "release"} => maint.b # NoBroker

(* At which places a reader reads and at which it restarts; a cleanup and the *)
(* stop of a failed restart are of its own broker.                            *)
ModeInv ==
    /\ reader.pc \in {"wait", "cleanup", "join", "failed", "retry", "restart"}
           \/ Stopping({"outer", "cleanup", "failed", "confirm"})
        => reader.mode = "read"
    /\ reader.pc \in {"start", "boot", "unslot", "check"} \/ Stopping({"startup", "invalidated"})
        => reader.mode = "restart"
    /\ Stopping({"cleanup", "startup", "invalidated"}) => reader.stop.b = reader.own
    /\ reader.gen <= generation

(* A request thread has the slot of its broker, a restart the one of its own. *)
ReadUnderWay == reader.pc \in {"wait", "cleanup", "join"} \/ Stopping({"outer", "cleanup"})
RestartUnderWay == reader.pc \in {"start", "boot", "unslot"} \/ Stopping({"startup"})

(* A request thread runs exactly while its call is at one of these places, on *)
(* the broker of the call, whose slot the call has.                           *)
SlotInv ==
    /\ thread["reader"].pc # "none" <=> ReadUnderWay
    /\ ReadUnderWay => thread["reader"].b = reader.own
    /\ ReadUnderWay \/ RestartUnderWay => broker[reader.own].slot = "reader"
    /\ thread["sync"].pc # "none" <=> sync.pc \in {"wait", "unslot"}
    /\ sync.pc \in {"wait", "unslot"} =>
        thread["sync"].b = sync.own /\ broker[sync.own].slot = "sync"

(* What is being stopped, or has been, cannot be used.                        *)
AbortInv ==
    /\ reader.pc = "join" \/ (reader.pc = "stopping" /\ Stopping({"cleanup"}))
        => broker[reader.own].abort
    /\ sync.pc = "unslot" => broker[sync.own].abort
    /\ reader.pc = "stopping" =>
        /\ reader.stop.p <= started
        /\ reader.stop.p # 0 /\ broker[reader.stop.b].handle = reader.stop.p =>
             broker[reader.stop.b].doomed

(* Processes are named in the order they were started, and a live child has a *)
(* name.                                                                      *)
HandleInv ==
    \A b \in Brokers : /\ broker[b].handle <= started
                       /\ broker[b].alive => broker[b].handle # 0 /\ b <= made

(* What is in a pipe is of the request under way.                             *)
Clean(b) == broker[b].req = 0 /\ broker[b].resp = 0

(* What is in the pipe of b is the request of thread t, or its answer; or t   *)
(* has failed and nobody will read it.                                        *)
Carries(b, t) ==
    /\ t.b = b
    /\ \/ t.pc = "done" /\ ~t.ok
       \/ /\ t.pc = "poll"
          /\ \/ broker[b].req = 0 /\ broker[b].resp = t.n
             \/ broker[b].req = t.n /\ broker[b].resp = 0
PipeOf(b) ==
    \/ Clean(b)
    \/ /\ broker[b].handle # 0 /\ ~broker[b].doomed /\ ~broker[b].abort
       /\ broker[b].slot # "free" /\ Carries(b, thread[broker[b].slot])
PipeInv == \A b \in Brokers : PipeOf(b)

(* The first half: every answer is that of the request that is under way.     *)
Answers == Typed /\ OwnInv /\ ModeInv /\ SlotInv /\ AbortInv /\ HandleInv /\ PipeInv
           /\ AnswersOwnRequest

-----------------------------------------------------------------------------
(* A read of sync holds the I/O lock, so that the reader is idle; what was    *)
(* not called does not run.                                                   *)
Exclusive ==
    /\ "status" \notin scene /\ sync.pc # "idle" => sync.kind = "read" /\ reader.pc = "idle"
    /\ scene \cap {"status", "read"} = {} => sync.pc = "idle"
    /\ "release" \notin scene => generation = 0

(* Neither a status request nor a bulk release has happened: only then is the *)
(* registry the whole truth.                                                  *)
Calm == "status" \notin scene /\ generation = 0

(* In between, the broker a call works with is the registered one, unless the *)
(* read was cancelled.                                                        *)
RegisteredInv ==
    Calm =>
    /\ reader.pc \in {"take", "wait", "start", "boot", "unslot", "check"} \/ Stopping({"startup"})
        => registered = reader.own
    /\ Stopping({"cleanup"}) /\ ~reader.cancelled => registered = reader.own
    /\ Stopping({"swap", "failed", "outer", "confirm"}) => registered = reader.stop.b
    /\ Stopping({"outer"}) => reader.stop.b = reader.own /\ reader.cancelled
    /\ reader.pc = "cleanup" => reader.cancelled
    /\ ~Stopping({"invalidated"})
    /\ sync.pc \in {"take", "wait", "unslot", "pop"} => registered = sync.own

(* A cancelled read is on its way to stop its own broker.                     *)
Cleaning(b) ==
    reader.own = b /\ reader.cancelled /\ (reader.pc = "cleanup" \/ Stopping({"cleanup"}))

(* A child that need not be registered: it outlived its kill, or is about to  *)
(* be stopped.                                                                *)
Kept(b) == broker[b].fatal \/ Cleaning(b)

(* A live child is that of the registered broker, or kept.                    *)
ChildInv ==
    Calm =>
    /\ \A b \in Brokers : broker[b].alive => registered = b \/ Kept(b)
    /\ sync.pc = "pop" => ~broker[sync.own].alive

(* A stop that is confirmed found the child of its broker, not an earlier     *)
(* one; nothing will start the broker that a failed read stops.               *)
StopInv ==
    /\ /\ reader.pc = "stopping" /\ broker[reader.stop.b].alive
       /\ (Calm /\ ~Stopping({"outer"})) \/ ("status" \notin scene /\ reader.mode = "restart")
       => broker[reader.stop.b].handle = reader.stop.p
    /\ /\ Calm /\ (reader.pc \in {"cleanup", "join"} \/ Stopping({"cleanup"}))
       /\ thread["reader"].pc = "start"
       => broker[reader.own].fatal

(* b may yet start a child.                                                   *)
Starter(b) ==
    \/ reader.own = b /\ reader.pc \in {"take", "start"}
    \/ sync.own = b /\ sync.pc = "take"
    \/ \E u \in Users : thread[u].b = b /\ thread[u].pc = "start" /\ ~broker[b].fatal

(* Of a held candidate only the broker under maintenance may start, and only  *)
(* until it is quiesced.                                                      *)
MaintInv ==
    Calm /\ maint.pc # "idle" =>
    /\ maint.c \in held
    /\ maint.pc \in {"release", "held"} /\ maint.b # NoBroker => broker[maint.b].quiesced
    /\ \A b \in Brokers : broker[b].cfg = maint.c =>
        /\ Starter(b) => b = maint.b
        /\ broker[b].alive /\ (b # maint.b \/ maint.pc = "held") => Kept(b)

(* The reader restarts, and a bulk release came since it began.               *)
Overtaken ==
    scene \cap {"status", "read"} = {} /\ reader.mode = "restart" /\ reader.gen < generation

(* A child that lives on after that is fatal or will be stopped by the        *)
(* restart.                                                                   *)
OvertakenInv ==
    Overtaken => \A b \in Brokers : broker[b].alive =>
        \/ broker[b].fatal
        \/ /\ b = reader.own
           /\ reader.pc \in {"boot", "check"} \/ Stopping({"startup", "invalidated"})

(* The second half: no live child escapes the books.                          *)
Children == Exclusive /\ RegisteredInv /\ ChildInv /\ StopInv /\ MaintInv /\ OvertakenInv

(* The inductive invariant.                                                   *)
IInv == Answers /\ Children

-----------------------------------------------------------------------------
(* What a step leaves alone.                                                  *)

LEMMA TypedFrame ==
    /\ UNCHANGED broker => (BrokersOK => BrokersOK')
    /\ UNCHANGED reader => (ReaderOK => ReaderOK')
    /\ UNCHANGED sync => (SyncOK => SyncOK')
    /\ UNCHANGED thread => (ThreadsOK => ThreadsOK')
    /\ UNCHANGED maint => (MaintOK => MaintOK')
    /\ UNCHANGED <<registered, made, started, sent>> => (BooksOK => BooksOK')
    /\ UNCHANGED <<scene, generation, binding, held, faults>> => (RestOK => RestOK')
BY DEF BrokersOK, ReaderOK, SyncOK, ThreadsOK, MaintOK, BooksOK, RestOK

LEMMA OwnFrame ==
    UNCHANGED <<reader, sync, thread, maint, made>> => (OwnInv => OwnInv')
BY DEF OwnInv, Stopping

LEMMA ModeFrame == UNCHANGED <<reader, generation>> => (ModeInv => ModeInv')
BY DEF ModeInv, Stopping

LEMMA SlotFrame == UNCHANGED <<reader, sync, thread, broker>> => (SlotInv => SlotInv')
BY DEF SlotInv, ReadUnderWay, RestartUnderWay, Stopping

LEMMA AbortFrame == UNCHANGED <<reader, sync, broker, started>> => (AbortInv => AbortInv')
BY DEF AbortInv, Stopping

LEMMA PipeFrame == UNCHANGED <<broker, thread>> => (PipeInv => PipeInv')
BY DEF PipeInv, PipeOf, Clean, Carries

LEMMA HandleFrame ==
    ASSUME BooksOK, UNCHANGED <<broker, started>>, made' \in Nat, made <= made', HandleInv
    PROVE  HandleInv'
BY CameraBounds DEF HandleInv, Brokers, BooksOK

LEMMA AnswerFrame == UNCHANGED thread => (AnswersOwnRequest => AnswersOwnRequest')
BY DEF AnswersOwnRequest

(* The same for one broker of several.                                        *)
LEMMA PipeOfFrame ==
    ASSUME NEW b \in Brokers, PipeOf(b), broker'[b] = broker[b],
           broker[b].slot # "free" => thread'[broker[b].slot] = thread[broker[b].slot]
    PROVE  PipeOf(b)'
BY DEF PipeOf, Clean, Carries

(* The ranges that the steps need, from the types.                            *)
LEMMA Types ==
    ASSUME Typed
    PROVE  /\ MaxBrokers \in Nat /\ MaxReads \in Nat /\ MaxFaults \in Nat
           /\ made \in Nat /\ made <= MaxBrokers
           /\ registered \in Nat /\ registered <= made
           /\ registered # NoBroker => registered \in Brokers
           /\ started \in Nat /\ sent \in Nat
           /\ \A b \in Brokers : broker[b] \in BrokerState
           /\ \A u \in Users : thread[u] \in ThreadState
BY CameraBounds DEF Typed, BooksOK, BrokersOK, ThreadsOK, Brokers, NoBroker

(* What a step may not take back while a request is under way.                *)
BrokersKeep ==
    \A b \in 1 .. made :
        /\ broker'[b].slot = broker[b].slot
        /\ broker[b].abort => broker'[b].abort
        /\ \/ broker'[b].handle = 0
           \/ broker'[b].handle > started
           \/ /\ broker'[b].handle = broker[b].handle
              /\ broker[b].doomed => broker'[b].doomed

(* A request thread stays with its broker, and stays or is not.               *)
ThreadsKeep ==
    \A u \in Users : /\ thread'[u].b = thread[u].b
                     /\ thread'[u].pc = "none" <=> thread[u].pc = "none"

(* The counters only grow.                                                    *)
BooksKeep ==
    /\ made' \in Nat /\ made <= made'
    /\ started' \in Nat /\ started <= started'
    /\ generation' \in Nat /\ generation <= generation'
    /\ maint'.b <= made'
    /\ maint'.pc \in {"begin", "release"} => maint'.b # NoBroker

(* The fields that are compared are numbers.                                  *)
LEMMA Fields ==
    ASSUME Typed
    PROVE  /\ reader.own \in Nat /\ reader.stop.b \in Nat /\ reader.stop.p \in Nat
           /\ reader.gen \in Nat /\ generation \in Nat
           /\ sync.own \in Nat /\ maint.b \in Nat
           /\ \A u \in Users : thread[u].b \in Nat
BY CameraBounds DEF Typed, ReaderOK, ReaderState, Stops, SyncOK, SyncState, MaintOK,
   MaintState, ThreadsOK, ThreadState, RestOK

(* What a reader and a sync under way have.                                   *)
LEMMA UnderWayKeeps ==
    ASSUME Typed, OwnInv, ModeInv, SlotInv, AbortInv, BrokersKeep, ThreadsKeep, BooksKeep,
           UNCHANGED <<reader, sync>>
    PROVE  OwnInv' /\ ModeInv' /\ SlotInv' /\ AbortInv'
<1> USE Types, Fields
<1>1. OwnInv'
  BY DEF OwnInv, ThreadsKeep, BooksKeep, Stopping
<1>2. ModeInv'
  BY DEF ModeInv, BooksKeep, Stopping
<1>3. SlotInv'
  <2>1. ReadUnderWay \/ RestartUnderWay => reader.own \in 1 .. made
    BY DEF OwnInv, ReadUnderWay, RestartUnderWay, Stopping, ModeInv, NoBroker
  <2>2. sync.pc \in {"wait", "unslot"} => sync.own \in 1 .. made
    BY DEF OwnInv, NoBroker
  <2> QED
    BY <2>1, <2>2 DEF SlotInv, BrokersKeep, ThreadsKeep, Users, ReadUnderWay,
       RestartUnderWay, Stopping
<1>4. AbortInv'
  <2>1. /\ reader.pc = "join" \/ (reader.pc = "stopping" /\ Stopping({"cleanup"}))
             => reader.own \in 1 .. made
        /\ sync.pc = "unslot" => sync.own \in 1 .. made
        /\ reader.pc = "stopping" => reader.stop.b \in 1 .. made
    BY DEF OwnInv, Stopping, ModeInv, NoBroker
  <2> QED
    BY <2>1 DEF AbortInv, BrokersKeep, BooksKeep, Stopping
<1> QED
  BY <1>1, <1>2, <1>3, <1>4

-----------------------------------------------------------------------------
(* A child that is stopped.                                                   *)
Only(b) ==
    /\ broker' \in [Brokers -> BrokerState]
    /\ \A c \in Brokers \ {b} : broker'[c] = broker[c]

(* What a stop leaves of a broker: its slot, its binding, and a child only if *)
(* it outlived the kill.                                                      *)
Stopped(b) ==
    /\ broker'[b].slot = broker[b].slot /\ broker'[b].cfg = broker[b].cfg
    /\ broker'[b].quiesced = broker[b].quiesced
    /\ broker'[b].abort /\ broker'[b].req = 0 /\ broker'[b].resp = 0
    /\ broker'[b].handle \in {0, broker[b].handle}
    /\ broker'[b].handle # 0 => broker'[b].doomed
    /\ broker'[b].alive => broker[b].alive /\ broker'[b].handle = broker[b].handle

(* Every update of a broker gives a broker.                                   *)
LEMMA Operations ==
    ASSUME NEW r \in BrokerState
    PROVE  /\ Closed(r) \in BrokerState /\ Dead(r) \in BrokerState /\ Undead(r) \in BrokerState
           /\ Signalled(r) \in BrokerState /\ Killed(r) \in BrokerState
BY ZenonT(40) DEF BrokerState, Closed, Dead, Undead, Signalled, Killed

LEMMA Started ==
    ASSUME NEW r \in BrokerState, NEW n \in Nat, n # 0
    PROVE  LET s == [r EXCEPT !.handle = n, !.alive = TRUE, !.ready = FALSE,
                     !.announced = FALSE, !.doomed = FALSE, !.req = 0, !.resp = 0]
           IN  /\ s \in BrokerState /\ s.handle = n /\ s.slot = r.slot /\ s.abort = r.abort
               /\ s.req = 0 /\ s.resp = 0
BY DEF BrokerState

LEMMA Sent ==
    ASSUME NEW r \in BrokerState, NEW n \in Nat
    PROVE  LET s == [r EXCEPT !.ready = TRUE, !.req = n]
           IN  /\ s \in BrokerState /\ s.req = n /\ s.resp = r.resp /\ s.handle = r.handle
               /\ s.doomed = r.doomed /\ s.abort = r.abort /\ s.slot = r.slot
               /\ s.alive = r.alive
BY DEF BrokerState

(* An update of one broker leaves the others.                                 *)
LEMMA OneOnly ==
    ASSUME BrokersOK, NEW b \in Brokers, NEW r \in BrokerState,
           broker' = [broker EXCEPT ![b] = r]
    PROVE  Only(b) /\ broker'[b] = r
BY DEF BrokersOK, Only

(* A fault spent stays within the bound.                                      *)
LEMMA SpendKeeps ==
    ASSUME RestOK, Unspent \/ (CanFail /\ Spend)
    PROVE  faults' \in FaultState
BY CameraBounds DEF RestOK, Unspent, CanFail, Spend, FaultState

(* _stop_process, dead or not.                                                *)
LEMMA StopProcessIs ==
    ASSUME Typed, HandleInv, PipeInv, NEW b \in Brokers, NEW dead \in BOOLEAN,
           StopProcess(b, dead)
    PROVE  /\ Only(b) /\ Stopped(b) /\ faults' \in FaultState
           /\ broker'[b].alive => broker'[b].fatal
           /\ dead => ~broker'[b].alive
<1> DEFINE r == broker[b]
<1>1. r \in BrokerState /\ BrokersOK /\ RestOK
  BY Types DEF Typed
<1>2. r.alive => r.handle # 0
  BY DEF HandleInv
<1>3. r.handle = 0 => r.req = 0 /\ r.resp = 0
  BY DEF PipeInv, PipeOf, Clean
<1>4. CASE dead /\ Unspent /\ broker' = [broker EXCEPT ![b] = Dead(r)]
  <2>1. Dead(r) \in BrokerState /\ Only(b) /\ broker'[b] = Dead(r)
    BY <1>1, <1>4, Operations, OneOnly
  <2>2. /\ Dead(r).slot = r.slot /\ Dead(r).cfg = r.cfg /\ Dead(r).quiesced = r.quiesced
        /\ Dead(r).abort /\ Dead(r).req = 0 /\ Dead(r).resp = 0
        /\ Dead(r).handle = 0 /\ ~Dead(r).alive
    BY <1>1, <1>2, <1>3 DEF Dead, Closed, BrokerState
  <2>3. Stopped(b)
    BY <2>1, <2>2 DEF Stopped, Clean
  <2> QED
    BY <1>1, <1>4, <2>1, <2>2, <2>3, SpendKeeps
<1>5. CASE ~dead /\ r.alive /\ CanFail /\ Spend /\ broker' = [broker EXCEPT ![b] = Undead(r)]
  <2>1. Undead(r) \in BrokerState /\ Only(b) /\ broker'[b] = Undead(r)
    BY <1>1, <1>5, Operations, OneOnly
  <2>2. /\ Undead(r).slot = r.slot /\ Undead(r).cfg = r.cfg
        /\ Undead(r).quiesced = r.quiesced
        /\ Undead(r).abort /\ Undead(r).req = 0 /\ Undead(r).resp = 0
        /\ Undead(r).handle = r.handle /\ Undead(r).doomed /\ Undead(r).fatal
    BY <1>1 DEF Undead, Closed, BrokerState
  <2>3. Stopped(b)
    BY <1>5, <2>1, <2>2 DEF Stopped, Clean
  <2> QED
    BY <1>1, <1>5, <2>1, <2>2, <2>3, SpendKeeps
<1> QED
  BY <1>4, <1>5 DEF StopProcess

(* release() also joins the request thread of the broker.                     *)
ThreadReleased(b) ==
    \/ UNCHANGED thread
    \/ /\ LiveThread("reader", b)
       /\ thread' = [thread EXCEPT !["reader"].pc = "done", !["reader"].ok = FALSE]

(* release(): the child is dead or fatal, and so is the request thread.       *)
LEMMA ReleasedIs ==
    ASSUME Typed, HandleInv, PipeInv, NEW b \in Brokers, NEW ok \in BOOLEAN, Released(b, ok)
    PROVE  /\ Only(b) /\ Stopped(b) /\ faults' \in FaultState /\ ThreadReleased(b)
           /\ LiveThread("reader", b) => broker'[b].fatal \/ thread'["reader"].pc = "done"
           /\ broker'[b].alive => broker'[b].fatal
           /\ ok => ~broker'[b].alive
<1> DEFINE r == broker[b]
<1>1. CASE StopProcess(b, ok) /\ thread' = IF LiveThread("reader", b)
                      THEN [thread EXCEPT !["reader"].pc = "done", !["reader"].ok = FALSE]
                      ELSE thread
  <2>1. LiveThread("reader", b) => thread'["reader"].pc = "done"
    BY <1>1, Types DEF Typed, ThreadsOK, ThreadState, Users
  <2> QED
    BY <1>1, <2>1, StopProcessIs DEF ThreadReleased
<1>2. CASE /\ ~ok /\ CanFail /\ Spend /\ UNCHANGED thread
           /\ broker' = [broker EXCEPT ![b] = [Dead(r) EXCEPT !.fatal = TRUE]]
  <2>0. r \in BrokerState /\ BrokersOK /\ RestOK /\ Dead(r) \in BrokerState
    BY Types, Operations DEF Typed
  <2>1. [Dead(r) EXCEPT !.fatal = TRUE] \in BrokerState
    BY <2>0 DEF BrokerState
  <2>2. Only(b) /\ broker'[b] = [Dead(r) EXCEPT !.fatal = TRUE]
    BY <1>2, <2>0, <2>1, OneOnly
  <2>3. (r.alive => r.handle # 0) /\ (r.handle = 0 => r.req = 0 /\ r.resp = 0)
    BY DEF HandleInv, PipeInv, PipeOf, Clean
  <2>4. /\ Dead(r).slot = r.slot /\ Dead(r).cfg = r.cfg /\ Dead(r).quiesced = r.quiesced
        /\ Dead(r).abort /\ Dead(r).req = 0 /\ Dead(r).resp = 0
        /\ Dead(r).handle = 0 /\ ~Dead(r).alive
    BY <2>0, <2>3 DEF Dead, Closed, BrokerState
  <2>5. Stopped(b) /\ ~broker'[b].alive /\ broker'[b].fatal
    BY <2>0, <2>2, <2>4 DEF Stopped, Clean, BrokerState
  <2> QED
    BY <1>2, <2>0, <2>2, <2>5, SpendKeeps DEF ThreadReleased
<1> QED
  BY <1>1, <1>2 DEF Released

(* What a stop keeps of the first half.                                       *)
LEMMA StoppedKeeps ==
    ASSUME Answers, NEW b \in Brokers, Only(b), Stopped(b), ThreadReleased(b),
           UNCHANGED <<started, made>>
    PROVE  /\ BrokersOK' /\ ThreadsOK' /\ HandleInv' /\ PipeInv' /\ AnswersOwnRequest'
           /\ BrokersKeep /\ ThreadsKeep
<1> USE Types DEF Answers
<1>1. BrokersOK'
  BY DEF BrokersOK, Only
<1>2. /\ ThreadsOK' /\ ThreadsKeep
      /\ thread'["sync"] = thread["sync"]
      /\ ~LiveThread("reader", b) => UNCHANGED thread
      /\ thread'["reader"] # thread["reader"] =>
           thread'["reader"].pc = "done" /\ ~thread'["reader"].ok
  BY DEF Typed, ThreadsOK, ThreadState, ThreadReleased, ThreadsKeep, Users, LiveThread
<1>3. HandleInv'
  BY DEF HandleInv, Only, Stopped
<1>4. PipeInv'
  <2>1. SUFFICES ASSUME NEW c \in Brokers \ {b} PROVE PipeOf(c)'
    BY DEF PipeInv, PipeOf, Clean, Stopped
  <2>2. PipeOf(c) /\ broker'[c] = broker[c]
    BY DEF PipeInv, Only
  <2>3. CASE Clean(c)
    BY <2>2, <2>3 DEF PipeOf, Clean
  <2>4. CASE ~Clean(c)
    <3>1. thread[broker[c].slot].b = c /\ broker[c].slot \in Users
      BY <2>2, <2>4 DEF PipeOf, Carries, BrokerState
    <3>2. thread'[broker[c].slot] = thread[broker[c].slot]
      BY <1>2, <3>1 DEF LiveThread, Users
    <3> QED
      BY <2>2, <3>2, PipeOfFrame
  <2> QED
    BY <2>3, <2>4
<1>5. AnswersOwnRequest'
  BY <1>2 DEF AnswersOwnRequest, Users
<1>6. BrokersKeep
  BY DEF BrokersKeep, Only, Stopped, Brokers
<1> QED
  BY <1>1, <1>2, <1>3, <1>4, <1>5, <1>6

-----------------------------------------------------------------------------
(* The child and the request thread.                                          *)

(* The child announces, answers or dies.                                      *)
LEMMA ChildKeeps ==
    ASSUME Answers, NEW b \in Brokers, ChildAnnounces(b) \/ ChildAnswers(b) \/ ChildDies(b)
    PROVE  Answers'
<1> USE Types, Fields DEF Answers
<1>1. UNCHANGED <<scene, registered, made, started, sent, binding, generation, held, reader,
                  sync, thread, maint>>
  BY DEF ChildAnnounces, ChildAnswers, ChildDies
<1>2. /\ Only(b) /\ broker'[b].slot = broker[b].slot /\ broker'[b].abort = broker[b].abort
      /\ broker'[b].handle = broker[b].handle /\ broker'[b].doomed = broker[b].doomed
      /\ broker'[b].alive => broker[b].alive
      /\ PipeOf(b)'
  <2> DEFINE r == broker[b]
  <2>0. r \in BrokerState /\ BrokersOK /\ PipeOf(b)
    BY DEF Typed, PipeInv
  <2>1. CASE ChildAnnounces(b)
    <3>1. [r EXCEPT !.announced = TRUE] \in BrokerState
      BY <2>0 DEF BrokerState
    <3>2. Only(b) /\ broker'[b] = [r EXCEPT !.announced = TRUE]
      BY <2>0, <2>1, <3>1, OneOnly DEF ChildAnnounces
    <3> QED
      BY <1>1, <2>0, <3>2 DEF BrokerState, PipeOf, Clean, Carries
  <2>2. CASE ChildAnswers(b)
    <3>1. [r EXCEPT !.resp = r.req, !.req = 0] \in BrokerState
      BY <2>0 DEF BrokerState
    <3>0. broker' = [broker EXCEPT ![b] = [r EXCEPT !.resp = r.req, !.req = 0]] /\ r.req # 0
      BY <2>0, <2>2 DEF BrokersOK, ChildAnswers
    <3>2. Only(b) /\ broker'[b] = [r EXCEPT !.resp = r.req, !.req = 0] /\ r.req # 0
      BY <2>0, <3>0, <3>1, OneOnly
    <3> QED
      BY <1>1, <2>0, <3>2 DEF BrokerState, PipeOf, Clean, Carries
  <2>3. CASE ChildDies(b)
    <3>1. [r EXCEPT !.alive = FALSE, !.req = 0] \in BrokerState
      BY <2>0 DEF BrokerState
    <3>0. broker' = [broker EXCEPT ![b] = [r EXCEPT !.alive = FALSE, !.req = 0]]
      BY <2>0, <2>3 DEF BrokersOK, ChildDies
    <3>2. Only(b) /\ broker'[b] = [r EXCEPT !.alive = FALSE, !.req = 0]
      BY <2>0, <3>0, <3>1, OneOnly
    <3> QED
      BY <1>1, <2>0, <3>2 DEF BrokerState, PipeOf, Clean, Carries
  <2> QED
    BY <2>1, <2>2, <2>3
<1>3. faults' \in FaultState
  BY SpendKeeps DEF Typed, RestOK, ChildAnnounces, ChildAnswers, ChildDies, Unspent
<1>4. Typed'
  BY <1>1, <1>2, <1>3, TypedFrame DEF Typed, BrokersOK, RestOK, Only
<1>5. PipeInv'
  BY <1>1, <1>2, PipeOfFrame DEF PipeInv, Only
<1>6. HandleInv'
  BY <1>1, <1>2 DEF HandleInv, Only
<1>7. BrokersKeep
  BY SMTT(30), <1>1, <1>2 DEF BrokersKeep, Only, Brokers
<1>8. ThreadsKeep
  BY <1>1 DEF ThreadsKeep
<1>9. BooksKeep
  <2>1. made \in Nat /\ started \in Nat /\ generation \in Nat
    OBVIOUS
  <2>2. maint.b <= made /\ (maint.pc \in {"begin", "release"} => maint.b # NoBroker)
    BY DEF OwnInv
  <2> QED
    BY <1>1, <2>1, <2>2 DEF BooksKeep
<1> QED
  BY <1>1, <1>4, <1>5, <1>6, <1>7, <1>8, <1>9, UnderWayKeeps, AnswerFrame

(* The request thread starts, is refused, sends, receives or fails.           *)
LEMMA ThreadKeeps ==
    ASSUME Answers, NEW u \in Users, Thread(u)
    PROVE  Answers'
<1> USE DEF Answers
<1>t. /\ made \in Nat /\ started \in Nat /\ sent \in Nat /\ generation \in Nat
      /\ \A c \in Brokers : broker[c] \in BrokerState
      /\ thread[u] \in ThreadState /\ made <= MaxBrokers /\ MaxBrokers \in Nat
  BY Types, Fields
<1> DEFINE t == thread[u]
<1>1. /\ UNCHANGED <<scene, registered, made, binding, generation, held, reader, sync, maint,
                     faults>>
      /\ t.pc \notin {"none", "done"}
  BY DEF Thread, ThreadStarts, ThreadRefused, ThreadSends, ThreadReceives, ThreadFails
<1>0. PICK b \in Brokers : b = t.b /\ broker[b].slot = u
  BY <1>1, Types, Fields DEF SlotInv, OwnInv, Users, Brokers, NoBroker, ReadUnderWay, Stopping
<1> DEFINE r == broker[b]
<1>2. b = t.b /\ r.slot = u /\ t \in ThreadState /\ r \in BrokerState
  BY <1>0, <1>t
<1>3. /\ Only(b) /\ r.slot = broker'[b].slot /\ r.abort = broker'[b].abort
      /\ \/ broker'[b].handle = r.handle /\ (r.doomed => broker'[b].doomed)
         \/ broker'[b].handle = started + 1
      /\ broker'[b].alive => broker'[b].handle # 0
      /\ started' \in {started, started + 1} /\ broker'[b].handle \in {r.handle, started'}
      /\ sent' \in Nat
      /\ thread' \in [Users -> ThreadState]
      /\ \A v \in Users \ {u} : thread'[v] = thread[v]
      /\ thread'[u].b = b /\ thread'[u].pc # "none"
      /\ thread'[u].pc = "done" /\ thread'[u].ok => thread'[u].got = thread'[u].n
      /\ PipeOf(b)'
  <2>0. BrokersOK /\ ThreadsOK /\ PipeOf(b) /\ sent \in Nat /\ started \in Nat
    BY <1>t, <1>2 DEF Typed, PipeInv
  <2>1. CASE ThreadStarts(u)
    <3>0. started + 1 \in Nat /\ started + 1 # 0
      BY <2>0
    <3>1. /\ StartLocked(r) \in BrokerState /\ r.handle \in Nat
          /\ \/ StartLocked(r) = r
             \/ StartLocked(r).req = 0 /\ StartLocked(r).resp = 0
      <4>1. r.handle \in Nat
        BY <1>2 DEF BrokerState
      <4>2. CASE r.alive
        BY <1>2, <4>1, <4>2 DEF StartLocked
      <4>3. CASE ~r.alive
        BY <1>2, <3>0, <4>1, <4>3, Started DEF StartLocked
      <4> QED
        BY <4>2, <4>3
    <3>2. /\ Only(b) /\ broker'[b] = StartLocked(r)
          /\ started' = IF r.alive THEN started ELSE started + 1
      <4>1. /\ broker' = [broker EXCEPT ![b] = StartLocked(r)]
            /\ started' = IF r.alive THEN started ELSE started + 1
        BY <1>2, <2>1 DEF ThreadStarts, Starts
      <4> QED
        BY <2>0, <3>1, <4>1, OneOnly
    <3>3. /\ thread' = [thread EXCEPT ![u].pc = "boot", ![u].p = broker'[b].handle]
          /\ UNCHANGED sent /\ t.pc = "start"
      BY <1>2, <2>1 DEF ThreadStarts
    <3>4. /\ broker'[b].handle \in Nat /\ broker'[b].slot = r.slot
          /\ broker'[b].abort = r.abort
          /\ \/ broker'[b].handle = r.handle /\ (r.doomed => broker'[b].doomed)
             \/ broker'[b].handle = started + 1
          /\ broker'[b].handle \in {r.handle, started'}
          /\ broker'[b].alive => broker'[b].handle # 0
      BY <1>2, <2>0, <3>2 DEF BrokerState, StartLocked, HandleInv
    <3>5. /\ thread' \in [Users -> ThreadState]
          /\ \A v \in Users \ {u} : thread'[v] = thread[v]
          /\ thread'[u].b = b /\ thread'[u].pc = "boot"
      BY <1>2, <2>0, <3>3, <3>4 DEF ThreadsOK, ThreadState
    <3>6. Clean(b)
      BY <1>2, <2>0, <3>3 DEF PipeOf, Carries
    <3>7. Clean(b)'
      BY <3>1, <3>2, <3>6 DEF Clean
    <3> QED
      BY <2>0, <3>2, <3>3, <3>4, <3>5, <3>7 DEF PipeOf
  <2>2. CASE ThreadRefused(u) \/ ThreadFails(u)
    <3>1. /\ thread' = [thread EXCEPT ![u].pc = "done", ![u].ok = FALSE, ![u].got = 0]
          /\ UNCHANGED <<sent, broker, started>>
      BY <2>2 DEF ThreadRefused, ThreadFails, Done
    <3>2. /\ thread' \in [Users -> ThreadState]
          /\ \A v \in Users \ {u} : thread'[v] = thread[v]
          /\ thread'[u].b = b /\ thread'[u].pc = "done" /\ ~thread'[u].ok
      BY <1>2, <2>0, <3>1 DEF ThreadsOK, ThreadState
    <3>3. PipeOf(b)'
      BY <1>2, <2>0, <3>1, <3>2 DEF PipeOf, Carries, Clean
    <3> QED
      BY <1>2, <2>0, <3>1, <3>2, <3>3 DEF Only, BrokersOK, HandleInv
  <2>3. CASE ThreadSends(u)
    <3>0. sent + 1 \in Nat
      BY <2>0
    <3>1. broker' = [broker EXCEPT ![b] = [r EXCEPT !.ready = TRUE, !.req = sent + 1]]
      BY <1>2, <2>0, <2>3 DEF BrokersOK, ThreadSends
    <3>2. Only(b) /\ broker'[b] = [r EXCEPT !.ready = TRUE, !.req = sent + 1]
      <4>1. [r EXCEPT !.ready = TRUE, !.req = sent + 1] \in BrokerState
        BY <1>2, <3>0, Sent
      <4> QED
        BY <1>2, <2>0, <3>1, <4>1, OneOnly
    <3>3. /\ thread' = [thread EXCEPT ![u].pc = "poll", ![u].n = sent + 1]
          /\ UNCHANGED started /\ sent' = sent + 1
          /\ t.pc = "boot" /\ r.alive /\ ~r.doomed /\ ~r.abort
      BY <1>2, <2>3 DEF ThreadSends
    <3>4. /\ thread' \in [Users -> ThreadState]
          /\ \A v \in Users \ {u} : thread'[v] = thread[v]
          /\ thread'[u].b = b /\ thread'[u].pc = "poll" /\ thread'[u].n = sent + 1
      <4>1. \A n \in Nat : [t EXCEPT !.pc = "poll", !.n = n] \in ThreadState
        BY <1>2 DEF ThreadState
      <4>2. thread' = [thread EXCEPT ![u] = [t EXCEPT !.pc = "poll", !.n = sent + 1]]
        BY <2>0, <3>3 DEF ThreadsOK
      <4>3. [t EXCEPT !.pc = "poll", !.n = sent + 1] \in ThreadState
        BY <3>0, <4>1
      <4> QED
        BY <1>2, <2>0, <4>2, <4>3 DEF ThreadsOK, ThreadState
    <3>5. Clean(b) /\ r.handle # 0 /\ r.handle \in Nat
      BY <1>2, <2>0, <3>3 DEF PipeOf, Carries, HandleInv, BrokerState
    <3>6. /\ broker'[b].req = sent + 1 /\ broker'[b].resp = 0
          /\ broker'[b].handle = r.handle /\ broker'[b].doomed = r.doomed
          /\ broker'[b].abort = r.abort /\ broker'[b].slot = r.slot
          /\ broker'[b].alive = r.alive
      <4>1. /\ broker'[b].resp = r.resp /\ broker'[b].handle = r.handle
            /\ broker'[b].doomed = r.doomed /\ broker'[b].abort = r.abort
            /\ broker'[b].slot = r.slot /\ broker'[b].alive = r.alive
        BY <1>2, <3>2 DEF BrokerState
      <4>2. broker'[b].req = sent + 1
        BY <1>2, <3>2 DEF BrokerState
      <4> QED
        BY <3>5, <4>1, <4>2 DEF Clean
    <3>7. PipeOf(b)'
      BY <1>2, <3>3, <3>4, <3>5, <3>6 DEF PipeOf, Carries, Users
    <3> QED
      BY <1>2, <2>0, <3>0, <3>2, <3>3, <3>4, <3>5, <3>6, <3>7
  <2>4. CASE ThreadReceives(u)
    <3>1. [r EXCEPT !.resp = 0] \in BrokerState
      BY <1>2, <2>0 DEF BrokerState
    <3>2. Only(b) /\ broker'[b] = [r EXCEPT !.resp = 0]
      <4>1. broker' = [broker EXCEPT ![b] = [r EXCEPT !.resp = 0]]
        BY <1>2, <2>0, <2>4 DEF ThreadReceives, BrokersOK
      <4> QED
        BY <1>2, <2>0, <3>1, <4>1, OneOnly
    <3>3. PICK ok \in BOOLEAN :
            thread' = [thread EXCEPT ![u].pc = "done", ![u].ok = ok, ![u].got = r.resp]
      BY <1>2, <2>4 DEF ThreadReceives, Done
    <3>4. UNCHANGED <<started, sent>> /\ t.pc = "poll" /\ r.resp # 0
      BY <1>2, <2>4 DEF ThreadReceives
    <3>5. r.resp = t.n /\ r.req = 0 /\ r.resp \in Nat
      BY <1>2, <2>0, <3>4 DEF PipeOf, Carries, Clean, BrokerState
    <3>6. /\ thread' \in [Users -> ThreadState]
          /\ \A v \in Users \ {u} : thread'[v] = thread[v]
          /\ thread'[u].b = b /\ thread'[u].pc = "done" /\ thread'[u].got = thread'[u].n
      BY <1>2, <2>0, <3>3, <3>5 DEF ThreadsOK, ThreadState
    <3>7. PipeOf(b)'
      <4>1. broker'[b].resp = 0 /\ broker'[b].req = 0
        BY <1>2, <3>2, <3>5 DEF BrokerState
      <4> QED
        BY <4>1 DEF PipeOf, Clean
    <3>8. /\ broker'[b].handle = r.handle /\ broker'[b].doomed = r.doomed
          /\ broker'[b].slot = r.slot /\ broker'[b].abort = r.abort
          /\ broker'[b].alive = r.alive
      BY <1>2, <3>2 DEF BrokerState
    <3> QED
      BY <1>2, <2>0, <3>2, <3>4, <3>6, <3>7, <3>8 DEF HandleInv
  <2> QED
    BY <2>1, <2>2, <2>3, <2>4 DEF Thread
<1>4. Typed'
  BY <1>1, <1>3, TypedFrame DEF Typed, BrokersOK, ThreadsOK, Only, BooksOK
<1>5. PipeInv'
  <2>1. SUFFICES ASSUME NEW c \in Brokers \ {b} PROVE PipeOf(c)'
    BY <1>3 DEF PipeInv
  <2>2. PipeOf(c) /\ broker'[c] = broker[c]
    BY <1>3 DEF PipeInv, Only
  <2>3. CASE Clean(c)
    BY <2>2, <2>3 DEF PipeOf, Clean
  <2>4. CASE ~Clean(c)
    <3>1. broker[c].slot \in Users /\ thread[broker[c].slot].b = c
      BY <1>t, <2>2, <2>4 DEF PipeOf, Carries, BrokerState
    <3>2. thread'[broker[c].slot] = thread[broker[c].slot]
      BY <1>2, <1>3, <3>1
    <3> QED
      BY <2>2, <3>2, PipeOfFrame
  <2> QED
    BY <2>3, <2>4
<1>6. HandleInv'
  <2>1. b <= made /\ r.handle <= started /\ r.handle \in Nat
    BY <1>2 DEF HandleInv, OwnInv, BrokerState
  <2>2. broker'[b].handle <= started'
    BY <1>t, <1>3, <2>1
  <2>3. ASSUME NEW c \in Brokers \ {b}
        PROVE  broker'[c].handle <= started' /\ broker'[c] = broker[c]
    <3>1. broker'[c] = broker[c] /\ broker[c].handle <= started /\ broker[c].handle \in Nat
      BY <1>t, <1>3 DEF Only, HandleInv, BrokerState
    <3> QED
      BY <1>t, <1>3, <3>1
  <2> QED
    BY <1>1, <1>3, <2>1, <2>2, <2>3 DEF HandleInv
<1>7. BrokersKeep /\ ThreadsKeep /\ BooksKeep
  <2>1. ThreadsKeep
    BY <1>1, <1>2, <1>3 DEF ThreadsKeep
  <2>2. BooksKeep
    BY <1>t, <1>1, <1>3 DEF BooksKeep, OwnInv
  <2>3. BrokersKeep
    <3>1. SUFFICES ASSUME NEW c \in 1 .. made
                   PROVE  /\ broker'[c].slot = broker[c].slot
                          /\ broker[c].abort => broker'[c].abort
                          /\ \/ broker'[c].handle = 0
                             \/ broker'[c].handle > started
                             \/ /\ broker'[c].handle = broker[c].handle
                                /\ broker[c].doomed => broker'[c].doomed
      BY DEF BrokersKeep
    <3>2. CASE c = b
      <4>1. broker'[b].slot = r.slot /\ (r.abort => broker'[b].abort)
        BY <1>3
      <4>2. started + 1 > started
        BY <1>t
      <4>3. \/ broker'[b].handle > started
            \/ broker'[b].handle = r.handle /\ (r.doomed => broker'[b].doomed)
        BY <1>3, <4>2
      <4> QED
        BY <3>2, <4>1, <4>3
    <3>3. CASE c # b
      <4>1. c \in Brokers
        BY <1>t DEF Brokers
      <4> QED
        BY <1>3, <3>3, <4>1 DEF Only
    <3> QED
      BY <3>2, <3>3
  <2> QED
    BY <2>1, <2>2, <2>3
<1>8. AnswersOwnRequest'
  BY <1>3 DEF AnswersOwnRequest
<1> QED
  BY <1>1, <1>4, <1>5, <1>6, <1>7, <1>8, UnderWayKeeps

-----------------------------------------------------------------------------
(* Maintenance, a new binding and the bulk release.                           *)

(* Nothing changes of a broker but its flags.                                 *)
FlagsOnly(b) ==
    /\ Only(b)
    /\ broker'[b].slot = broker[b].slot /\ broker'[b].abort = broker[b].abort
    /\ broker'[b].handle = broker[b].handle /\ broker'[b].doomed = broker[b].doomed
    /\ broker'[b].alive = broker[b].alive
    /\ broker'[b].req = broker[b].req /\ broker'[b].resp = broker[b].resp

(* Such a step keeps everything about the pipes.                              *)
LEMMA FlagsOnlyKeep ==
    ASSUME Answers, NEW b \in Brokers, FlagsOnly(b), UNCHANGED <<thread, started, made>>
    PROVE  BrokersOK' /\ HandleInv' /\ PipeInv' /\ BrokersKeep /\ ThreadsKeep
<1> USE DEF Answers, FlagsOnly
<1>1. BrokersOK'
  BY DEF BrokersOK, Only
<1>2. HandleInv'
  BY DEF HandleInv, Only
<1>3. PipeOf(b)'
  BY DEF PipeInv, PipeOf, Clean, Carries
<1>4. PipeInv'
  BY <1>3, PipeOfFrame DEF PipeInv, Only
<1>5. BrokersKeep /\ ThreadsKeep
  BY Types DEF BrokersKeep, ThreadsKeep, Only, Brokers
<1> QED
  BY <1>1, <1>2, <1>4, <1>5

(* Maintenance sets and clears such a flag.                                   *)
LEMMA QuiescedOnly ==
    ASSUME BrokersOK, NEW b \in Brokers, NEW q \in BOOLEAN,
           broker' = [broker EXCEPT ![b].quiesced = q]
    PROVE  FlagsOnly(b) /\ broker'[b].quiesced = q /\ broker'[b].fatal = broker[b].fatal
           /\ broker'[b].cfg = broker[b].cfg
<1>1. broker[b] \in BrokerState /\ [broker[b] EXCEPT !.quiesced = q] \in BrokerState
  BY DEF BrokersOK, BrokerState
<1>2. broker' = [broker EXCEPT ![b] = [broker[b] EXCEPT !.quiesced = q]]
  BY DEF BrokersOK
<1>3. Only(b) /\ broker'[b] = [broker[b] EXCEPT !.quiesced = q]
  BY <1>1, <1>2, OneOnly
<1> QED
  BY <1>1, <1>3 DEF FlagsOnly, BrokerState

(* A handoff and a new binding keep the first half.                           *)
LEMMA HandoffKeeps ==
    ASSUME Answers, (\E c \in Bindings : Quiesce(c)) \/ Maintenance \/ EndMaintenance \/ Rebind
    PROVE  Answers'
<1> USE DEF Answers
<1>1. UNCHANGED <<scene, registered, made, started, sent, generation, reader, sync>>
  BY DEF Quiesce, Maintenance, BeginMaintenance, MaintenanceReleases, EndMaintenance, Rebind
<1>2. MaintOK' /\ RestOK' /\ BooksKeep
  <2> USE Types, Fields DEF Typed
  <2>0. maint \in MaintState /\ faults \in FaultState
    BY DEF MaintOK, RestOK
  <2>1. ASSUME NEW c \in Bindings, Quiesce(c) PROVE MaintOK' /\ RestOK' /\ BooksKeep
    <3>1. faults' \in FaultState
      BY <2>0, <2>1 DEF Quiesce, Comes, FaultState, Calls
    <3>2. PICK b \in 0 .. made :
            maint' = [pc |-> IF b = NoBroker THEN "held" ELSE "begin", c |-> c, b |-> b]
      BY <2>1 DEF Quiesce, BooksOK, NoBroker
    <3>3. MaintOK' /\ maint'.b = b /\ (maint'.pc = "begin" => b # 0)
          /\ maint'.pc \in {"begin", "held"}
      BY <3>2 DEF MaintOK, MaintState, NoBroker
    <3>4. RestOK'
      BY <1>1, <2>1, <3>1 DEF RestOK, Quiesce
    <3> QED
      BY <1>1, <3>2, <3>3, <3>4 DEF BooksKeep, NoBroker
  <2>2. CASE Maintenance \/ EndMaintenance
    <3>1. faults' \in FaultState
      <4>1. CASE BeginMaintenance \/ EndMaintenance
        BY <2>0, <4>1 DEF BeginMaintenance, EndMaintenance
      <4>2. CASE MaintenanceReleases
        <5>1. maint.b \in Brokers
          BY <4>2, Types DEF MaintenanceReleases, OwnInv, Brokers, NoBroker
        <5> QED
          BY <4>2, <5>1, ReleasedIs DEF MaintenanceReleases
      <4> QED
        BY <2>2, <4>1, <4>2 DEF Maintenance
    <3>2. PICK pc \in {"release", "held", "idle"} :
            maint' = [maint EXCEPT !.pc = pc] /\ (pc = "release" => maint.pc = "begin")
      BY <2>2 DEF Maintenance, BeginMaintenance, MaintenanceReleases, EndMaintenance
    <3>3. /\ held' \subseteq held /\ UNCHANGED binding
      BY <2>2 DEF Maintenance, BeginMaintenance, MaintenanceReleases, EndMaintenance
    <3>4. MaintOK' /\ maint'.b = maint.b /\ maint'.pc = pc
      BY <2>0, <3>2 DEF MaintOK, MaintState
    <3>5. RestOK'
      BY <1>1, <3>1, <3>3 DEF RestOK
    <3> QED
      BY <1>1, <3>2, <3>4, <3>5 DEF BooksKeep, OwnInv
  <2>3. CASE Rebind
    <3>1. faults' \in FaultState
      BY <2>0, <2>3 DEF Rebind, Comes, FaultState, Calls
    <3>2. RestOK' /\ UNCHANGED maint
      BY <1>1, <2>3, <3>1 DEF RestOK, Rebind
    <3> QED
      BY <1>1, <3>2, TypedFrame DEF BooksKeep, OwnInv
  <2> QED
    BY <2>1, <2>2, <2>3
<1>3. BrokersOK' /\ ThreadsOK' /\ HandleInv' /\ PipeInv' /\ AnswersOwnRequest'
      /\ BrokersKeep /\ ThreadsKeep
  <2>1. CASE UNCHANGED <<broker, thread>>
    BY <1>1, <2>1, TypedFrame, HandleFrame, PipeFrame, AnswerFrame, Types
       DEF Typed, BrokersKeep, ThreadsKeep
  <2>2. CASE BeginMaintenance
    <3>1. maint.b \in Brokers
      BY <2>2, Types, Fields DEF BeginMaintenance, OwnInv, Brokers, NoBroker
    <3>2. FlagsOnly(maint.b) /\ UNCHANGED thread
      BY <2>2, <3>1, QuiescedOnly DEF BeginMaintenance, Typed
    <3> QED
      BY <1>1, <3>1, <3>2, FlagsOnlyKeep, TypedFrame, AnswerFrame DEF Typed
  <2>3. CASE MaintenanceReleases
    <3>1. maint.b \in Brokers
      BY <2>3, Types, Fields DEF MaintenanceReleases, OwnInv, Brokers, NoBroker
    <3>2. Only(maint.b) /\ Stopped(maint.b) /\ ThreadReleased(maint.b)
      BY <2>3, <3>1, ReleasedIs DEF MaintenanceReleases
    <3> QED
      BY <1>1, <3>1, <3>2, StoppedKeeps
  <2>4. CASE EndMaintenance /\ maint.b # NoBroker
    <3>1. maint.b \in Brokers
      BY <2>4, Types, Fields DEF EndMaintenance, OwnInv, Brokers, NoBroker
    <3>2. FlagsOnly(maint.b) /\ UNCHANGED thread
      BY <2>4, <3>1, QuiescedOnly DEF EndMaintenance, Typed
    <3> QED
      BY <1>1, <3>1, <3>2, FlagsOnlyKeep, TypedFrame, AnswerFrame DEF Typed
  <2> QED
    BY <2>1, <2>2, <2>3, <2>4 DEF Quiesce, Maintenance, EndMaintenance, Rebind
<1>4. Typed'
  BY <1>1, <1>2, <1>3, TypedFrame DEF Typed
<1> QED
  BY <1>1, <1>2, <1>3, <1>4, UnderWayKeeps

(* A bulk release keeps it.                                                   *)
LEMMA ReleaseAllKeeps ==
    ASSUME Answers, ReleaseAll
    PROVE  Answers'
<1> USE DEF Answers
<1>1. /\ UNCHANGED <<scene, made, started, sent, binding, held, reader, sync, maint>>
      /\ generation = 0 /\ generation' = 1
  BY DEF ReleaseAll
<1>2. /\ BrokersOK' /\ ThreadsOK' /\ HandleInv' /\ PipeInv' /\ AnswersOwnRequest'
      /\ BrokersKeep /\ ThreadsKeep /\ faults' \in FaultState
      /\ registered' \in {0, registered}
  <2>1. CASE UNCHANGED <<broker, thread, registered, faults>>
    BY <1>1, <2>1, TypedFrame, HandleFrame, PipeFrame, AnswerFrame, Types
       DEF Typed, BrokersKeep, ThreadsKeep, RestOK
  <2>2. ASSUME NEW ok \in BOOLEAN, registered # NoBroker, Released(registered, ok),
               IF ok THEN Unregister(registered) ELSE UNCHANGED registered
        PROVE  /\ BrokersOK' /\ ThreadsOK' /\ HandleInv' /\ PipeInv' /\ AnswersOwnRequest'
               /\ BrokersKeep /\ ThreadsKeep /\ faults' \in FaultState
               /\ registered' \in {0, registered}
    <3>1. Only(registered) /\ Stopped(registered) /\ ThreadReleased(registered)
          /\ faults' \in FaultState
      BY <2>2, ReleasedIs, Types
    <3> QED
      BY <1>1, <2>2, <3>1, StoppedKeeps, Types DEF Unregister, NoBroker
  <2> QED
    BY <2>1, <2>2 DEF ReleaseAll
<1>3. Typed'
  BY <1>1, <1>2, TypedFrame, Types DEF Typed, RestOK, BooksOK
<1>4. BooksKeep
  BY <1>1, Types, Fields DEF BooksKeep, OwnInv
<1> QED
  BY <1>1, <1>2, <1>3, <1>4, UnderWayKeeps

-----------------------------------------------------------------------------
(* The reader, as long as it touches no child.                                *)

(* Where the reader comes to rest.                                            *)
LEMMA ReaderParts ==
    ASSUME Typed
    PROVE  /\ reader \in ReaderState /\ reader.stop \in Stops
           /\ Resting \in ReaderState /\ Resting.pc = "idle" /\ Resting.mode = "read"
           /\ Resting.gen = 0 /\ Resting.own = 0 /\ Resting.stop = NoStop
           /\ Restarted(reader) \in ReaderState /\ Restarted(reader).pc = "idle"
           /\ Restarted(reader).mode = "restart" /\ Restarted(reader).own = reader.own
           /\ Restarted(reader).gen = reader.gen /\ Restarted(reader).stop = NoStop
           /\ NoStop \in Stops /\ NoStop.b = 0
<1>1. reader \in ReaderState
  BY DEF Typed, ReaderOK
<1>2. NoStop \in Stops /\ NoStop.b = 0 /\ MaxBrokers \in Nat
  BY CameraBounds DEF NoStop, Stops, NoBroker
<1>3. /\ Resting \in ReaderState /\ Resting.pc = "idle" /\ Resting.mode = "read"
      /\ Resting.gen = 0 /\ Resting.own = 0 /\ Resting.stop = NoStop
  BY <1>2 DEF Resting, ReaderState, NoBroker
<1>4. /\ Restarted(reader) \in ReaderState /\ Restarted(reader).pc = "idle"
      /\ Restarted(reader).mode = "restart" /\ Restarted(reader).own = reader.own
      /\ Restarted(reader).gen = reader.gen /\ Restarted(reader).stop = NoStop
  BY <1>1, <1>3 DEF Restarted, ReaderState
<1> QED
  BY <1>1, <1>2, <1>3, <1>4 DEF ReaderState

(* The step of the reader, field by field.                                    *)
Moved(pc, mode, own) ==
    /\ reader' \in ReaderState
    /\ reader'.pc = pc /\ reader'.mode = mode /\ reader'.own = own
    /\ reader'.gen <= generation
    /\ reader'.mode = "restart" =>
        (reader.mode = "restart" /\ reader'.gen = reader.gen) \/ reader'.gen = generation
    /\ reader.cancelled /\ pc # "idle" /\ reader.pc # "idle" => reader'.cancelled

Stays(pc) == Moved(pc, reader.mode, reader.own) /\ reader'.stop = reader.stop
Rests == \/ Moved("idle", "read", 0) /\ reader'.stop.b = 0
         \/ Moved("idle", reader.mode, reader.own) /\ reader.mode = "restart" /\ reader'.stop.b = 0
StopsNow(b, why) ==
    /\ Moved("stop", reader.mode, reader.own)
    /\ reader'.stop.b = b /\ reader'.stop.why = why /\ reader'.stop.p = 0

(* An exception ends a restart, and is caught in a read.                      *)
LEMMA FailingIs ==
    ASSUME Typed, ModeInv, reader' = Failing(reader)
    PROVE  Rests \/ (Stays("failed") /\ reader.mode = "read")
BY ReaderParts DEF ModeInv, Failing, Rests, Moved, Stays, ReaderState

(* An abort begins with the broker and the reason it is given.                *)
LEMMA AbortingIs ==
    ASSUME Typed, ModeInv, NEW b \in 0 .. MaxBrokers, NEW c \in BOOLEAN,
           NEW cfg \in Bindings \cup {0},
           NEW why \in {"swap", "cleanup", "failed", "outer", "confirm", "startup",
                        "invalidated"},
           reader.cancelled => c,
           reader' = Aborting([reader EXCEPT !.cancelled = c, !.cfg = cfg], b, why)
    PROVE  StopsNow(b, why) /\ reader'.cancelled = c
<1>1. [NoStop EXCEPT !.b = b, !.why = why] \in Stops
  BY DEF NoStop, Stops
<1>2. reader' = [reader EXCEPT !.pc = "stop", !.cancelled = c, !.cfg = cfg,
                               !.stop = [NoStop EXCEPT !.b = b, !.why = why]]
  BY ReaderParts DEF Aborting, ReaderState
<1>3. /\ reader' \in ReaderState /\ reader'.pc = "stop" /\ reader'.mode = reader.mode
      /\ reader'.own = reader.own /\ reader'.gen = reader.gen /\ reader'.cancelled = c
      /\ reader'.stop = [NoStop EXCEPT !.b = b, !.why = why]
  BY <1>1, <1>2, ReaderParts DEF ReaderState
<1>4. reader'.stop.b = b /\ reader'.stop.why = why /\ reader'.stop.p = 0
  BY <1>3 DEF NoStop
<1> QED
  BY <1>3, <1>4 DEF StopsNow, Moved, ModeInv

(* A step of the reader that keeps its own parts keeps the first half.        *)
LEMMA ReaderOnlyKeeps ==
    ASSUME Answers, reader' \in ReaderState, OwnInv', ModeInv', SlotInv', AbortInv',
           UNCHANGED <<scene, broker, made, started, sent, binding, generation, held, sync,
                       thread, maint>>,
           registered' \in 0 .. made, faults' \in FaultState
    PROVE  Answers'
<1>1. Typed'
  BY TypedFrame DEF Answers, Typed, ReaderOK, BooksOK, RestOK
<1>2. HandleInv' /\ PipeInv' /\ AnswersOwnRequest'
  BY HandleFrame, PipeFrame, AnswerFrame, Types DEF Answers, Typed
<1> QED
  BY <1>1, <1>2 DEF Answers

(* From where to where it goes without touching a child.                      *)
Goes ==
    \/ Rests /\ reader.pc \in {"resolve", "take", "retry", "check"}
         /\ (reader.pc = "check" => generation = reader.gen)
    \/ Stays("failed") /\ reader.mode = "read" /\ reader.pc \in {"resolve", "take"}
    \/ reader.pc = "idle" /\ Moved("resolve", "read", 0) /\ reader'.stop.b = 0
         /\ ~FrontReading
    \/ reader.pc = "resolve" /\ Moved("take", reader.mode, registered) /\ registered # NoBroker
         /\ reader'.stop = reader.stop /\ broker[registered].cfg \notin held
    \/ reader.pc = "resolve" /\ StopsNow(registered, "swap") /\ registered # NoBroker
    \/ reader.pc = "wait" /\ StopsNow(registered, "outer") /\ registered # NoBroker
         /\ reader'.cancelled
    \/ reader.pc \in {"wait", "cleanup"} /\ StopsNow(reader.own, "cleanup")
         /\ (reader.pc = "wait" => thread["reader"].pc = "done")
    \/ reader.pc = "wait" /\ Stays("cleanup") /\ reader'.cancelled /\ registered = NoBroker
    \/ reader.pc = "failed" /\ StopsNow(registered, "failed") /\ registered # NoBroker
    \/ reader.pc = "failed" /\ Stays("retry")
    \/ reader.pc = "retry" /\ Stays("resolve")
    \/ reader.pc \in {"start", "boot"} /\ StopsNow(reader.own, "startup")
    \/ reader.pc = "check" /\ StopsNow(reader.own, "invalidated") /\ ~StillCurrent
    \/ reader.pc = "restart" /\ Moved("resolve", "restart", reader.own)
         /\ reader'.stop = reader.stop

(* From one place to another the reader keeps what it has.                    *)
LEMMA GoesKeeps ==
    ASSUME Answers, Goes, made' = made,
           UNCHANGED <<broker, thread, sync, maint, generation, started>>
    PROVE  OwnInv' /\ ModeInv' /\ SlotInv' /\ AbortInv'
<1>1. reader' \in ReaderState
  BY DEF Goes, Rests, Stays, StopsNow, Moved
<1>2. /\ made \in Nat /\ registered \in Nat /\ registered <= made
      /\ reader.own \in Nat /\ reader.own <= made
  BY Types, Fields DEF Answers, OwnInv
<1>3. OwnInv'
  BY <1>1, <1>2
     DEF Answers, OwnInv, ModeInv, Goes, Rests, Stays, StopsNow, Moved, Stopping, NoBroker
<1>4. ModeInv'
  BY <1>1, <1>2 DEF Answers, ModeInv, Goes, Rests, Stays, StopsNow, Moved, Stopping
<1>5. SlotInv'
  BY <1>1, <1>2
     DEF Answers, SlotInv, ModeInv, Goes, Rests, Stays, StopsNow, Moved, Stopping,
         ReadUnderWay, RestartUnderWay
<1>6. AbortInv'
  BY <1>1, <1>2 DEF Answers, AbortInv, ModeInv, Goes, Rests, Stays, StopsNow, Moved, Stopping
<1> QED
  BY <1>3, <1>4, <1>5, <1>6

(* The steps of the reader that touch no child.                               *)
ReaderAlone ==
    \/ ReadBegins \/ CancelRead \/ TakeBusy \/ ReadErrs \/ Cleanup \/ ReadFails \/ Retry
    \/ Restart \/ RestartFails \/ RestartChecks
    \/ Resolve /\ UNCHANGED <<broker, registered, made>>

(* Every such action goes one of these ways.                                  *)
LEMMA ReaderAloneGoes ==
    ASSUME Answers, ReaderAlone
    PROVE  /\ Goes /\ registered' \in 0 .. made /\ faults' \in FaultState
           /\ \/ UNCHANGED registered
              \/ /\ registered # NoBroker /\ registered' = NoBroker
                 /\ ~broker[registered].alive /\ reader'.pc = "idle"
           /\ UNCHANGED <<scene, broker, made, started, sent, binding, generation, held, sync,
                          thread, maint>>
<1> USE DEF Answers
<1>1. faults \in FaultState /\ reader \in ReaderState /\ binding \in Bindings \cup {0}
      /\ registered \in 0 .. made /\ generation \in 0 .. 1 /\ reader.gen <= generation
      /\ registered \in 0 .. MaxBrokers /\ reader.own \in 0 .. MaxBrokers
      /\ reader.cancelled \in BOOLEAN /\ reader.cfg \in Bindings \cup {0}
      /\ reader.gen \in 0 .. 1
  BY Types, ReaderParts DEF Typed, RestOK, BooksOK, ModeInv, ReaderState
<1>2. UNCHANGED <<scene, broker, made, started, sent, binding, generation, held, sync,
                  thread, maint>>
  BY DEF ReaderAlone, ReadBegins, CancelRead, TakeBusy, ReadErrs, Cleanup, ReadFails, Retry,
     Restart, RestartFails, RestartChecks, Resolve, readerOnly
<1>3. faults' \in FaultState
  <2>1. CASE ReadBegins
    BY <1>1, <2>1, CameraBounds DEF ReadBegins, FaultState
  <2>2. CASE RestartFails
    BY <2>2, SpendKeeps DEF RestartFails, Typed
  <2>3. CASE ~ReadBegins /\ ~RestartFails
    BY <1>1, <2>3 DEF ReaderAlone, CancelRead, TakeBusy, ReadErrs, Cleanup, ReadFails, Retry,
       Restart, RestartChecks, Resolve
  <2> QED
    BY <2>1, <2>2, <2>3
<1>6. \/ UNCHANGED registered
      \/ /\ registered # NoBroker /\ registered' = NoBroker
         /\ ~broker[registered].alive /\ reader'.pc = "idle"
  <2>1. CASE TakeBusy
    <3>1. reader.mode = "restart" => reader'.pc = "idle"
      BY <2>1, ReaderParts DEF TakeBusy, Failing
    <3> QED
      BY <2>1, <3>1 DEF TakeBusy, Unregister
  <2>2. CASE ~TakeBusy
    BY <2>2 DEF ReaderAlone, ReadBegins, CancelRead, ReadErrs, Cleanup, ReadFails, Retry,
       Restart, RestartFails, RestartChecks
  <2> QED
    BY <2>1, <2>2
<1>4. registered' \in 0 .. made
  BY <1>1, Types DEF ReaderAlone, ReadBegins, CancelRead, TakeBusy, ReadErrs, Cleanup, ReadFails,
     Retry, Restart, RestartFails, RestartChecks, Resolve, Unregister, NoBroker
<1>5. Goes
  <2>1. CASE ReadBegins
    <3>1. /\ reader' = [Resting EXCEPT !.pc = "resolve", !.cfg = binding]
          /\ reader.pc = "idle" /\ ~FrontReading
      BY <2>1 DEF ReadBegins
    <3>2. /\ reader' \in ReaderState /\ reader'.pc = "resolve" /\ reader'.mode = "read"
          /\ reader'.own = 0 /\ reader'.gen = 0 /\ reader'.stop.b = 0
      BY <1>1, <3>1, ReaderParts DEF ReaderState
    <3> QED
      BY <1>1, <3>1, <3>2 DEF Goes, Moved
  <2>2. CASE CancelRead
    <3>1. reader.pc = "wait"
      BY <2>2 DEF CancelRead
    <3>2. CASE registered = NoBroker
      <4>1. reader' = [reader EXCEPT !.cancelled = TRUE, !.pc = "cleanup", !.dead = TRUE]
        BY <1>1, <2>2, <3>2 DEF CancelRead, AbortRegistered, ReaderState
      <4> QED
        BY <1>1, <3>1, <3>2, <4>1 DEF Goes, Stays, Moved, ReaderState
    <3>3. CASE registered # NoBroker
      <4>1. /\ reader' = Aborting([reader EXCEPT !.cancelled = TRUE], registered, "outer")
            /\ [reader EXCEPT !.cancelled = TRUE]
                 = [reader EXCEPT !.cancelled = TRUE, !.cfg = reader.cfg]
        BY <1>1, <2>2, <3>3 DEF CancelRead, AbortRegistered, ReaderState
      <4>2. StopsNow(registered, "outer") /\ reader'.cancelled
        BY <1>1, <4>1, AbortingIs
      <4> QED
        BY <3>1, <3>3, <4>2 DEF Goes
    <3> QED
      BY <3>2, <3>3
  <2>3. CASE TakeBusy
    BY <1>1, <2>3, FailingIs DEF TakeBusy, Goes, ReadUnderWay, Stopping
  <2>4. CASE ReadErrs \/ Cleanup
    <3>1. /\ reader' = Aborting(reader, reader.own, "cleanup")
          /\ reader.pc \in {"wait", "cleanup"}
          /\ reader.pc = "wait" => thread["reader"].pc = "done"
          /\ reader = [reader EXCEPT !.cancelled = reader.cancelled, !.cfg = reader.cfg]
      BY <1>1, <2>4 DEF ReadErrs, Cleanup, ReaderState
    <3>2. StopsNow(reader.own, "cleanup")
      BY <1>1, <3>1, AbortingIs
    <3> QED
      BY <3>1, <3>2 DEF Goes
  <2>5. CASE ReadFails
    <3>1. reader.pc = "failed"
      BY <2>5 DEF ReadFails
    <3>2. CASE registered = NoBroker
      <4>1. reader' = [reader EXCEPT !.cfg = binding, !.pc = "retry", !.dead = TRUE]
        BY <1>1, <2>5, <3>2 DEF ReadFails, AbortRegistered, ReaderState
      <4> QED
        BY <1>1, <3>1, <4>1 DEF Goes, Stays, Moved, ReaderState
    <3>3. CASE registered # NoBroker
      <4>1. /\ reader' = Aborting([reader EXCEPT !.cfg = binding], registered, "failed")
            /\ [reader EXCEPT !.cfg = binding]
                 = [reader EXCEPT !.cancelled = reader.cancelled, !.cfg = binding]
        BY <1>1, <2>5, <3>3 DEF ReadFails, AbortRegistered, ReaderState
      <4>2. StopsNow(registered, "failed")
        BY <1>1, <4>1, AbortingIs
      <4> QED
        BY <3>1, <3>3, <4>2 DEF Goes
    <3> QED
      BY <3>2, <3>3
  <2>6. CASE Retry
    <3>1. reader.pc = "retry" /\ ~ReadUnderWay
      BY <2>6 DEF Retry, ReadUnderWay, Stopping
    <3>2. CASE reader' = [reader EXCEPT !.pc = "resolve", !.tries = 1]
      <4>1. /\ reader' \in ReaderState /\ reader'.pc = "resolve" /\ reader'.mode = reader.mode
            /\ reader'.own = reader.own /\ reader'.gen = reader.gen
            /\ reader'.stop = reader.stop /\ reader'.cancelled = reader.cancelled
        <5>1. 1 \in 0 .. 1
          OBVIOUS
        <5> QED
          BY <1>1, <3>2, <5>1 DEF ReaderState
      <4> QED
        BY <1>1, <3>1, <4>1 DEF Goes, Stays, Moved
    <3>3. CASE reader' = Resting
      BY <1>1, <3>1, <3>3, ReaderParts DEF Goes, Rests, Moved
    <3> QED
      BY <2>6, <3>2, <3>3 DEF Retry
  <2>7. CASE Restart
    <3>1. /\ reader.pc = "restart"
          /\ reader' = [reader EXCEPT !.pc = "resolve", !.mode = "restart", !.gen = generation,
                                      !.cfg = binding]
      BY <2>7 DEF Restart
    <3>2. /\ reader' \in ReaderState /\ reader'.pc = "resolve" /\ reader'.mode = "restart"
          /\ reader'.own = reader.own /\ reader'.gen = generation /\ reader'.stop = reader.stop
      BY <1>1, <3>1 DEF ReaderState
    <3> QED
      BY <1>1, <3>1, <3>2 DEF Goes, Moved
  <2>8. CASE RestartFails
    <3>1. /\ reader' = Aborting(reader, reader.own, "startup")
          /\ reader.pc \in {"start", "boot"}
          /\ reader = [reader EXCEPT !.cancelled = reader.cancelled, !.cfg = reader.cfg]
      BY <1>1, <2>8 DEF RestartFails, ReaderState
    <3>2. StopsNow(reader.own, "startup")
      BY <1>1, <3>1, AbortingIs
    <3> QED
      BY <3>1, <3>2 DEF Goes
  <2>9. CASE RestartChecks
    <3>1. reader.pc = "check" /\ reader.mode = "restart"
      BY <2>9 DEF RestartChecks, ModeInv
    <3>2. CASE StillCurrent
      BY <1>1, <2>9, <3>1, <3>2, ReaderParts
         DEF RestartChecks, Goes, Rests, Moved, StillCurrent
    <3>3. CASE ~StillCurrent
      <4>1. /\ reader' = Aborting(reader, reader.own, "invalidated")
            /\ reader = [reader EXCEPT !.cancelled = reader.cancelled, !.cfg = reader.cfg]
        BY <1>1, <2>9, <3>3 DEF RestartChecks, ReaderState
      <4>2. StopsNow(reader.own, "invalidated")
        BY <1>1, <4>1, AbortingIs
      <4> QED
        BY <3>1, <3>3, <4>2 DEF Goes
    <3> QED
      BY <3>2, <3>3
  <2>10. CASE Resolve /\ UNCHANGED made
    <3>1. reader.pc = "resolve"
      BY <2>10 DEF Resolve
    <3>2. CASE reader' = Failing(reader)
      BY <3>1, <3>2, FailingIs DEF Goes, ReadUnderWay, Stopping
    <3>3. CASE registered # NoBroker /\ broker[registered].cfg \notin held
               /\ reader' = [reader EXCEPT !.pc = "take", !.own = registered]
      BY <1>1, <3>1, <3>3 DEF Goes, Moved, ReaderState
    <3>4. CASE /\ registered # NoBroker
               /\ reader' = [reader EXCEPT !.pc = "stop",
                              !.stop = [NoStop EXCEPT !.b = registered, !.why = "swap"]]
      <4>1. /\ reader' = Aborting(reader, registered, "swap")
            /\ reader = [reader EXCEPT !.cancelled = reader.cancelled, !.cfg = reader.cfg]
        BY <1>1, <3>4 DEF Aborting, ReaderState
      <4>2. StopsNow(registered, "swap")
        BY <1>1, <4>1, AbortingIs
      <4> QED
        BY <3>1, <3>4, <4>2 DEF Goes
    <3>5. made' # made + 1
      BY <2>10, Types
    <3> QED
      BY <2>10, <3>2, <3>3, <3>4, <3>5 DEF Resolve
  <2> QED
    BY <2>1, <2>2, <2>3, <2>4, <2>5, <2>6, <2>7, <2>8, <2>9, <2>10 DEF ReaderAlone
<1> QED
  BY <1>2, <1>3, <1>4, <1>5, <1>6

(* So they keep the first half.                                               *)
LEMMA ReaderAloneKeeps ==
    ASSUME Answers, ReaderAlone
    PROVE  Answers'
<1>1. reader' \in ReaderState
  BY ReaderAloneGoes DEF Goes, Rests, Stays, StopsNow, Moved
<1> QED
  BY <1>1, ReaderAloneGoes, GoesKeeps, ReaderOnlyKeeps

-----------------------------------------------------------------------------
(* The reader and the slot of its broker.                                     *)

(* A step that changes one broker keeps the pipes of the others.              *)
LEMMA PipeKeeps ==
    ASSUME Typed, PipeInv, NEW b \in Brokers, Only(b), PipeOf(b)',
           \A u \in Users : thread'[u] = thread[u] \/ thread[u].b = b \/ thread[u].pc = "none"
    PROVE  PipeInv'
<1>1. SUFFICES ASSUME NEW c \in Brokers \ {b} PROVE PipeOf(c)'
  BY DEF PipeInv
<1>2. PipeOf(c) /\ broker'[c] = broker[c] /\ broker[c].slot \in Users \cup {"free"}
  BY Types DEF PipeInv, Only, BrokerState
<1>3. CASE Clean(c)
  BY <1>2, <1>3 DEF PipeOf, Clean
<1>4. CASE ~Clean(c)
  <2>1. /\ broker[c].slot \in Users /\ thread[broker[c].slot].b = c
        /\ thread[broker[c].slot].pc # "none"
    BY <1>2, <1>4 DEF PipeOf, Carries
  <2>2. thread'[broker[c].slot] = thread[broker[c].slot]
    BY <2>1
  <2> QED
    BY <1>2, <2>2, PipeOfFrame
<1> QED
  BY <1>3, <1>4

(* A step that starts at most one process keeps the names in order.           *)
LEMMA HandleKeeps ==
    ASSUME Typed, HandleInv, NEW b \in Brokers, Only(b), started' \in Nat, started <= started',
           made' \in Nat, made <= made', broker'[b].handle \in {0, broker[b].handle, started'},
           broker'[b].alive => broker'[b].handle # 0 /\ b <= made'
    PROVE  HandleInv'
<1>1. broker'[b].handle <= started'
  BY Types DEF HandleInv, BrokerState
<1>2. ASSUME NEW c \in Brokers \ {b}
      PROVE  /\ broker'[c].handle <= started'
             /\ broker'[c].alive => broker'[c].handle # 0 /\ c <= made'
  <2>1. broker'[c] = broker[c] /\ broker[c].handle \in Nat /\ broker[c].handle <= started
        /\ (broker[c].alive => broker[c].handle # 0 /\ c <= made) /\ c \in Nat
    BY Types DEF Only, HandleInv, BrokerState, Brokers
  <2> QED
    BY <2>1, Types
<1> QED
  BY <1>1, <1>2 DEF HandleInv

(* The slot of an idle broker is taken or given back.                         *)
Slotted(b, s, a) ==
    /\ Only(b)
    /\ broker'[b].slot = s /\ broker'[b].abort = a
    /\ broker'[b].handle = broker[b].handle /\ broker'[b].doomed = broker[b].doomed
    /\ broker'[b].alive = broker[b].alive /\ broker'[b].cfg = broker[b].cfg
    /\ broker'[b].fatal = broker[b].fatal /\ broker'[b].quiesced = broker[b].quiesced
    /\ broker'[b].req = 0 /\ broker'[b].resp = 0

(* The update of the slot, field by field.                                    *)
LEMMA SlottedIs ==
    ASSUME Typed, NEW b \in Brokers, Clean(b), NEW s \in Users \cup {"free"}, NEW a \in BOOLEAN,
           NEW ready \in BOOLEAN,
           broker' = [broker EXCEPT ![b] =
                        [broker[b] EXCEPT !.slot = s, !.abort = a, !.ready = ready]]
    PROVE  Slotted(b, s, a)
<1> DEFINE r == [broker[b] EXCEPT !.slot = s, !.abort = a, !.ready = ready]
<1>1. broker[b] \in BrokerState /\ BrokersOK
  BY Types DEF Typed
<1>2. r \in BrokerState
  BY <1>1 DEF BrokerState
<1>3. Only(b) /\ broker'[b] = r
  BY <1>1, <1>2, OneOnly
<1>4. /\ r.slot = s /\ r.abort = a /\ r.req = broker[b].req /\ r.resp = broker[b].resp
      /\ r.handle = broker[b].handle /\ r.doomed = broker[b].doomed
      /\ r.alive = broker[b].alive /\ r.cfg = broker[b].cfg
      /\ r.fatal = broker[b].fatal /\ r.quiesced = broker[b].quiesced
  BY <1>1 DEF BrokerState
<1> QED
  BY <1>3, <1>4 DEF Slotted, Clean

(* With a clean pipe it keeps everything about the brokers.                   *)
LEMMA SlottedKeeps ==
    ASSUME Answers, NEW b \in Brokers, NEW s \in Users \cup {"free"}, NEW a \in BOOLEAN,
           Slotted(b, s, a), UNCHANGED <<started, made>>,
           \A u \in Users : thread'[u] = thread[u] \/ thread[u].b = b \/ thread[u].pc = "none"
    PROVE  BrokersOK' /\ HandleInv' /\ PipeInv'
<1>1. BrokersOK' /\ Only(b) /\ PipeOf(b)'
  BY DEF Slotted, Only, BrokersOK, PipeOf, Clean
<1>2. PipeInv'
  BY <1>1, PipeKeeps DEF Answers
<1>3. HandleInv'
  BY <1>1, HandleKeeps, Types DEF Answers, Slotted, HandleInv
<1> QED
  BY <1>1, <1>2, <1>3

(* The reader takes a free slot, and with a read starts a thread.             *)
LEMMA TakeIs ==
    ASSUME Answers, Take
    PROVE  /\ UNCHANGED <<scene, sync, maint, registered, made, started, sent, binding,
                          generation, held, faults>>
           /\ reader.pc = "take"
           /\ \E b \in Brokers : /\ b = reader.own /\ b <= made /\ broker[b].slot = "free"
                                 /\ Slotted(b, "reader", FALSE)
           /\ reader' \in ReaderState /\ reader'.mode = reader.mode /\ reader'.own = reader.own
           /\ reader'.stop = reader.stop /\ reader'.gen = reader.gen
           /\ reader'.pc = IF reader.mode = "read" THEN "wait" ELSE "start"
           /\ ThreadsOK' /\ thread'["sync"] = thread["sync"] /\ thread["reader"].pc = "none"
           /\ IF reader.mode = "read"
                THEN thread'["reader"].pc = "start" /\ thread'["reader"].b = reader.own
                ELSE thread'["reader"] = thread["reader"]
<1> USE DEF Answers
<1>1. /\ UNCHANGED <<scene, sync, maint, registered, made, started, sent, binding, generation,
                     held, faults>>
      /\ reader.pc = "take" /\ broker[reader.own].slot = "free"
  BY DEF Take, TakeSlot, readerOnly
<1>2. PICK b \in Brokers : b = reader.own /\ b <= made
  BY <1>1, Types, Fields DEF OwnInv, Brokers, NoBroker
<1>3. broker[b] \in BrokerState /\ reader \in ReaderState /\ made \in Nat /\ ThreadsOK
  BY Types, ReaderParts DEF Typed
<1>4. Clean(b)
  BY <1>1, <1>2 DEF PipeInv, PipeOf
<1>5. Slotted(b, "reader", FALSE)
  <2>1. broker' = [broker EXCEPT ![b] = [broker[b] EXCEPT !.slot = "reader", !.abort = FALSE,
                                                          !.ready = broker[b].ready]]
    BY <1>2, <1>3 DEF Take, TakeSlot, Typed, BrokersOK, BrokerState
  <2> QED
    BY <1>3, <1>4, <2>1, SlottedIs DEF Users, BrokerState
<1>6. /\ reader' \in ReaderState /\ reader'.mode = reader.mode /\ reader'.own = reader.own
      /\ reader'.stop = reader.stop /\ reader'.gen = reader.gen
      /\ reader'.pc = IF reader.mode = "read" THEN "wait" ELSE "start"
  BY <1>3 DEF Take, ReaderState
<1>7. /\ ThreadsOK' /\ thread'["sync"] = thread["sync"] /\ thread["reader"].pc = "none"
      /\ IF reader.mode = "read"
           THEN thread'["reader"].pc = "start" /\ thread'["reader"].b = b
           ELSE thread'["reader"] = thread["reader"]
  <2>1. [NoThread EXCEPT !.pc = "start", !.b = b] \in ThreadState
    <3>1. 0 \in 0 .. MaxBrokers /\ b \in 0 .. MaxBrokers
      BY CameraBounds DEF Brokers
    <3> QED
      BY <3>1 DEF NoThread, ThreadState, NoBroker
  <2>2. thread["reader"].pc = "none"
    BY <1>1 DEF SlotInv, ReadUnderWay, Stopping
  <2>3. CASE reader.mode = "read"
    BY <1>2, <1>3, <2>1, <2>2, <2>3 DEF Take, ThreadsOK, Users, NoThread
  <2>4. CASE reader.mode # "read"
    BY <2>2, <2>4, TypedFrame DEF Take, Typed
  <2> QED
    BY <2>3, <2>4
<1> QED
  BY <1>1, <1>2, <1>5, <1>6, <1>7

(* Taking the slot keeps the first half.                                      *)
LEMMA TakeKeeps ==
    ASSUME Answers, Take
    PROVE  Answers'
<1> USE DEF Answers
<1>1. /\ UNCHANGED <<scene, sync, maint, registered, made, started, sent, binding, generation,
                     held, faults>>
      /\ reader.pc = "take"
  BY TakeIs
<1>2. PICK b \in Brokers : /\ b = reader.own /\ b <= made /\ broker[b].slot = "free"
                           /\ Slotted(b, "reader", FALSE)
  BY TakeIs
<1>3. reader \in ReaderState /\ made \in Nat
  BY Types, ReaderParts DEF Typed
<1>5. Slotted(b, "reader", FALSE)
  BY <1>2
<1>6. /\ reader' \in ReaderState /\ reader'.mode = reader.mode /\ reader'.own = reader.own
      /\ reader'.stop = reader.stop /\ reader'.gen = reader.gen
      /\ reader'.pc = IF reader.mode = "read" THEN "wait" ELSE "start"
  BY TakeIs
<1>7. /\ ThreadsOK' /\ thread'["sync"] = thread["sync"] /\ thread["reader"].pc = "none"
      /\ IF reader.mode = "read"
           THEN thread'["reader"].pc = "start" /\ thread'["reader"].b = b
           ELSE thread'["reader"] = thread["reader"]
  BY <1>2, TakeIs
<1>8. BrokersOK' /\ HandleInv' /\ PipeInv'
  BY <1>1, <1>5, <1>7, SlottedKeeps DEF Users
<1>9. Typed'
  BY <1>1, <1>6, <1>7, <1>8, TypedFrame DEF Typed, ReaderOK
<1>10. OwnInv' /\ ModeInv'
  BY <1>1, <1>2, <1>3, <1>6, <1>7 DEF OwnInv, ModeInv, Stopping, Users, ReaderState
<1>11. /\ sync.pc \in {"wait", "unslot"} =>
            /\ broker[sync.own].slot = "sync" /\ broker'[sync.own] = broker[sync.own]
            /\ thread["sync"].b = sync.own
       /\ broker'[b].slot = "reader"
  BY SMTT(30), <1>1, <1>2, <1>5, Types, Fields
     DEF SlotInv, OwnInv, Slotted, Only, Brokers, NoBroker
<1>12. SlotInv'
  BY <1>1, <1>2, <1>3, <1>6, <1>7, <1>11
     DEF SlotInv, ReadUnderWay, RestartUnderWay, Stopping, ReaderState
<1>13. AbortInv'
  BY <1>1, <1>6, <1>11 DEF AbortInv, Stopping
<1>14. AnswersOwnRequest'
  BY <1>7 DEF AnswersOwnRequest, Users
<1> QED
  BY <1>8, <1>9, <1>10, <1>12, <1>13, <1>14

(* The reader gives its slot back.                                            *)
Leaves ==
    \/ Rests /\ reader.pc # "boot"
    \/ (Stays("failed") \/ Stays("restart")) /\ reader.mode = "read"
    \/ StopsNow(registered, "confirm") /\ registered # NoBroker /\ reader.mode = "read"
    \/ Stays("check") /\ reader.mode = "restart" /\ reader.pc = "boot"

(* Giving back the slot keeps the first half.                                 *)
LEMMA LeavesKeeps ==
    ASSUME Answers, Leaves, NEW b \in Brokers, b = reader.own, broker[b].slot = "reader",
           NEW a \in BOOLEAN, broker[b].abort => a, Slotted(b, "free", a), ThreadsOK',
           thread'["sync"] = thread["sync"], thread'["reader"].pc = "none",
           thread'["reader"].b <= made,
           UNCHANGED <<scene, sync, maint, made, started, sent, binding, generation, held, faults>>,
           registered' \in 0 .. made,
           thread["reader"].b = b \/ thread["reader"].pc = "none"
    PROVE  Answers'
<1> USE DEF Answers
<1>1. reader' \in ReaderState
  BY DEF Leaves, Rests, Stays, StopsNow, Moved
<1>2. BrokersOK' /\ HandleInv' /\ PipeInv'
  BY SlottedKeeps DEF Users
<1>3. Typed'
  BY <1>1, <1>2, TypedFrame DEF Typed, ReaderOK, BooksOK
<1>4. /\ made \in Nat /\ registered \in Nat /\ registered <= made
      /\ reader.own \in Nat /\ reader.own <= made /\ reader.own # 0
  BY Types, Fields DEF OwnInv, Brokers
<1>5. OwnInv'
  BY <1>1, <1>4 DEF OwnInv, ModeInv, Leaves, Rests, Stays, StopsNow, Moved, Stopping, NoBroker,
     Users
<1>6. ModeInv'
  BY <1>1, <1>4 DEF ModeInv, Leaves, Rests, Stays, StopsNow, Moved, Stopping
<1>7. /\ ~ReadUnderWay' /\ ~RestartUnderWay'
      /\ reader'.pc # "stopping" /\ reader'.pc # "join"
  BY <1>1, <1>4
     DEF Leaves, Rests, Stays, StopsNow, Moved, Stopping, ReadUnderWay, RestartUnderWay
<1>8. sync.pc \in {"wait", "unslot"} =>
        /\ broker[sync.own].slot = "sync" /\ broker'[sync.own] = broker[sync.own]
        /\ thread["sync"].b = sync.own
  <2>1. SUFFICES ASSUME sync.pc \in {"wait", "unslot"}
                 PROVE  /\ broker[sync.own].slot = "sync" /\ thread["sync"].b = sync.own
                        /\ broker'[sync.own] = broker[sync.own]
    OBVIOUS
  <2>2. /\ broker[sync.own].slot = "sync" /\ thread["sync"].b = sync.own
        /\ sync.own \in Brokers
    BY <2>1, Types, Fields DEF SlotInv, OwnInv, Brokers, NoBroker
  <2> QED
    BY <2>2 DEF Slotted, Only
<1>9. SlotInv' /\ AbortInv'
  BY <1>7, <1>8 DEF SlotInv, AbortInv, Stopping
<1>10. AnswersOwnRequest'
  BY DEF AnswersOwnRequest, Users
<1> QED
  BY <1>2, <1>3, <1>5, <1>6, <1>9, <1>10

(* The four actions that give back the slot, whose pipe is clean by then.     *)
LEMMA ReaderReleases ==
    ASSUME Answers, ReadReturns \/ Join \/ RestartReady \/ Unslot
    PROVE  /\ Leaves
           /\ \E b \in Brokers : /\ b = reader.own /\ broker[b].slot = "reader"
                                 /\ Slotted(b, "free", broker[b].abort)
           /\ ThreadsOK' /\ thread'["sync"] = thread["sync"]
           /\ thread'["reader"].pc = "none" /\ thread'["reader"].b <= made
           /\ UNCHANGED <<scene, sync, maint, made, started, sent, binding, generation, held,
                          faults>>
           /\ registered' \in 0 .. made
           /\ \/ UNCHANGED registered
              \/ /\ registered = reader.own /\ registered' = NoBroker
                 /\ ~broker[registered].alive /\ reader'.pc = "idle"
           /\ thread["reader"].b = reader.own \/ thread["reader"].pc = "none"
<1> USE DEF Answers
<1>1. UNCHANGED <<scene, sync, maint, made, started, sent, binding, generation, held, faults>>
  BY DEF ReadReturns, Join, RestartReady, Unslot, readerOnly
<1>2. /\ thread["reader"].b = reader.own \/ thread["reader"].pc = "none"
      /\ reader.own \in Brokers /\ broker[reader.own].slot = "reader"
      /\ reader.mode = IF ReadUnderWay THEN "read" ELSE "restart"
  <2>1. ReadUnderWay \/ RestartUnderWay
    BY DEF ReadReturns, Join, RestartReady, Unslot, ReadUnderWay, RestartUnderWay
  <2>2. reader.own \in Brokers
    BY <2>1, Types, Fields
       DEF OwnInv, ModeInv, ReadUnderWay, RestartUnderWay, Stopping, Brokers, NoBroker
  <2> QED
    BY <2>1, <2>2 DEF SlotInv, ModeInv, ReadUnderWay, RestartUnderWay, Stopping
<1>3. PICK b \in Brokers : b = reader.own
  BY <1>2
<1>4. /\ broker[b] \in BrokerState /\ reader \in ReaderState /\ made \in Nat /\ ThreadsOK
      /\ registered \in 0 .. made /\ registered \in 0 .. MaxBrokers /\ BrokersOK
      /\ generation \in 0 .. 1 /\ reader.gen <= generation /\ reader.gen \in 0 .. 1
      /\ reader.cancelled \in BOOLEAN /\ reader.cfg \in Bindings \cup {0}
  BY Types, ReaderParts DEF Typed, BooksOK, ModeInv, RestOK, ReaderState
<1>5. Clean(b)
  <2>1. \/ thread["reader"].pc \notin {"poll", "done"} \/ broker[b].abort
        \/ thread["reader"].pc = "done" /\ thread["reader"].ok
    BY <1>3 DEF ReadReturns, Join, RestartReady, Unslot, SlotInv, AbortInv, ReadUnderWay,
       Stopping
  <2> QED
    BY <1>2, <1>3, <2>1 DEF PipeInv, PipeOf, Carries
<1>6. Slotted(b, "free", broker[b].abort)
  <2>1. \E ready \in BOOLEAN : broker' = [broker EXCEPT ![b] = [broker[b] EXCEPT !.slot = "free",
                                       !.abort = broker[b].abort, !.ready = ready]]
    <3>1. CASE ReadReturns \/ Join \/ Unslot
      <4>1. broker' = [broker EXCEPT ![b] = [broker[b] EXCEPT !.slot = "free",
                               !.abort = broker[b].abort, !.ready = broker[b].ready]]
        BY ZenonT(40), <1>3, <1>4, <3>1 DEF ReadReturns, Join, Unslot, BrokersOK, BrokerState
      <4> QED
        BY <1>4, <4>1 DEF BrokerState
    <3>2. CASE RestartReady
      <4>1. broker' = [broker EXCEPT ![b] = [broker[b] EXCEPT !.slot = "free",
                               !.abort = broker[b].abort, !.ready = TRUE]]
        BY <1>3, <1>4, <3>2 DEF RestartReady, BrokersOK, BrokerState
      <4> QED
        BY <4>1
    <3> QED
      BY <3>1, <3>2
  <2>2. PICK ready \in BOOLEAN :
          broker' = [broker EXCEPT ![b] = [broker[b] EXCEPT !.slot = "free",
                                       !.abort = broker[b].abort, !.ready = ready]]
    BY <2>1
  <2>3. broker[b].abort \in BOOLEAN
    BY <1>4 DEF BrokerState
  <2> QED
    BY <1>5, <2>2, <2>3, SlottedIs
<1>7. /\ ThreadsOK' /\ thread'["sync"] = thread["sync"]
      /\ thread'["reader"].pc = "none" /\ thread'["reader"].b <= made
  <2>1. NoThread \in ThreadState /\ NoThread.pc = "none" /\ NoThread.b = 0
    BY CameraBounds DEF NoThread, ThreadState, NoBroker
  <2>2. CASE ReadReturns \/ Join
    <3>1. thread' = [thread EXCEPT !["reader"] = NoThread]
      BY <2>2 DEF ReadReturns, Join
    <3> QED
      BY <1>4, <2>1, <3>1 DEF ThreadsOK, Users
  <2>3. CASE RestartReady \/ Unslot
    BY <2>3, TypedFrame
       DEF RestartReady, Unslot, Typed, SlotInv, ReadUnderWay, Stopping, OwnInv, Users
  <2> QED
    BY <2>2, <2>3
<1>8. registered' \in 0 .. made
  BY <1>4 DEF ReadReturns, Join, RestartReady, Unslot, Unregister, NoBroker
<1>11. \/ UNCHANGED registered
       \/ /\ registered = reader.own /\ registered' = NoBroker
          /\ ~broker[registered].alive /\ reader'.pc = "idle"
  BY ReaderParts DEF ReadReturns, Join, RestartReady, Unslot, Unregister
<1>9. Leaves
  <2>1. CASE ReadReturns
    BY <1>4, <2>1, ReaderParts DEF ReadReturns, Leaves, Rests, Moved
  <2>2. CASE RestartReady
    <3>1. reader' = [reader EXCEPT !.pc = "check"] /\ reader.mode = "restart"
          /\ reader.pc = "boot"
      BY <2>2 DEF RestartReady, ModeInv
    <3> QED
      BY <1>4, <3>1 DEF Leaves, Stays, Moved, ReaderState
  <2>3. CASE Unslot
    <3>1. reader' = Restarted(reader) /\ reader.mode = "restart" /\ reader.pc = "unslot"
      BY <2>3 DEF Unslot, ModeInv
    <3> QED
      BY <1>4, <3>1, ReaderParts DEF Leaves, Rests, Moved
  <2>4. CASE Join
    <3>1. reader.mode = "read" /\ reader.pc = "join"
      BY <2>4 DEF Join, ModeInv
    <3>2. CASE reader' = Failing(reader)
      BY <3>1, <3>2, FailingIs DEF Leaves
    <3>3. CASE reader' = [reader EXCEPT !.pc = "restart"]
      BY <1>4, <3>1, <3>3 DEF Leaves, Stays, Moved, ReaderState
    <3>4. CASE reader' = AbortRegistered(reader, "confirm", "restart")
      <4>1. CASE registered = NoBroker
        <5>1. reader' = [reader EXCEPT !.pc = "restart", !.dead = TRUE]
          BY <3>4, <4>1 DEF AbortRegistered
        <5> QED
          BY <1>4, <3>1, <5>1 DEF Leaves, Stays, Moved, ReaderState
      <4>2. CASE registered # NoBroker
        <5>1. /\ reader' = Aborting(reader, registered, "confirm")
              /\ reader = [reader EXCEPT !.cancelled = reader.cancelled, !.cfg = reader.cfg]
          BY <1>4, <3>4, <4>2 DEF AbortRegistered, ReaderState
        <5>2. StopsNow(registered, "confirm")
          BY <1>4, <5>1, AbortingIs
        <5> QED
          BY <3>1, <4>2, <5>2 DEF Leaves
      <4> QED
        BY <4>1, <4>2
    <3> QED
      BY <2>4, <3>2, <3>3, <3>4 DEF Join
  <2> QED
    BY <2>1, <2>2, <2>3, <2>4
<1>10. \E c \in Brokers : /\ c = reader.own /\ broker[c].slot = "reader"
                          /\ Slotted(c, "free", broker[c].abort)
  BY <1>2, <1>3, <1>6
<1> QED
  BY <1>1, <1>2, <1>7, <1>8, <1>9, <1>10, <1>11

(* So they keep the first half.                                               *)
LEMMA ReaderReleasesKeep ==
    ASSUME Answers, ReadReturns \/ Join \/ RestartReady \/ Unslot
    PROVE  Answers'
<1>1. PICK b \in Brokers : /\ b = reader.own /\ broker[b].slot = "reader"
                            /\ Slotted(b, "free", broker[b].abort)
  BY ReaderReleases
<1>2. broker[b].abort \in BOOLEAN
  BY Types DEF Answers, BrokerState
<1> QED
  BY <1>1, <1>2, ReaderReleases, LeavesKeeps

(* A broker is made; the old one, if there is one, is stopped.                *)
Makes(old, cfg) ==
    /\ made < MaxBrokers /\ made' = made + 1 /\ registered' = made + 1
    /\ broker' \in [Brokers -> BrokerState] /\ broker'[made + 1] = Fresh(cfg)
    /\ \A c \in Brokers : c \notin {old, made + 1} => broker'[c] = broker[c]
    /\ old # NoBroker => Stopped(old) /\ ~broker'[old].alive

(* A new broker has no child.                                                 *)
LEMMA FreshIs ==
    ASSUME NEW cfg \in Bindings \cup {0}
    PROVE  /\ Fresh(cfg) \in BrokerState /\ Fresh(cfg).cfg = cfg /\ Fresh(cfg).handle = 0
           /\ ~Fresh(cfg).alive /\ Fresh(cfg).slot = "free"
           /\ Fresh(cfg).req = 0 /\ Fresh(cfg).resp = 0
           /\ ~Fresh(cfg).fatal /\ ~Fresh(cfg).quiesced
BY DEF Fresh, BrokerState

(* Making a broker keeps everything about the brokers.                        *)
LEMMA MakesKeeps ==
    ASSUME Answers, NEW old \in 0 .. made, NEW cfg \in Bindings \cup {0}, Makes(old, cfg),
           UNCHANGED <<started, sent>>,
           UNCHANGED thread \/ (old # NoBroker /\ ThreadReleased(old))
    PROVE  /\ BrokersOK' /\ ThreadsOK' /\ HandleInv' /\ PipeInv' /\ AnswersOwnRequest'
           /\ BooksOK' /\ BrokersKeep /\ ThreadsKeep
           /\ made + 1 \in Brokers
<1> USE DEF Answers, Makes
<1>1. /\ made \in Nat /\ made + 1 \in Brokers /\ made + 1 # old /\ MaxBrokers \in Nat
      /\ old # NoBroker => old \in Brokers
  BY Types DEF Brokers, NoBroker
<1>2. BrokersOK' /\ BooksOK'
  BY <1>1 DEF BrokersOK, BooksOK, Typed
<1>3. /\ ThreadsOK' /\ ThreadsKeep
      /\ thread'["sync"] = thread["sync"]
      /\ thread["reader"].b # old => UNCHANGED thread
      /\ thread'["reader"] # thread["reader"] =>
           thread'["reader"].pc = "done" /\ ~thread'["reader"].ok
  BY DEF Typed, ThreadsOK, ThreadState, ThreadReleased, ThreadsKeep, Users, LiveThread
<1>4. HandleInv'
  <2>1. SUFFICES ASSUME NEW c \in Brokers
                 PROVE  /\ broker'[c].handle <= started'
                        /\ broker'[c].alive => broker'[c].handle # 0 /\ c <= made'
    BY DEF HandleInv
  <2>2. /\ broker[c].handle <= started /\ broker[c].handle \in Nat /\ started \in Nat
        /\ broker[c].alive => broker[c].handle # 0 /\ c <= made
        /\ c \in Nat
    BY Types DEF HandleInv, BrokerState, Brokers
  <2>3. CASE c = made + 1
    BY <1>1, <2>2, <2>3, FreshIs
  <2>4. CASE c = old /\ old # NoBroker
    BY <1>1, <2>2, <2>4 DEF Stopped
  <2>5. CASE c \notin {old, made + 1}
    BY <1>1, <2>2, <2>5
  <2> QED
    BY <2>3, <2>4, <2>5 DEF NoBroker, Brokers
<1>5. PipeInv'
  <2>1. SUFFICES ASSUME NEW c \in Brokers PROVE PipeOf(c)'
    BY DEF PipeInv
  <2>2. CASE c = made + 1
    BY <2>2, FreshIs DEF PipeOf, Clean
  <2>3. CASE c = old /\ old # NoBroker
    BY <2>3 DEF PipeOf, Clean, Stopped
  <2>4. CASE c \notin {old, made + 1}
    <3>1. PipeOf(c) /\ broker'[c] = broker[c] /\ broker[c].slot \in Users \cup {"free"}
      BY <2>4, Types DEF PipeInv, BrokerState
    <3>2. CASE Clean(c)
      BY <3>1, <3>2 DEF PipeOf, Clean
    <3>3. CASE ~Clean(c)
      <4>1. broker[c].slot \in Users /\ thread[broker[c].slot].b = c
        BY <3>1, <3>3 DEF PipeOf, Carries
      <4>2. thread'[broker[c].slot] = thread[broker[c].slot]
        BY <1>3, <2>4, <4>1 DEF Users
      <4> QED
        BY <3>1, <4>2, PipeOfFrame
    <3> QED
      BY <3>2, <3>3
  <2> QED
    BY <2>2, <2>3, <2>4 DEF NoBroker, Brokers
<1>6. AnswersOwnRequest'
  BY <1>3 DEF AnswersOwnRequest, Users
<1>7. BrokersKeep
  <2>1. SUFFICES ASSUME NEW c \in 1 .. made
                 PROVE  /\ broker'[c].slot = broker[c].slot
                        /\ broker[c].abort => broker'[c].abort
                        /\ \/ broker'[c].handle = 0
                           \/ broker'[c].handle > started
                           \/ /\ broker'[c].handle = broker[c].handle
                              /\ broker[c].doomed => broker'[c].doomed
    BY DEF BrokersKeep
  <2>2. c \in Brokers /\ c # made + 1
    BY <1>1 DEF Brokers
  <2>3. CASE c = old
    BY <1>1, <2>3 DEF Stopped, NoBroker
  <2>4. CASE c # old
    BY <2>2, <2>4
  <2> QED
    BY <2>3, <2>4
<1> QED
  BY <1>1, <1>2, <1>3, <1>4, <1>5, <1>6, <1>7

(* The reader makes a broker only where none is registered.                   *)
LEMMA ResolveMakes ==
    ASSUME Answers, Resolve, ~UNCHANGED <<broker, registered, made>>
    PROVE  /\ reader.pc = "resolve" /\ registered = NoBroker /\ Makes(NoBroker, reader.cfg)
           /\ reader.cfg \notin held
           /\ Moved("take", reader.mode, made + 1) /\ reader'.stop = reader.stop
           /\ UNCHANGED <<scene, sync, maint, started, sent, binding, generation, held, thread,
                          faults>>
<1> USE DEF Answers
<1>1. /\ reader.pc = "resolve" /\ registered = NoBroker /\ made < MaxBrokers
      /\ made' = made + 1 /\ registered' = made + 1 /\ reader.cfg \notin held
      /\ broker' = [broker EXCEPT ![made + 1] = Fresh(reader.cfg)]
      /\ reader' = [reader EXCEPT !.pc = "take", !.own = made + 1]
      /\ UNCHANGED <<scene, sync, maint, started, sent, binding, generation, held, thread, faults>>
  BY DEF Resolve, readerOnly
<1>2. made \in Nat /\ made + 1 \in Brokers /\ made + 1 \in 0 .. MaxBrokers
  BY <1>1, Types DEF Brokers
<1>3. /\ reader \in ReaderState /\ reader.cfg \in Bindings \cup {0} /\ BrokersOK
      /\ reader.gen <= generation
  BY ReaderParts DEF Typed, ReaderState, ModeInv
<1>4. Makes(NoBroker, reader.cfg)
  BY <1>1, <1>2, <1>3, FreshIs DEF Makes, BrokersOK
<1>5. Moved("take", reader.mode, made + 1) /\ reader'.stop = reader.stop
  BY <1>1, <1>2, <1>3 DEF Moved, ReaderState
<1> QED
  BY <1>1, <1>4, <1>5

(* Making it keeps the first half.                                            *)
LEMMA ResolveMakesKeeps ==
    ASSUME Answers, Resolve, ~UNCHANGED <<broker, registered, made>>
    PROVE  Answers'
<1> USE DEF Answers
<1>1. /\ reader.pc = "resolve" /\ registered = NoBroker /\ Makes(NoBroker, reader.cfg)
      /\ Moved("take", reader.mode, made + 1) /\ reader'.stop = reader.stop
      /\ UNCHANGED <<scene, sync, maint, started, sent, binding, generation, held, thread,
                     faults>>
  BY ResolveMakes
<1>2. NoBroker \in 0 .. made /\ reader.cfg \in Bindings \cup {0} /\ made \in Nat
  BY Types, ReaderParts DEF NoBroker, ReaderState
<1>3. /\ BrokersOK' /\ ThreadsOK' /\ HandleInv' /\ PipeInv' /\ AnswersOwnRequest'
      /\ BooksOK' /\ BrokersKeep /\ ThreadsKeep
  BY <1>1, <1>2, MakesKeeps
<1>4. Typed'
  BY <1>1, <1>3, TypedFrame DEF Typed, ReaderOK, Moved
<1>5. made' = made + 1
  BY <1>1 DEF Makes
<1>6. OwnInv' /\ ModeInv'
  BY <1>1, <1>2, <1>5, Fields DEF OwnInv, ModeInv, Moved, Stopping, NoBroker
<1>7. sync.pc \in {"wait", "unslot"} =>
        broker'[sync.own].slot = "sync" /\ (broker[sync.own].abort => broker'[sync.own].abort)
  BY <1>2, <1>3, Fields DEF SlotInv, OwnInv, BrokersKeep, NoBroker
<1>8. SlotInv' /\ AbortInv'
  BY <1>1, <1>7
     DEF SlotInv, AbortInv, Moved, Stopping, ReadUnderWay, RestartUnderWay
<1> QED
  BY <1>3, <1>4, <1>6, <1>8

-----------------------------------------------------------------------------
(* The reader stops or starts a child.                                        *)

(* The first half of abort_async, field by field.                             *)
LEMMA SignalsIs ==
    ASSUME Typed, HandleInv, PipeInv, NEW b \in Brokers, AbortSignals(b)
    PROVE  /\ Only(b) /\ Stopped(b) /\ faults' \in FaultState
           /\ broker'[b].handle = broker[b].handle /\ broker'[b].fatal = broker[b].fatal
<1> DEFINE r == broker[b]
<1>1. r \in BrokerState /\ BrokersOK /\ RestOK
  BY Types DEF Typed
<1>2. Signalled(r) \in BrokerState /\ Killed(r) \in BrokerState
  BY <1>1, Operations
<1>3. /\ Signalled(r).slot = r.slot /\ Signalled(r).cfg = r.cfg
      /\ Signalled(r).quiesced = r.quiesced /\ Signalled(r).abort
      /\ Signalled(r).req = 0 /\ Signalled(r).resp = 0 /\ Signalled(r).handle = r.handle
      /\ r.handle # 0 => Signalled(r).doomed
      /\ Signalled(r).alive = r.alive /\ Signalled(r).fatal = r.fatal
  BY <1>1 DEF Signalled, Closed, BrokerState
<1>4. /\ Killed(r).slot = r.slot /\ Killed(r).cfg = r.cfg
      /\ Killed(r).quiesced = r.quiesced /\ Killed(r).abort
      /\ Killed(r).req = 0 /\ Killed(r).resp = 0 /\ Killed(r).handle = r.handle
      /\ r.handle # 0 => Killed(r).doomed
      /\ ~Killed(r).alive /\ Killed(r).fatal = r.fatal
  BY <1>2, <1>3 DEF Killed, BrokerState
<1>5. faults' \in FaultState
  BY <1>1, SpendKeeps DEF AbortSignals
<1>6. CASE broker' = [broker EXCEPT ![b] = Signalled(r)]
  <2>1. Only(b) /\ broker'[b] = Signalled(r)
    BY <1>1, <1>2, <1>6, OneOnly
  <2> QED
    BY <1>3, <1>5, <2>1 DEF Stopped, Clean
<1>7. CASE broker' = [broker EXCEPT ![b] = Killed(r)]
  <2>1. Only(b) /\ broker'[b] = Killed(r)
    BY <1>1, <1>2, <1>7, OneOnly
  <2> QED
    BY <1>4, <1>5, <2>1 DEF Stopped, Clean
<1> QED
  BY <1>6, <1>7 DEF AbortSignals

(* A stop begins: the process it signals is remembered.                       *)
LEMMA StopBeginsIs ==
    ASSUME Answers, StopBegins
    PROVE  /\ reader.pc = "stop" /\ Moved("stopping", reader.mode, reader.own)
           /\ reader'.cancelled = reader.cancelled
           /\ reader'.stop.b = reader.stop.b /\ reader'.stop.why = reader.stop.why
           /\ reader'.stop.p = broker[reader.stop.b].handle
           /\ UNCHANGED <<scene, sync, maint, registered, made, started, sent, binding,
                          generation, held, thread>>
           /\ \E b \in Brokers : /\ b = reader.stop.b /\ b <= made /\ Only(b) /\ Stopped(b)
                                 /\ faults' \in FaultState
                                 /\ broker'[b].handle = broker[b].handle
                                 /\ broker'[b].fatal = broker[b].fatal
<1> USE DEF Answers
<1>1. /\ reader.pc = "stop" /\ AbortSignals(reader.stop.b)
      /\ reader' = [reader EXCEPT !.pc = "stopping", !.stop.p = broker[reader.stop.b].handle]
      /\ UNCHANGED <<scene, sync, maint, registered, made, started, sent, binding,
                     generation, held, thread>>
  BY DEF StopBegins, readerOnly
<1>2. PICK b \in Brokers : b = reader.stop.b /\ b <= made
  BY <1>1, Types, Fields DEF OwnInv, Stopping, Brokers, NoBroker
<1>3. broker[b].handle \in Nat /\ reader \in ReaderState /\ reader.stop \in Stops
      /\ reader.gen <= generation
  BY Types, ReaderParts DEF BrokerState, ModeInv
<1>4. [reader.stop EXCEPT !.p = broker[b].handle] \in Stops
  BY <1>3 DEF Stops
<1>5. reader' = [reader EXCEPT !.pc = "stopping",
                               !.stop = [reader.stop EXCEPT !.p = broker[b].handle]]
  BY <1>1, <1>2, <1>3 DEF ReaderState
<1>6. /\ Moved("stopping", reader.mode, reader.own) /\ reader'.cancelled = reader.cancelled
      /\ reader'.stop = [reader.stop EXCEPT !.p = broker[b].handle]
  BY <1>3, <1>4, <1>5 DEF ReaderState, Moved
<1>7. /\ reader'.stop.b = reader.stop.b /\ reader'.stop.why = reader.stop.why
      /\ reader'.stop.p = broker[reader.stop.b].handle
  BY <1>2, <1>3, <1>6 DEF Stops
<1>8. /\ Only(b) /\ Stopped(b) /\ faults' \in FaultState
      /\ broker'[b].handle = broker[b].handle /\ broker'[b].fatal = broker[b].fatal
  BY <1>1, <1>2, SignalsIs
<1> QED
  BY <1>1, <1>2, <1>6, <1>7, <1>8

(* The begin of a stop keeps the first half.                                  *)
LEMMA StopBeginsKeeps ==
    ASSUME Answers, StopBegins
    PROVE  Answers'
<1> USE DEF Answers
<1>1. PICK b \in Brokers : /\ b = reader.stop.b /\ b <= made /\ Only(b) /\ Stopped(b)
                           /\ faults' \in FaultState
                           /\ broker'[b].handle = broker[b].handle
  BY StopBeginsIs
<1>2. /\ reader.pc = "stop" /\ Moved("stopping", reader.mode, reader.own)
      /\ reader'.stop.b = reader.stop.b /\ reader'.stop.why = reader.stop.why
      /\ reader'.stop.p = broker[b].handle
      /\ UNCHANGED <<scene, sync, maint, registered, made, started, sent, binding, generation,
                     held, thread>>
  BY <1>1, StopBeginsIs
<1>3. /\ BrokersOK' /\ ThreadsOK' /\ HandleInv' /\ PipeInv' /\ AnswersOwnRequest'
      /\ BrokersKeep
  BY <1>1, <1>2, StoppedKeeps DEF ThreadReleased
<1>4. Typed'
  BY <1>1, <1>2, <1>3, TypedFrame DEF Typed, ReaderOK, RestOK, Moved
<1>5. OwnInv' /\ ModeInv'
  BY <1>2 DEF OwnInv, ModeInv, Moved, Stopping
<1>6. \A c \in 1 .. made : /\ broker'[c].slot = broker[c].slot
                           /\ broker[c].abort => broker'[c].abort
  BY <1>3 DEF BrokersKeep
<1>7. SlotInv'
  <2>1. ReadUnderWay \/ RestartUnderWay => reader.own \in 1 .. made
    BY Types, Fields DEF OwnInv, ReadUnderWay, RestartUnderWay, Stopping, ModeInv, NoBroker
  <2>2. sync.pc \in {"wait", "unslot"} => sync.own \in 1 .. made
    BY Types, Fields DEF OwnInv, NoBroker
  <2> QED
    BY <1>2, <1>6, <2>1, <2>2
       DEF SlotInv, Moved, Users, ReadUnderWay, RestartUnderWay, Stopping
<1>8. AbortInv'
  <2>1. sync.pc = "unslot" => sync.own \in 1 .. made
    BY Types, Fields DEF OwnInv, NoBroker
  <2>2. Stopping({"cleanup"}) => reader.own = b
    BY <1>1 DEF ModeInv, Stopping
  <2>3. /\ broker'[b].abort /\ broker'[b].handle <= started'
        /\ broker'[b].handle # 0 => broker'[b].doomed
    BY <1>1, <1>3 DEF Stopped, HandleInv
  <2> QED
    BY <1>1, <1>2, <1>6, <2>1, <2>2, <2>3 DEF AbortInv, Moved, Stopping
<1> QED
  BY <1>3, <1>4, <1>5, <1>7, <1>8

(* A stop ends, dead or not: only the handle goes, that of a process that was *)
(* signalled, and the fatal flag changes.                                     *)
Settled(b) ==
    /\ Only(b)
    /\ broker'[b].slot = broker[b].slot /\ broker'[b].abort = broker[b].abort
    /\ broker'[b].alive = broker[b].alive /\ broker'[b].cfg = broker[b].cfg
    /\ broker'[b].quiesced = broker[b].quiesced
    /\ broker'[b].req = broker[b].req /\ broker'[b].resp = broker[b].resp
    /\ \/ broker'[b].handle = broker[b].handle /\ broker'[b].doomed = broker[b].doomed
       \/ broker'[b].handle = 0 /\ ~broker[b].alive /\ Clean(b)

(* The second half of abort_async, confirmed.                                 *)
LEMMA ConfirmsIs ==
    ASSUME Typed, HandleInv, PipeInv, NEW b \in Brokers, NEW p \in Nat, AbortConfirms(b, p),
           p # 0 /\ broker[b].handle = p => broker[b].doomed
    PROVE  Settled(b) /\ faults' \in FaultState /\ ~broker'[b].fatal
           /\ ~(p # 0 /\ p = broker[b].handle /\ broker[b].alive)
           /\ ~LiveThread("reader", b)
<1> DEFINE r == broker[b]
<1>1. r \in BrokerState /\ BrokersOK /\ RestOK /\ faults \in FaultState
  BY Types DEF Typed, RestOK
<1>2. /\ ~(p # 0 /\ p = r.handle /\ r.alive) /\ ~LiveThread("reader", b)
      /\ faults' = faults
      /\ broker' = [broker EXCEPT ![b] =
                     IF p = @.handle THEN [@ EXCEPT !.handle = 0, !.fatal = FALSE, !.doomed = FALSE]
                     ELSE [@ EXCEPT !.fatal = FALSE]]
  BY DEF AbortConfirms, ThreadsDone, Unspent
<1>3. CASE p = r.handle
  <2> DEFINE s == [r EXCEPT !.handle = 0, !.fatal = FALSE, !.doomed = FALSE]
  <2>1. s \in BrokerState
    BY <1>1 DEF BrokerState
  <2>2. broker' = [broker EXCEPT ![b] = s]
    BY <1>2, <1>3
  <2>3. Only(b) /\ broker'[b] = s
    BY <1>1, <2>1, <2>2, OneOnly
  <2>4. /\ s.slot = r.slot /\ s.abort = r.abort /\ s.alive = r.alive /\ s.cfg = r.cfg
        /\ s.quiesced = r.quiesced /\ s.req = r.req /\ s.resp = r.resp /\ s.handle = 0
        /\ ~s.fatal
    BY <1>1 DEF BrokerState
  <2>5. ~r.alive /\ Clean(b)
    BY <1>2, <1>3 DEF HandleInv, PipeInv, PipeOf
  <2> QED
    BY <1>1, <1>2, <2>3, <2>4, <2>5 DEF Settled
<1>4. CASE p # r.handle
  <2> DEFINE s == [r EXCEPT !.fatal = FALSE]
  <2>1. s \in BrokerState
    BY <1>1 DEF BrokerState
  <2>2. broker' = [broker EXCEPT ![b] = s]
    BY <1>2, <1>4
  <2>3. Only(b) /\ broker'[b] = s
    BY <1>1, <2>1, <2>2, OneOnly
  <2>4. /\ s.slot = r.slot /\ s.abort = r.abort /\ s.alive = r.alive /\ s.cfg = r.cfg
        /\ s.quiesced = r.quiesced /\ s.req = r.req /\ s.resp = r.resp
        /\ s.handle = r.handle /\ s.doomed = r.doomed /\ ~s.fatal
    BY <1>1 DEF BrokerState
  <2> QED
    BY <1>1, <1>2, <2>3, <2>4 DEF Settled
<1> QED
  BY <1>3, <1>4

(* The second half of abort_async, given up.                                  *)
LEMMA GivesUpIs ==
    ASSUME Typed, NEW b \in Brokers, NEW p \in Nat, AbortGivesUp(b, p)
    PROVE  Settled(b) /\ faults' \in FaultState /\ broker'[b].fatal
<1> DEFINE r == broker[b]
           s == [r EXCEPT !.fatal = TRUE]
<1>1. r \in BrokerState /\ BrokersOK /\ RestOK
  BY Types DEF Typed
<1>2. faults' \in FaultState
  BY <1>1, SpendKeeps DEF AbortGivesUp
<1>3. broker' = [broker EXCEPT ![b] = s] /\ s \in BrokerState
  BY <1>1 DEF AbortGivesUp, BrokersOK, BrokerState
<1>4. Only(b) /\ broker'[b] = s
  BY <1>1, <1>3, OneOnly
<1>5. /\ s.slot = r.slot /\ s.abort = r.abort /\ s.alive = r.alive /\ s.cfg = r.cfg
      /\ s.quiesced = r.quiesced /\ s.req = r.req /\ s.resp = r.resp
      /\ s.handle = r.handle /\ s.doomed = r.doomed /\ s.fatal
  BY <1>1 DEF BrokerState
<1> QED
  BY <1>2, <1>4, <1>5 DEF Settled

(* Where the reader goes from there.                                          *)
Onward(why) ==
    \/ why = "swap" /\ reader'.stop.b = reader.stop.b /\ Moved("resolve", reader.mode, reader.own)
    \/ why = "swap" /\ Moved("failed", reader.mode, reader.own) /\ reader.mode = "read"
         /\ reader'.stop.b = reader.stop.b
    \/ why \in {"swap", "confirm", "invalidated"} /\ Rests
    \/ why = "cleanup" /\ Moved("join", reader.mode, reader.own)
         /\ reader'.stop.b = reader.stop.b
    \/ why = "failed" /\ Moved("retry", reader.mode, reader.own)
         /\ reader'.stop.b = reader.stop.b
    \/ why = "outer" /\ Moved("cleanup", reader.mode, reader.own)
         /\ reader'.stop.b = reader.stop.b
    \/ why = "confirm" /\ Moved("restart", reader.mode, reader.own)
         /\ reader'.stop.b = reader.stop.b
    \/ why = "startup" /\ Moved("unslot", reader.mode, reader.own)
         /\ reader'.stop.b = reader.stop.b

(* AfterStop goes one of these ways.                                          *)
LEMMA OnwardIs ==
    ASSUME Typed, ModeInv, OwnInv, reader.pc = "stopping", NEW dead \in BOOLEAN,
           reader' = AfterStop([reader EXCEPT !.stop.p = 0], dead)
    PROVE  /\ Onward(reader.stop.why)
           /\ reader'.cancelled = reader.cancelled \/ Rests
<1> DEFINE r == [reader EXCEPT !.stop.p = 0]
<1>1. /\ reader \in ReaderState /\ reader.stop \in Stops /\ reader.gen <= generation
      /\ reader.stop.why # "none"
  BY ReaderParts DEF ModeInv, OwnInv, Stopping
<1>2. [reader.stop EXCEPT !.p = 0] \in Stops /\ [reader.stop EXCEPT !.p = 0].b = reader.stop.b
      /\ [reader.stop EXCEPT !.p = 0].why = reader.stop.why
  BY <1>1 DEF Stops
<1>3. r = [reader EXCEPT !.stop = [reader.stop EXCEPT !.p = 0]]
  BY <1>1 DEF ReaderState
<1>4. /\ r \in ReaderState /\ r.mode = reader.mode /\ r.own = reader.own /\ r.gen = reader.gen
      /\ r.stop.b = reader.stop.b /\ r.stop.why = reader.stop.why
      /\ r.cancelled = reader.cancelled
  BY <1>1, <1>2, <1>3 DEF ReaderState
<1>5. ASSUME NEW pc \in {"resolve", "failed", "join", "retry", "restart", "unslot"},
             reader' = [r EXCEPT !.pc = pc]
      PROVE  Moved(pc, reader.mode, reader.own) /\ reader'.stop.b = reader.stop.b
             /\ reader'.cancelled = reader.cancelled
  BY <1>1, <1>4, <1>5 DEF Moved, ReaderState
<1>6. ASSUME reader' = [r EXCEPT !.pc = "cleanup", !.dead = dead]
      PROVE  Moved("cleanup", reader.mode, reader.own) /\ reader'.stop.b = reader.stop.b
             /\ reader'.cancelled = reader.cancelled
  BY <1>1, <1>4, <1>6 DEF Moved, ReaderState
<1>7. ASSUME reader' = Resting
      PROVE  Rests
  BY <1>1, <1>7, ReaderParts, Fields DEF Rests, Moved
<1>8. ASSUME reader' = Restarted(r), reader.mode = "restart"
      PROVE  Rests
  <2>1. Restarted(r) = Restarted(reader)
    BY <1>4 DEF Restarted
  <2> QED
    BY <1>1, <1>8, <2>1, ReaderParts DEF Rests, Moved
<1>9. reader.stop.why \in {"swap", "cleanup", "failed", "outer", "confirm", "startup",
                           "invalidated"}
  BY <1>1 DEF Stops
<1>10. CASE reader.stop.why = "swap"
  <2>1. CASE dead
    BY <1>4, <1>5, <1>10, <2>1 DEF AfterStop, Onward
  <2>2. CASE ~dead /\ reader.mode = "restart"
    BY <1>4, <1>8, <1>10, <2>2 DEF AfterStop, Onward, Failing
  <2>3. CASE ~dead /\ reader.mode # "restart"
    <3>1. reader.mode = "read"
      BY <1>1, <2>3 DEF ReaderState
    <3> QED
      BY <1>4, <1>5, <1>10, <2>3, <3>1 DEF AfterStop, Onward, Failing
  <2> QED
    BY <2>1, <2>2, <2>3
<1>11. CASE reader.stop.why = "cleanup"
  BY <1>4, <1>5, <1>11 DEF AfterStop, Onward
<1>12. CASE reader.stop.why = "failed"
  BY <1>4, <1>5, <1>12 DEF AfterStop, Onward
<1>13. CASE reader.stop.why = "outer"
  BY <1>4, <1>6, <1>13 DEF AfterStop, Onward
<1>14. CASE reader.stop.why = "confirm"
  BY <1>4, <1>5, <1>7, <1>14 DEF AfterStop, Onward
<1>15. CASE reader.stop.why = "startup"
  BY <1>4, <1>5, <1>15 DEF AfterStop, Onward
<1>16. CASE reader.stop.why = "invalidated"
  <2>1. reader.mode = "restart"
    BY <1>16 DEF ModeInv, Stopping
  <2> QED
    BY <1>4, <1>8, <1>16, <2>1 DEF AfterStop, Onward
<1> QED
  BY <1>9, <1>10, <1>11, <1>12, <1>13, <1>14, <1>15, <1>16

(* A stop ends with its process and the request thread dead, or fatal.        *)
LEMMA StopEndsIs ==
    ASSUME Answers, StopEnds
    PROVE  /\ reader.pc = "stopping" /\ Onward(reader.stop.why)
           /\ reader'.cancelled = reader.cancelled \/ Rests
           /\ UNCHANGED <<scene, sync, maint, made, started, sent, binding, generation, held,
                          thread>>
           /\ \E b \in Brokers :
                /\ b = reader.stop.b /\ b <= made /\ Settled(b) /\ faults' \in FaultState
                /\ \/ /\ UNCHANGED registered /\ broker'[b].fatal
                   \/ /\ UnregisterAfter(reader.stop.why, b)
                      /\ ~(broker[b].alive /\ reader.stop.p = broker[b].handle)
                      /\ ~LiveThread("reader", b)
<1> USE DEF Answers
<1>1. /\ reader.pc = "stopping"
      /\ UNCHANGED <<scene, sync, maint, made, started, sent, binding, generation, held, thread>>
  BY DEF StopEnds, readerOnly
<1>2. PICK b \in Brokers : b = reader.stop.b /\ b <= made
  BY <1>1, Types, Fields DEF OwnInv, Stopping, Brokers, NoBroker
<1>3. reader.stop.p \in Nat
  BY Fields
<1>4. CASE /\ AbortConfirms(b, reader.stop.p) /\ UnregisterAfter(reader.stop.why, b)
           /\ reader' = AfterStop([reader EXCEPT !.stop.p = 0], TRUE)
  <2>1. reader.stop.p # 0 /\ broker[b].handle = reader.stop.p => broker[b].doomed
    BY <1>1, <1>2 DEF AbortInv
  <2>2. /\ Settled(b) /\ faults' \in FaultState /\ ~LiveThread("reader", b)
        /\ ~(reader.stop.p # 0 /\ reader.stop.p = broker[b].handle /\ broker[b].alive)
    BY <1>3, <1>4, <2>1, ConfirmsIs
  <2>3. broker[b].alive => broker[b].handle # 0
    BY DEF HandleInv
  <2>4. Onward(reader.stop.why) /\ (reader'.cancelled = reader.cancelled \/ Rests)
    BY <1>1, <1>4, OnwardIs
  <2> QED
    BY <1>1, <1>2, <1>4, <2>2, <2>3, <2>4
<1>5. CASE /\ AbortGivesUp(b, reader.stop.p) /\ UNCHANGED registered
           /\ reader' = AfterStop([reader EXCEPT !.stop.p = 0], FALSE)
  <2>1. Settled(b) /\ faults' \in FaultState /\ broker'[b].fatal
    BY <1>3, <1>5, GivesUpIs
  <2>2. Onward(reader.stop.why) /\ (reader'.cancelled = reader.cancelled \/ Rests)
    BY <1>1, <1>5, OnwardIs
  <2> QED
    BY <1>1, <1>2, <1>5, <2>1, <2>2
<1> QED
  BY <1>2, <1>4, <1>5 DEF StopEnds

(* It keeps everything about the brokers.                                     *)
LEMMA SettledKeeps ==
    ASSUME Answers, NEW b \in Brokers, Settled(b), UNCHANGED <<thread, started, made>>
    PROVE  BrokersOK' /\ HandleInv' /\ PipeInv' /\ BrokersKeep
<1> USE DEF Answers, Settled
<1>1. BrokersOK'
  BY DEF BrokersOK, Only
<1>2. HandleInv'
  BY HandleKeeps, Types DEF HandleInv
<1>3. PipeOf(b)'
  BY DEF PipeInv, PipeOf, Clean, Carries
<1>4. PipeInv'
  BY <1>3, PipeKeeps
<1>5. BrokersKeep
  BY Types DEF BrokersKeep, Only, Brokers
<1> QED
  BY <1>1, <1>2, <1>4, <1>5

(* The end of a stop keeps the first half.                                    *)
LEMMA StopEndsKeeps ==
    ASSUME Answers, StopEnds
    PROVE  Answers'
<1> USE DEF Answers
<1>1. PICK b \in Brokers :
        /\ b = reader.stop.b /\ b <= made /\ Settled(b) /\ faults' \in FaultState
        /\ UNCHANGED registered \/ UnregisterAfter(reader.stop.why, b)
  BY StopEndsIs
<1>2. /\ reader.pc = "stopping" /\ Onward(reader.stop.why)
      /\ UNCHANGED <<scene, sync, maint, made, started, sent, binding, generation, held, thread>>
  BY StopEndsIs
<1>3. /\ BrokersOK' /\ HandleInv' /\ PipeInv' /\ BrokersKeep
  BY <1>1, <1>2, SettledKeeps
<1>4. registered' \in 0 .. made
  BY <1>1, Types DEF UnregisterAfter, Unregister, NoBroker
<1>5. reader' \in ReaderState
  BY <1>2 DEF Onward, Rests, Moved
<1>6. Typed'
  BY <1>1, <1>2, <1>3, <1>4, <1>5, TypedFrame, Types DEF Typed, ReaderOK, BooksOK, RestOK
<1>7. OwnInv'
  BY <1>2, <1>5, Types, Fields DEF OwnInv, ModeInv, Onward, Rests, Moved, Stopping, NoBroker
<1>8. ModeInv'
  BY <1>2, <1>5 DEF ModeInv, Onward, Rests, Moved, Stopping
<1>9. \A c \in 1 .. made : /\ broker'[c].slot = broker[c].slot
                           /\ broker[c].abort => broker'[c].abort
  BY <1>3 DEF BrokersKeep
<1>10. sync.pc \in {"wait", "unslot"} => sync.own \in 1 .. made
  BY Types, Fields DEF OwnInv, NoBroker
<1>11. /\ ReadUnderWay' <=> ReadUnderWay
       /\ RestartUnderWay' <=> RestartUnderWay
       /\ ReadUnderWay \/ RestartUnderWay => reader.own \in 1 .. made /\ reader'.own = reader.own
  BY <1>2, <1>5, Types, Fields
     DEF Onward, Rests, Moved, OwnInv, ReadUnderWay, RestartUnderWay, Stopping, ModeInv, NoBroker
<1>12. SlotInv'
  BY <1>2, <1>9, <1>10, <1>11 DEF SlotInv, Users
<1>13. reader'.pc # "stopping" /\ (reader'.pc = "join" =>
         Stopping({"cleanup"}) /\ reader'.own = reader.own /\ reader.own \in 1 .. made)
  BY <1>2, <1>11 DEF Onward, Rests, Moved, ReadUnderWay, Stopping
<1>14. AbortInv'
  BY <1>2, <1>9, <1>10, <1>13 DEF AbortInv, Stopping
<1>15. AnswersOwnRequest'
  BY <1>2, AnswerFrame
<1> QED
  BY <1>3, <1>6, <1>7, <1>8, <1>12, <1>14, <1>15

(* A restart starts the child of its own broker.                              *)
LEMMA RestartStartsIs ==
    ASSUME Answers, RestartStarts
    PROVE  /\ reader.pc = "start" /\ Stays("boot")
           /\ UNCHANGED <<scene, sync, maint, registered, made, sent, binding, generation, held,
                          thread, faults>>
           /\ \E b \in Brokers : /\ b = reader.own /\ b <= made /\ ~Refuses(b) /\ Starts(b)
<1>1. /\ reader.pc = "start" /\ Starts(reader.own)
      /\ reader' = [reader EXCEPT !.pc = "boot"]
      /\ UNCHANGED <<scene, sync, maint, registered, made, sent, binding, generation, held,
                     thread, faults>>
  BY DEF RestartStarts, readerOnly
<1>2. PICK b \in Brokers : b = reader.own /\ b <= made
  BY <1>1, Types, Fields DEF Answers, OwnInv, Brokers, NoBroker
<1>3. Stays("boot")
  BY <1>1, ReaderParts DEF Answers, ModeInv, Stays, Moved, ReaderState
<1> QED
  BY <1>1, <1>2, <1>3 DEF Starts

(* What a start does to the broker.                                           *)
StartedOrSame(b) ==
    /\ Only(b)
    /\ broker'[b].slot = broker[b].slot /\ broker'[b].abort = broker[b].abort
    /\ broker'[b].cfg = broker[b].cfg /\ broker'[b].fatal = broker[b].fatal
    /\ broker'[b].quiesced = broker[b].quiesced /\ broker'[b].alive
    /\ started' \in Nat /\ started <= started' /\ broker'[b].handle # 0
    /\ \/ broker'[b] = broker[b] /\ broker[b].alive
       \/ /\ broker'[b].handle = started + 1 /\ started' = started + 1
          /\ broker'[b].req = 0 /\ broker'[b].resp = 0

(* Starts, field by field: a child that lives is left as it is.               *)
LEMMA StartsIs ==
    ASSUME Typed, HandleInv, NEW b \in Brokers, Starts(b)
    PROVE  StartedOrSame(b)
<1> DEFINE r == broker[b]
           s == [r EXCEPT !.handle = started + 1, !.alive = TRUE, !.ready = FALSE,
                          !.announced = FALSE, !.doomed = FALSE, !.req = 0, !.resp = 0]
<1>1. r \in BrokerState /\ BrokersOK /\ started \in Nat
  BY Types DEF Typed
<1>2. CASE r.alive
  <2>1. broker' = [broker EXCEPT ![b] = r] /\ started' = started
    BY <1>2 DEF Starts, StartLocked
  <2>2. Only(b) /\ broker'[b] = r
    BY <1>1, <2>1, OneOnly
  <2> QED
    BY <1>1, <1>2, <2>1, <2>2 DEF StartedOrSame, HandleInv
<1>3. CASE ~r.alive
  <2>1. broker' = [broker EXCEPT ![b] = s] /\ started' = started + 1
    BY <1>3 DEF Starts, StartLocked
  <2>2. started + 1 \in Nat /\ started + 1 # 0 /\ started <= started + 1
    BY <1>1
  <2>3. s \in BrokerState
    BY <1>1, <2>2, Started
  <2>4. Only(b) /\ broker'[b] = s
    BY <1>1, <2>1, <2>3, OneOnly
  <2>5. /\ s.slot = r.slot /\ s.abort = r.abort /\ s.cfg = r.cfg /\ s.fatal = r.fatal
        /\ s.quiesced = r.quiesced /\ s.alive /\ s.handle = started + 1
        /\ s.req = 0 /\ s.resp = 0
    BY <1>1 DEF BrokerState
  <2> QED
    BY <2>1, <2>2, <2>4, <2>5 DEF StartedOrSame, Clean
<1> QED
  BY <1>2, <1>3

(* The start of a restart keeps the first half.                               *)
LEMMA RestartStartsKeeps ==
    ASSUME Answers, RestartStarts
    PROVE  Answers'
<1> USE DEF Answers
<1>1. PICK b \in Brokers : b = reader.own /\ b <= made /\ Starts(b)
  BY RestartStartsIs
<1>2. StartedOrSame(b)
  BY <1>1, StartsIs
<1>3. /\ reader.pc = "start" /\ Stays("boot")
      /\ UNCHANGED <<scene, sync, maint, registered, made, sent, binding, generation, held,
                     thread, faults>>
  BY RestartStartsIs
<1>4. /\ BrokersOK' /\ HandleInv' /\ PipeInv'
  <2>1. PipeOf(b)'
    BY <1>2, <1>3 DEF StartedOrSame, PipeInv, PipeOf, Clean, Carries
  <2>2. PipeInv'
    BY <1>2, <1>3, <2>1, PipeKeeps DEF StartedOrSame
  <2>3. HandleInv'
    BY <1>1, <1>2, <1>3, HandleKeeps, Types DEF StartedOrSame
  <2> QED
    BY <1>2, <2>2, <2>3 DEF StartedOrSame, Only, BrokersOK
<1>5. Typed'
  BY <1>2, <1>3, <1>4, TypedFrame DEF Typed, StartedOrSame, BooksOK, Stays, Moved, ReaderOK
<1>6. OwnInv' /\ ModeInv'
  BY <1>3 DEF OwnInv, ModeInv, Stays, Moved, Stopping
<1>7. \A c \in Brokers : /\ broker'[c].slot = broker[c].slot
                         /\ broker'[c].abort = broker[c].abort
  BY <1>2 DEF StartedOrSame, Only
<1>8. sync.pc \in {"wait", "unslot"} => sync.own \in Brokers
  BY Types, Fields DEF OwnInv, Brokers, NoBroker
<1>9. SlotInv' /\ AbortInv'
  BY <1>1, <1>3, <1>7, <1>8
     DEF SlotInv, AbortInv, Stays, Moved, ReadUnderWay, RestartUnderWay, Stopping
<1> QED
  BY <1>3, <1>4, <1>5, <1>6, <1>9, AnswerFrame

-----------------------------------------------------------------------------
(* The synchronous users.                                                     *)

(* The step of sync: where it goes, and with which broker.                    *)
SyncMoved(pc, own) == sync' \in SyncState /\ sync'.pc = pc /\ sync'.own = own

(* The type of sync.                                                          *)
LEMMA SyncIs ==
    ASSUME Typed
    PROVE  sync \in SyncState
BY DEF Typed, SyncOK

(* A failed read recovers, a failed status request ends.                      *)
LEMMA SyncFailsIs ==
    ASSUME Typed, SyncFails
    PROVE  SyncMoved("recover", sync.own) \/ SyncMoved("idle", sync.own)
BY SyncIs DEF SyncFails, SyncMoved, SyncState

(* It moves between calls: its slot and what was in it are not touched.       *)
SyncGoes ==
    \/ SyncMoved("idle", sync.own) \/ SyncMoved("recover", sync.own)
    \/ SyncMoved("retry", sync.own) \/ SyncMoved("retry", registered)
    \/ SyncMoved("resolve", sync.own) \/ SyncMoved("resolve", 0)
    \/ SyncMoved("take", registered) /\ registered # NoBroker
    \/ SyncMoved("pop", registered) /\ registered # NoBroker
    \/ SyncMoved("take", made') /\ made' # NoBroker

(* From one place to another sync keeps what it and the reader have.          *)
LEMMA SyncGoesKeeps ==
    ASSUME Answers, SyncGoes, sync.pc \notin {"wait", "unslot"}, BrokersKeep, ThreadsKeep,
           UNCHANGED <<reader, maint, generation>>, started' \in Nat, started <= started',
           BooksOK', made <= made'
    PROVE  SyncOK' /\ OwnInv' /\ ModeInv' /\ SlotInv' /\ AbortInv'
<1> USE DEF Answers
<1>1. SyncOK' /\ sync'.pc \notin {"wait", "unslot"}
  BY DEF SyncGoes, SyncMoved, SyncOK
<1>2. made \in Nat /\ made' \in Nat /\ registered \in Nat /\ registered <= made
  BY Types DEF BooksOK
<1>3. OwnInv'
  BY <1>1, <1>2, Fields DEF OwnInv, SyncGoes, SyncMoved, ThreadsKeep, Stopping, NoBroker
<1>4. ModeInv'
  BY ModeFrame
<1>5. ReadUnderWay \/ RestartUnderWay => reader.own \in 1 .. made
  BY Types, Fields DEF OwnInv, ReadUnderWay, RestartUnderWay, Stopping, ModeInv, NoBroker
<1>6. SlotInv'
  BY <1>1, <1>5
     DEF SlotInv, BrokersKeep, ThreadsKeep, Users, ReadUnderWay, RestartUnderWay, Stopping
<1>7. AbortInv'
  <2>1. /\ reader.pc = "join" \/ (reader.pc = "stopping" /\ Stopping({"cleanup"}))
             => reader.own \in 1 .. made
        /\ reader.pc = "stopping" => reader.stop.b \in 1 .. made
    BY Types, Fields DEF OwnInv, Stopping, ModeInv, NoBroker
  <2> QED
    BY <1>1, <2>1, Types, Fields DEF AbortInv, BrokersKeep, Stopping
<1> QED
  BY <1>1, <1>3, <1>4, <1>6, <1>7

(* The steps of sync that touch no child.                                     *)
SyncAlone ==
    \/ \E kind \in {"read", "status"} : SyncBegins(kind)
    \/ SyncBusy \/ SyncPops \/ SyncRetries
    \/ SyncResolves /\ UNCHANGED <<broker, registered, made>>
    \/ SyncRecovers /\ UNCHANGED <<broker, thread, faults>>

(* Every such action goes one of these ways.                                  *)
LEMMA SyncAloneGoes ==
    ASSUME Answers, SyncAlone
    PROVE  /\ SyncGoes /\ sync.pc \notin {"wait", "unslot"}
           /\ registered' \in {0, registered} /\ faults' \in FaultState
           /\ UNCHANGED <<scene, broker, made, started, sent, binding, generation, held, reader,
                          thread, maint>>
<1> USE DEF Answers
<1>1. /\ sync \in SyncState /\ faults \in FaultState /\ binding \in Bindings \cup {0}
      /\ registered \in 0 .. MaxBrokers
  BY SyncIs, Types DEF Typed, RestOK, BooksOK
<1>2. UNCHANGED <<scene, broker, made, started, sent, binding, generation, held, reader, thread,
                  maint>>
  BY DEF SyncAlone, SyncBegins, SyncBusy, SyncPops, SyncRetries, SyncResolves, SyncRecovers,
     othersOfSync
<1>3. ASSUME NEW kind \in {"read", "status"}, SyncBegins(kind)
      PROVE  /\ SyncGoes /\ sync.pc = "idle" /\ UNCHANGED registered /\ faults' \in FaultState
  <2>1. /\ sync' = [pc |-> "resolve", kind |-> kind, own |-> 0, cfg |-> binding, tries |-> 0]
        /\ faults' = [faults EXCEPT !.calls = @ \cup {kind}]
        /\ sync.pc = "idle" /\ UNCHANGED registered
    BY <1>3 DEF SyncBegins, Comes, NoBroker
  <2>2. SyncMoved("resolve", 0)
    BY <1>1, <2>1, CameraBounds DEF SyncMoved, SyncState
  <2>3. faults' \in FaultState
    BY <1>1, <2>1 DEF FaultState, Calls
  <2> QED
    BY <2>1, <2>2, <2>3 DEF SyncGoes
<1>4. CASE SyncAlone /\ ~\E kind \in {"read", "status"} : SyncBegins(kind)
  <2>1. sync.pc \notin {"wait", "unslot"}
    BY <1>4 DEF SyncAlone, SyncBusy, SyncPops, SyncRetries, SyncResolves, SyncRecovers
  <2>2. registered' \in {0, registered}
    BY <1>4 DEF SyncAlone, SyncBusy, SyncPops, SyncRetries, SyncResolves, SyncRecovers,
       Unregister, NoBroker, othersOfSync
  <2>3. faults' = faults
    BY <1>4 DEF SyncAlone, SyncBusy, SyncPops, SyncRetries, SyncResolves, SyncRecovers
  <2>4. SyncGoes
    <3>1. CASE SyncBusy
      BY <3>1, SyncFailsIs DEF SyncBusy, SyncGoes
    <3>2. CASE SyncPops
      <4>1. sync' = [sync EXCEPT !.pc = "retry"]
        BY <3>2 DEF SyncPops
      <4> QED
        BY <1>1, <4>1 DEF SyncGoes, SyncMoved, SyncState
    <3>3. CASE SyncRetries
      <4>1. 1 \in 0 .. 1
        OBVIOUS
      <4>2. CASE sync' = [sync EXCEPT !.pc = "resolve", !.tries = 1]
        <5>1. SyncMoved("resolve", sync.own)
          BY <1>1, <4>1, <4>2 DEF SyncMoved, SyncState
        <5> QED
          BY <5>1 DEF SyncGoes
      <4>3. CASE sync' = [sync EXCEPT !.pc = "idle"]
        <5>1. SyncMoved("idle", sync.own)
          BY <1>1, <4>3 DEF SyncMoved, SyncState
        <5> QED
          BY <5>1 DEF SyncGoes
      <4> QED
        BY <3>3, <4>2, <4>3 DEF SyncRetries
    <3>4. CASE SyncResolves /\ UNCHANGED <<broker, registered, made>>
      <4>1. made' # made + 1
        BY <3>4, Types
      <4>2. CASE SyncFails
        BY <4>2, SyncFailsIs DEF SyncGoes
      <4>3. CASE /\ sync' = [sync EXCEPT !.pc = "take", !.own = registered]
                 /\ registered # NoBroker
        <5>1. SyncMoved("take", registered)
          BY <1>1, <4>3 DEF SyncMoved, SyncState
        <5> QED
          BY <4>3, <5>1 DEF SyncGoes
      <4> QED
        BY <3>4, <4>1, <4>2, <4>3 DEF SyncResolves, SyncMakes
    <3>5. CASE SyncRecovers /\ UNCHANGED <<broker, thread, faults>>
      <4>1. \/ sync' = [sync EXCEPT !.pc = "retry", !.cfg = binding]
            \/ sync' = [sync EXCEPT !.pc = "retry", !.own = registered, !.cfg = binding]
            \/ /\ sync' = [sync EXCEPT !.pc = "pop", !.own = registered, !.cfg = binding]
               /\ registered # NoBroker
        BY <3>5 DEF SyncRecovers
      <4> QED
        BY <1>1, <4>1 DEF SyncGoes, SyncMoved, SyncState
    <3> QED
      BY <1>4, <3>1, <3>2, <3>3, <3>4, <3>5 DEF SyncAlone
  <2> QED
    BY <1>1, <1>2, <2>1, <2>2, <2>3, <2>4
<1> QED
  BY <1>2, <1>3, <1>4 DEF SyncAlone

(* So they keep the first half.                                               *)
LEMMA SyncAloneKeeps ==
    ASSUME Answers, SyncAlone
    PROVE  Answers'
<1> USE DEF Answers
<1>1. /\ SyncGoes /\ sync.pc \notin {"wait", "unslot"}
      /\ registered' \in {0, registered} /\ faults' \in FaultState
      /\ UNCHANGED <<scene, broker, made, started, sent, binding, generation, held, reader,
                     thread, maint>>
  BY SyncAloneGoes
<1>2. BrokersKeep /\ ThreadsKeep
  BY <1>1 DEF BrokersKeep, ThreadsKeep
<1>3. BooksOK'
  BY <1>1, Types DEF BooksOK, Typed
<1>4. SyncOK' /\ OwnInv' /\ ModeInv' /\ SlotInv' /\ AbortInv'
  BY <1>1, <1>2, <1>3, SyncGoesKeeps, Types
<1>5. Typed'
  BY <1>1, <1>3, <1>4, TypedFrame DEF Typed, RestOK
<1> QED
  BY <1>1, <1>4, <1>5, HandleFrame, PipeFrame, AnswerFrame, Types DEF Typed

(* It makes a broker, releases one, or both.                                  *)
SyncReleases ==
    \/ SyncSwaps
    \/ SyncResolves /\ ~UNCHANGED <<broker, registered, made>>
    \/ SyncRecovers /\ ~UNCHANGED <<broker, thread, faults>>

(* The registered broker is replaced, or stopped.                             *)
LEMMA SyncReleasesIs ==
    ASSUME Answers, SyncReleases
    PROVE  /\ SyncGoes /\ sync.pc \notin {"wait", "unslot"}
           /\ UNCHANGED <<scene, started, sent, binding, generation, held, reader, maint>>
           /\ faults' \in FaultState
           /\ \/ /\ sync.pc = "resolve" /\ sync.cfg \notin held
                 /\ Makes(registered, sync.cfg) /\ SyncMoved("take", made + 1)
                 /\ \/ UNCHANGED thread
                    \/ registered # NoBroker /\ ThreadReleased(registered)
              \/ /\ registered \in Brokers /\ UNCHANGED <<registered, made>>
                 /\ Only(registered) /\ Stopped(registered) /\ ThreadReleased(registered)
                 /\ broker'[registered].alive => broker'[registered].fatal
                 /\ sync'.pc \in {"idle", "recover", "retry", "pop"}
                 /\ sync'.pc = "pop" => sync'.own = registered /\ ~broker'[registered].alive
<1> USE DEF Answers
<1>1. /\ sync \in SyncState /\ faults \in FaultState /\ binding \in Bindings \cup {0}
      /\ registered \in 0 .. MaxBrokers /\ made \in Nat /\ sync.cfg \in Bindings \cup {0}
      /\ registered # NoBroker => registered \in Brokers
      /\ made < MaxBrokers => made + 1 \in Brokers /\ made + 1 \in 0 .. MaxBrokers
      /\ registered <= made /\ BrokersOK
  BY SyncIs, Types DEF Typed, RestOK, BooksOK, SyncState, Brokers
<1>2. UNCHANGED <<scene, started, sent, binding, generation, held, reader, maint>>
  BY DEF SyncReleases, SyncSwaps, SyncResolves, SyncRecovers, othersOfSync
<1>3. ASSUME NEW others \in [Brokers -> BrokerState], SyncMakes(others)
      PROVE  /\ made < MaxBrokers /\ made' = made + 1 /\ registered' = made + 1
             /\ SyncMoved("take", made + 1) /\ SyncGoes
             /\ broker' \in [Brokers -> BrokerState] /\ broker'[made + 1] = Fresh(sync.cfg)
             /\ \A c \in Brokers \ {made + 1} : broker'[c] = others[c]
  <2>1. /\ made < MaxBrokers /\ made' = made + 1 /\ registered' = made + 1
        /\ broker' = [others EXCEPT ![made + 1] = Fresh(sync.cfg)]
        /\ sync' = [sync EXCEPT !.pc = "take", !.own = made + 1]
    BY <1>3 DEF SyncMakes
  <2>2. Fresh(sync.cfg) \in BrokerState
    BY <1>1, FreshIs
  <2>3. SyncMoved("take", made + 1)
    BY <1>1, <2>1 DEF SyncMoved, SyncState
  <2>4. made + 1 # NoBroker
    BY <1>1 DEF NoBroker
  <2> QED
    BY <1>1, <2>1, <2>2, <2>3, <2>4 DEF SyncGoes
<1>4. CASE SyncResolves /\ ~UNCHANGED <<broker, registered, made>>
  <2>1. /\ sync.pc = "resolve" /\ sync.cfg \notin held /\ registered = NoBroker
        /\ SyncMakes(broker) /\ UNCHANGED <<thread, faults>>
    BY <1>4 DEF SyncResolves
  <2>2. Makes(registered, sync.cfg)
    BY <1>1, <1>3, <2>1 DEF Makes, BrokersOK, NoBroker
  <2> QED
    BY <1>1, <1>2, <1>3, <2>1, <2>2 DEF BrokersOK
<1>5. CASE SyncSwaps
  <2>1. PICK old \in Brokers : old = registered
    BY <1>1, <1>5 DEF SyncSwaps
  <2>2. sync.pc = "resolve" /\ sync.cfg \notin held /\ registered # NoBroker
    BY <1>5 DEF SyncSwaps
  <2>3. CASE Released(old, FALSE) /\ SyncFails /\ UNCHANGED <<registered, made>>
    <3>1. /\ Only(old) /\ Stopped(old) /\ ThreadReleased(old) /\ faults' \in FaultState
          /\ broker'[old].alive => broker'[old].fatal
      BY <2>3, ReleasedIs
    <3>2. SyncGoes /\ sync'.pc \in {"idle", "recover"}
      BY <2>3, SyncFailsIs DEF SyncGoes, SyncMoved
    <3> QED
      BY <1>2, <2>1, <2>2, <2>3, <3>1, <3>2
  <2>4. CASE /\ SyncMakes([broker EXCEPT ![old] = Dead(@)])
             /\ ThreadReleased(old) /\ Unspent
    <3> DEFINE others == [broker EXCEPT ![old] = Dead(broker[old])]
    <3>0. broker[old] \in BrokerState /\ Dead(broker[old]) \in BrokerState
      BY <1>1, Operations DEF BrokersOK
    <3>1. others \in [Brokers -> BrokerState] /\ others[old] = Dead(broker[old])
          /\ \A c \in Brokers \ {old} : others[c] = broker[c]
      BY <1>1, <3>0 DEF BrokersOK
    <3>2. /\ made < MaxBrokers /\ made' = made + 1 /\ registered' = made + 1
          /\ SyncMoved("take", made + 1) /\ SyncGoes
          /\ broker' \in [Brokers -> BrokerState] /\ broker'[made + 1] = Fresh(sync.cfg)
          /\ \A c \in Brokers \ {made + 1} : broker'[c] = others[c]
      BY <1>3, <2>4, <3>1
    <3>3. old # made + 1 /\ broker'[old] = Dead(broker[old])
      BY <1>1, <2>1, <3>1, <3>2
    <3>4. /\ broker[old].alive => broker[old].handle # 0
          /\ broker[old].handle = 0 => Clean(old)
      BY DEF HandleInv, PipeInv, PipeOf
    <3>5. Stopped(old) /\ ~broker'[old].alive
      <4> DEFINE r == broker[old]
      <4>1. /\ Dead(r).slot = r.slot /\ Dead(r).cfg = r.cfg /\ Dead(r).quiesced = r.quiesced
            /\ Dead(r).abort /\ Dead(r).req = 0 /\ Dead(r).resp = 0
            /\ Dead(r).handle = 0 /\ ~Dead(r).alive
        BY <3>0, <3>4 DEF Dead, Closed, BrokerState, Clean
      <4> QED
        BY <3>3, <4>1 DEF Stopped
    <3>6. Makes(old, sync.cfg)
      BY <3>1, <3>2, <3>5 DEF Makes
    <3> QED
      BY <1>1, <1>2, <2>1, <2>2, <2>4, <3>2, <3>6 DEF Unspent
  <2>5. \/ Released(old, FALSE) /\ SyncFails /\ UNCHANGED <<registered, made>>
        \/ /\ SyncMakes([broker EXCEPT ![old] = Dead(@)])
           /\ ThreadReleased(old) /\ Unspent
    BY <1>5, <2>1 DEF SyncSwaps, ThreadReleased
  <2> QED
    BY <2>3, <2>4, <2>5
<1>6. CASE SyncRecovers /\ ~UNCHANGED <<broker, thread, faults>>
  <2>1. registered \in Brokers /\ sync.pc = "recover" /\ UNCHANGED <<registered, made>>
    BY <1>1, <1>6 DEF SyncRecovers
  <2>2. PICK ok \in BOOLEAN :
          /\ Released(registered, ok)
          /\ sync' = [sync EXCEPT !.pc = IF ok THEN "pop" ELSE "retry",
                                  !.own = registered, !.cfg = binding]
    BY <1>6, <2>1 DEF SyncRecovers
  <2>3. /\ Only(registered) /\ Stopped(registered) /\ ThreadReleased(registered)
        /\ faults' \in FaultState
        /\ broker'[registered].alive => broker'[registered].fatal
        /\ ok => ~broker'[registered].alive
    BY <2>1, <2>2, ReleasedIs
  <2>4. /\ SyncGoes /\ sync'.pc \in {"retry", "pop"}
        /\ sync'.pc = "pop" => sync'.own = registered /\ ok
    <3>1. CASE ok
      <4>1. sync' = [sync EXCEPT !.pc = "pop", !.own = registered, !.cfg = binding]
        BY <2>2, <3>1
      <4>2. SyncMoved("pop", registered)
        BY <1>1, <4>1 DEF SyncMoved, SyncState
      <4> QED
        BY <2>1, <3>1, <4>2 DEF SyncGoes, SyncMoved, NoBroker, Brokers
    <3>2. CASE ~ok
      <4>1. sync' = [sync EXCEPT !.pc = "retry", !.own = registered, !.cfg = binding]
        BY <2>2, <3>2
      <4>2. SyncMoved("retry", registered)
        BY <1>1, <4>1 DEF SyncMoved, SyncState
      <4> QED
        BY <4>2 DEF SyncGoes, SyncMoved
    <3> QED
      BY <3>1, <3>2
  <2> QED
    BY <1>2, <2>1, <2>3, <2>4
<1> QED
  BY <1>4, <1>5, <1>6 DEF SyncReleases

(* Both keep the first half.                                                  *)
LEMMA SyncReleasesKeep ==
    ASSUME Answers, SyncReleases
    PROVE  Answers'
<1> USE DEF Answers
<1>1. /\ SyncGoes /\ sync.pc \notin {"wait", "unslot"} /\ faults' \in FaultState
      /\ UNCHANGED <<scene, started, sent, binding, generation, held, reader, maint>>
  BY SyncReleasesIs
<1>2. /\ BrokersOK' /\ ThreadsOK' /\ HandleInv' /\ PipeInv' /\ AnswersOwnRequest'
      /\ BooksOK' /\ BrokersKeep /\ ThreadsKeep /\ made <= made'
  <2>1. PICK old \in 0 .. made : old = registered
    BY Types
  <2>2. CASE /\ Makes(old, sync.cfg)
             /\ UNCHANGED thread \/ (old # NoBroker /\ ThreadReleased(old))
    <3>1. sync.cfg \in Bindings \cup {0}
      BY SyncIs DEF SyncState
    <3> QED
      BY <1>1, <2>2, <3>1, MakesKeeps, Types DEF Makes
  <2>3. CASE /\ old \in Brokers /\ UNCHANGED <<registered, made>>
             /\ Only(old) /\ Stopped(old) /\ ThreadReleased(old)
    BY <1>1, <2>3, StoppedKeeps, TypedFrame, Types DEF Typed
  <2> QED
    BY <2>1, <2>2, <2>3, SyncReleasesIs
<1>3. SyncOK' /\ OwnInv' /\ ModeInv' /\ SlotInv' /\ AbortInv'
  BY <1>1, <1>2, SyncGoesKeeps, Types
<1>4. Typed'
  BY <1>1, <1>2, <1>3, TypedFrame DEF Typed, RestOK
<1> QED
  BY <1>2, <1>3, <1>4

(* sync takes a free slot and starts a thread.                                *)
LEMMA SyncTakesIs ==
    ASSUME Answers, SyncTakes
    PROVE  /\ sync.pc = "take" /\ SyncMoved("wait", sync.own)
           /\ UNCHANGED <<scene, registered, made, started, sent, binding, generation, held,
                          reader, maint, faults>>
           /\ ThreadsOK' /\ thread'["reader"] = thread["reader"]
           /\ thread'["sync"].pc = "start" /\ thread'["sync"].b = sync.own
           /\ thread["sync"].pc = "none"
           /\ \E b \in Brokers : /\ b = sync.own /\ b <= made /\ broker[b].slot = "free"
                                 /\ Slotted(b, "sync", FALSE)
<1> USE DEF Answers
<1>1. /\ UNCHANGED <<scene, registered, made, started, sent, binding, generation, held,
                     reader, maint, faults>>
      /\ sync.pc = "take" /\ broker[sync.own].slot = "free"
  BY DEF SyncTakes, TakeSlot, othersOfSync
<1>2. PICK b \in Brokers : b = sync.own /\ b <= made
  BY <1>1, Types, Fields DEF OwnInv, Brokers, NoBroker
<1>3. broker[b] \in BrokerState /\ sync \in SyncState /\ ThreadsOK /\ BrokersOK
  BY Types, SyncIs DEF Typed
<1>4. Clean(b)
  BY <1>1, <1>2 DEF PipeInv, PipeOf
<1>5. Slotted(b, "sync", FALSE)
  <2>1. broker' = [broker EXCEPT ![b] = [broker[b] EXCEPT !.slot = "sync", !.abort = FALSE,
                                                          !.ready = broker[b].ready]]
    BY <1>2, <1>3 DEF SyncTakes, TakeSlot, BrokersOK, BrokerState
  <2> QED
    BY <1>3, <1>4, <2>1, SlottedIs DEF Users, BrokerState
<1>6. SyncMoved("wait", sync.own)
  BY <1>3 DEF SyncTakes, SyncMoved, SyncState
<1>7. /\ ThreadsOK' /\ thread'["reader"] = thread["reader"] /\ thread["sync"].pc = "none"
      /\ thread'["sync"].pc = "start" /\ thread'["sync"].b = b
  <2>1. [NoThread EXCEPT !.pc = "start", !.b = b] \in ThreadState
    <3>1. 0 \in 0 .. MaxBrokers /\ b \in 0 .. MaxBrokers
      BY CameraBounds DEF Brokers
    <3> QED
      BY <3>1 DEF NoThread, ThreadState, NoBroker
  <2>2. thread["sync"].pc = "none"
    BY <1>1 DEF SlotInv
  <2> QED
    BY <1>2, <1>3, <2>1, <2>2 DEF SyncTakes, ThreadsOK, Users, NoThread
<1> QED
  BY <1>1, <1>2, <1>5, <1>6, <1>7

(* Taking the slot keeps the first half.                                      *)
LEMMA SyncTakesKeeps ==
    ASSUME Answers, SyncTakes
    PROVE  Answers'
<1> USE DEF Answers
<1>1. PICK b \in Brokers : /\ b = sync.own /\ b <= made /\ broker[b].slot = "free"
                           /\ Slotted(b, "sync", FALSE)
  BY SyncTakesIs
<1>2. /\ sync.pc = "take" /\ SyncMoved("wait", sync.own)
      /\ UNCHANGED <<scene, registered, made, started, sent, binding, generation, held,
                     reader, maint, faults>>
      /\ ThreadsOK' /\ thread'["reader"] = thread["reader"] /\ thread["sync"].pc = "none"
      /\ thread'["sync"].pc = "start" /\ thread'["sync"].b = sync.own
  BY SyncTakesIs
<1>3. BrokersOK' /\ HandleInv' /\ PipeInv'
  BY <1>1, <1>2, SlottedKeeps DEF Users
<1>4. Typed'
  BY <1>2, <1>3, TypedFrame DEF Typed, SyncOK, SyncMoved
<1>5. OwnInv' /\ ModeInv'
  BY <1>1, <1>2 DEF OwnInv, ModeInv, Stopping, Users, SyncMoved, NoBroker, Brokers
<1>6. ReadUnderWay \/ RestartUnderWay =>
        /\ broker[reader.own].slot = "reader" /\ broker'[reader.own] = broker[reader.own]
  <2>1. ReadUnderWay \/ RestartUnderWay => reader.own \in Brokers
    BY Types, Fields
       DEF OwnInv, ReadUnderWay, RestartUnderWay, Stopping, ModeInv, NoBroker, Brokers
  <2> QED
    BY <1>1, <2>1 DEF SlotInv, Slotted, Only
<1>7. SlotInv'
  BY <1>1, <1>2, <1>6
     DEF SlotInv, SyncMoved, Slotted, ReadUnderWay, RestartUnderWay, Stopping
<1>8. AbortInv'
  <2>1. reader.pc = "stopping" => reader.stop.b \in Brokers
    BY Types, Fields DEF OwnInv, Stopping, NoBroker, Brokers
  <2>2. \A c \in Brokers : /\ broker'[c].handle = broker[c].handle
                           /\ broker'[c].doomed = broker[c].doomed
    BY <1>1 DEF Slotted, Only
  <2> QED
    BY <1>2, <1>6, <2>1, <2>2 DEF AbortInv, SyncMoved, Stopping, ReadUnderWay
<1>9. AnswersOwnRequest'
  BY <1>2 DEF AnswersOwnRequest, Users
<1> QED
  BY <1>3, <1>4, <1>5, <1>7, <1>8, <1>9

(* sync gives its slot back, with a clean pipe.                               *)
LEMMA SyncLeavesIs ==
    ASSUME Answers, SyncReturns \/ SyncUnslots
    PROVE  /\ sync.pc \in {"wait", "unslot"}
           /\ SyncMoved("idle", sync.own) \/ SyncMoved("recover", sync.own)
           /\ UNCHANGED <<scene, registered, made, started, sent, binding, generation, held,
                          reader, maint, faults>>
           /\ ThreadsOK' /\ thread'["reader"] = thread["reader"]
           /\ thread'["sync"].pc = "none" /\ thread'["sync"].b = 0
           /\ \E b \in Brokers : /\ b = sync.own /\ broker[b].slot = "sync"
                                 /\ thread["sync"].b = b
                                 /\ Slotted(b, "free", broker[b].abort)
<1> USE DEF Answers
<1>1. /\ UNCHANGED <<scene, registered, made, started, sent, binding, generation, held,
                     reader, maint, faults>>
      /\ sync.pc \in {"wait", "unslot"}
  BY DEF SyncReturns, SyncUnslots, othersOfSync
<1>2. PICK b \in Brokers : b = sync.own /\ broker[b].slot = "sync" /\ thread["sync"].b = b
  BY <1>1, Types, Fields DEF OwnInv, SlotInv, Brokers, NoBroker
<1>3. broker[b] \in BrokerState /\ sync \in SyncState /\ ThreadsOK /\ BrokersOK
  BY Types, SyncIs DEF Typed
<1>4. Clean(b)
  <2>1. broker[b].abort \/ (thread["sync"].pc = "done" /\ thread["sync"].ok)
    BY <1>2 DEF SyncReturns, SyncUnslots, AbortInv
  <2> QED
    BY <1>2, <2>1 DEF PipeInv, PipeOf, Carries
<1>5. Slotted(b, "free", broker[b].abort)
  <2>1. broker' = [broker EXCEPT ![b] = [broker[b] EXCEPT !.slot = "free",
                      !.abort = broker[b].abort, !.ready = broker[b].ready]]
    <3>1. broker' = [broker EXCEPT ![b].slot = "free"]
      <4>1. CASE SyncReturns
        BY <1>2, <4>1 DEF SyncReturns
      <4>2. CASE SyncUnslots
        BY <1>2, <4>2 DEF SyncUnslots
      <4> QED
        BY <4>1, <4>2
    <3>2. broker' = [broker EXCEPT ![b] = [broker[b] EXCEPT !.slot = "free"]]
      BY <3>1
    <3>3. [broker[b] EXCEPT !.slot = "free"]
            = [broker[b] EXCEPT !.slot = "free", !.abort = broker[b].abort,
                                !.ready = broker[b].ready]
      BY <1>3 DEF BrokerState
    <3> QED
      BY <3>2, <3>3
  <2> QED
    BY <1>3, <1>4, <2>1, SlottedIs DEF Users, BrokerState
<1>6. SyncMoved("idle", sync.own) \/ SyncMoved("recover", sync.own)
  <2>1. CASE SyncReturns
    <3>1. sync' = [sync EXCEPT !.pc = "idle"]
      BY <2>1 DEF SyncReturns
    <3> QED
      BY <1>3, <3>1 DEF SyncMoved, SyncState
  <2>2. CASE SyncUnslots
    BY <2>2, SyncFailsIs DEF SyncUnslots
  <2> QED
    BY <2>1, <2>2
<1>7. /\ ThreadsOK' /\ thread'["reader"] = thread["reader"]
      /\ thread'["sync"].pc = "none" /\ thread'["sync"].b = 0
  <2>1. NoThread \in ThreadState /\ NoThread.pc = "none" /\ NoThread.b = 0
    BY CameraBounds DEF NoThread, ThreadState, NoBroker
  <2>2. thread' = [thread EXCEPT !["sync"] = NoThread]
    BY DEF SyncReturns, SyncUnslots
  <2> QED
    BY <1>3, <2>1, <2>2 DEF ThreadsOK, Users
<1>8. \E c \in Brokers : /\ c = sync.own /\ broker[c].slot = "sync"
                         /\ thread["sync"].b = c
                         /\ Slotted(c, "free", broker[c].abort)
  BY <1>2, <1>5
<1> QED
  BY <1>1, <1>6, <1>7, <1>8

(* Giving it back keeps the first half.                                       *)
LEMMA SyncLeavesKeeps ==
    ASSUME Answers, SyncReturns \/ SyncUnslots
    PROVE  Answers'
<1> USE DEF Answers
<1>1. PICK b \in Brokers : /\ b = sync.own /\ broker[b].slot = "sync" /\ thread["sync"].b = b
                           /\ Slotted(b, "free", broker[b].abort)
  BY SyncLeavesIs
<1>2. /\ SyncMoved("idle", sync.own) \/ SyncMoved("recover", sync.own)
      /\ UNCHANGED <<scene, registered, made, started, sent, binding, generation, held,
                     reader, maint, faults>>
      /\ ThreadsOK' /\ thread'["reader"] = thread["reader"]
      /\ thread'["sync"].pc = "none" /\ thread'["sync"].b = 0
  BY SyncLeavesIs
<1>3. broker[b].abort \in BOOLEAN /\ made \in Nat
  BY Types DEF BrokerState
<1>4. BrokersOK' /\ HandleInv' /\ PipeInv'
  BY <1>1, <1>2, <1>3, SlottedKeeps DEF Users
<1>5. Typed'
  BY <1>2, <1>4, TypedFrame DEF Typed, SyncOK, SyncMoved
<1>6. OwnInv' /\ ModeInv'
  BY <1>1, <1>2, <1>3 DEF OwnInv, ModeInv, Stopping, Users, SyncMoved
<1>7. ReadUnderWay \/ RestartUnderWay =>
        /\ broker[reader.own].slot = "reader" /\ broker'[reader.own] = broker[reader.own]
  <2>1. ReadUnderWay \/ RestartUnderWay => reader.own \in Brokers
    BY Types, Fields
       DEF OwnInv, ReadUnderWay, RestartUnderWay, Stopping, ModeInv, NoBroker, Brokers
  <2> QED
    BY <1>1, <2>1 DEF SlotInv, Slotted, Only
<1>8. SlotInv'
  BY <1>1, <1>2, <1>7
     DEF SlotInv, SyncMoved, ReadUnderWay, RestartUnderWay, Stopping
<1>9. AbortInv'
  <2>1. reader.pc = "stopping" => reader.stop.b \in Brokers
    BY Types, Fields DEF OwnInv, Stopping, NoBroker, Brokers
  <2>2. \A c \in Brokers : /\ broker'[c].handle = broker[c].handle
                           /\ broker'[c].doomed = broker[c].doomed
    BY <1>1 DEF Slotted, Only
  <2> QED
    BY <1>2, <1>7, <2>1, <2>2 DEF AbortInv, SyncMoved, Stopping, ReadUnderWay
<1>10. AnswersOwnRequest'
  BY <1>2 DEF AnswersOwnRequest, Users
<1> QED
  BY <1>4, <1>5, <1>6, <1>8, <1>9, <1>10

(* A failed request stops its child.                                          *)
LEMMA SyncErrsIs ==
    ASSUME Answers, SyncErrs
    PROVE  /\ sync.pc = "wait" /\ SyncMoved("unslot", sync.own)
           /\ UNCHANGED <<scene, registered, made, started, sent, binding, generation, held,
                          reader, maint, thread>>
           /\ \E b \in Brokers : /\ b = sync.own /\ b <= made /\ Only(b) /\ Stopped(b)
                                 /\ faults' \in FaultState
                                 /\ broker'[b].alive => broker'[b].fatal
<1> USE DEF Answers
<1>1. /\ UNCHANGED <<scene, registered, made, started, sent, binding, generation, held,
                     reader, maint, thread>>
      /\ sync.pc = "wait" /\ sync' = [sync EXCEPT !.pc = "unslot"]
      /\ \E dead \in BOOLEAN : StopProcess(sync.own, dead)
  BY DEF SyncErrs, othersOfSync
<1>2. PICK b \in Brokers : b = sync.own /\ b <= made
  BY <1>1, Types, Fields DEF OwnInv, Brokers, NoBroker
<1>3. /\ Only(b) /\ Stopped(b) /\ faults' \in FaultState
      /\ broker'[b].alive => broker'[b].fatal
  BY <1>1, <1>2, StopProcessIs
<1>4. SyncMoved("unslot", sync.own)
  BY <1>1, SyncIs DEF SyncMoved, SyncState
<1> QED
  BY <1>1, <1>2, <1>3, <1>4

(* That stop keeps the first half.                                            *)
LEMMA SyncErrsKeeps ==
    ASSUME Answers, SyncErrs
    PROVE  Answers'
<1> USE DEF Answers
<1>1. PICK b \in Brokers : /\ b = sync.own /\ b <= made /\ Only(b) /\ Stopped(b)
                           /\ faults' \in FaultState
  BY SyncErrsIs
<1>2. /\ sync.pc = "wait" /\ SyncMoved("unslot", sync.own)
      /\ UNCHANGED <<scene, registered, made, started, sent, binding, generation, held,
                     reader, maint, thread>>
  BY SyncErrsIs
<1>3. /\ BrokersOK' /\ ThreadsOK' /\ HandleInv' /\ PipeInv' /\ AnswersOwnRequest'
      /\ BrokersKeep
  BY <1>1, <1>2, StoppedKeeps DEF ThreadReleased
<1>4. Typed'
  BY <1>1, <1>2, <1>3, TypedFrame DEF Typed, RestOK, SyncOK, SyncMoved
<1>5. OwnInv' /\ ModeInv'
  BY <1>2 DEF OwnInv, ModeInv, Stopping, SyncMoved
<1>6. ReadUnderWay \/ RestartUnderWay => reader.own \in 1 .. made
  BY Types, Fields DEF OwnInv, ReadUnderWay, RestartUnderWay, Stopping, ModeInv, NoBroker
<1>7. b \in 1 .. made
  BY <1>1, Types DEF Brokers
<1>8. SlotInv'
  BY <1>1, <1>2, <1>3, <1>6, <1>7
     DEF SlotInv, SyncMoved, BrokersKeep, ReadUnderWay, RestartUnderWay, Stopping
<1>9. AbortInv'
  <2>1. /\ reader.pc = "join" \/ (reader.pc = "stopping" /\ Stopping({"cleanup"}))
             => reader.own \in 1 .. made
        /\ reader.pc = "stopping" => reader.stop.b \in 1 .. made
    BY Types, Fields DEF OwnInv, Stopping, ModeInv, NoBroker
  <2>2. broker'[b].abort
    BY <1>1 DEF Stopped
  <2> QED
    BY <1>1, <1>2, <1>3, <2>1, <2>2, Types, Fields
       DEF AbortInv, BrokersKeep, Stopping, SyncMoved
<1> QED
  BY <1>3, <1>4, <1>5, <1>8, <1>9

-----------------------------------------------------------------------------
(* Every step keeps the answers of the camera apart.                          *)

(* At the start no request is under way.                                      *)
LEMMA AnswersInit == Init => Answers
<1> SUFFICES ASSUME Init PROVE Answers
  OBVIOUS
<1> USE CameraBounds
<1>1. Typed
  <2>1. BrokersOK /\ BooksOK /\ ThreadsOK /\ MaintOK /\ RestOK
    BY DEF Init, BrokersOK, BrokerState, Fresh, BooksOK, ThreadsOK, ThreadState, NoThread,
       MaintOK, MaintState, RestOK, FaultState, NoBroker, Calls
  <2>2. ReaderOK
    BY DEF Init, ReaderOK, ReaderState, Resting, NoStop, Stops, NoBroker
  <2>3. SyncOK
    BY DEF Init, SyncOK, SyncState, NoBroker
  <2> QED
    BY <2>1, <2>2, <2>3 DEF Typed
<1>2. OwnInv /\ ModeInv
  BY DEF Init, OwnInv, ModeInv, Stopping, Resting, NoStop, NoThread, NoBroker
<1>3. SlotInv /\ AbortInv
  BY DEF Init, SlotInv, AbortInv, ReadUnderWay, RestartUnderWay, Stopping, Resting, NoStop,
     NoThread, Users
<1>4. HandleInv /\ PipeInv
  BY DEF Init, HandleInv, PipeInv, PipeOf, Clean, Fresh
<1>5. AnswersOwnRequest
  BY DEF Init, AnswersOwnRequest, NoThread
<1> QED
  BY <1>1, <1>2, <1>3, <1>4, <1>5 DEF Answers

(* The steps of the reader, together.                                         *)
LEMMA ReaderKeeps ==
    ASSUME Answers, ReadBegins \/ CancelRead \/ Reader
    PROVE  Answers'
<1>1. CASE ReaderAlone
  BY <1>1, ReaderAloneKeeps
<1>2. CASE Resolve /\ ~UNCHANGED <<broker, registered, made>>
  BY <1>2, ResolveMakesKeeps
<1>3. CASE ReadReturns \/ Join \/ RestartReady \/ Unslot
  BY <1>3, ReaderReleasesKeep
<1>4. CASE Take \/ StopBegins \/ StopEnds \/ RestartStarts
  BY <1>4, TakeKeeps, StopBeginsKeeps, StopEndsKeeps, RestartStartsKeeps
<1> QED
  BY <1>1, <1>2, <1>3, <1>4 DEF Reader, ReaderAlone

(* The steps of sync, together.                                               *)
LEMMA SyncKeeps ==
    ASSUME Answers, (\E kind \in {"read", "status"} : SyncBegins(kind)) \/ Sync
    PROVE  Answers'
<1>1. CASE SyncAlone
  BY <1>1, SyncAloneKeeps
<1>2. CASE SyncReleases
  BY <1>2, SyncReleasesKeep
<1>3. CASE SyncTakes \/ SyncReturns \/ SyncUnslots \/ SyncErrs
  BY <1>3, SyncTakesKeeps, SyncLeavesKeeps, SyncErrsKeeps
<1> QED
  BY <1>1, <1>2, <1>3 DEF Sync, SyncAlone, SyncReleases

(* The first half is inductive.                                               *)
LEMMA AnswersStep == Answers /\ [Next]_vars => Answers'
<1> SUFFICES ASSUME Answers, [Next]_vars PROVE Answers'
  OBVIOUS
<1>1. CASE ReadBegins \/ CancelRead \/ Reader
  BY <1>1, ReaderKeeps
<1>2. CASE (\E kind \in {"read", "status"} : SyncBegins(kind)) \/ Sync
  BY <1>2, SyncKeeps
<1>3. CASE \E u \in Users : Thread(u)
  BY <1>3, ThreadKeeps
<1>4. CASE \E b \in Brokers : ChildAnnounces(b) \/ ChildAnswers(b) \/ ChildDies(b)
  BY <1>4, ChildKeeps
<1>5. CASE (\E c \in Bindings : Quiesce(c)) \/ Maintenance \/ EndMaintenance \/ Rebind
  BY <1>5, HandoffKeeps
<1>6. CASE ReleaseAll
  BY <1>6, ReleaseAllKeeps
<1>7. CASE UNCHANGED vars
  <2>1. UNCHANGED <<scene, broker, registered, made, started, sent, binding, generation,
                    held, reader, sync, thread, maint, faults>>
    BY <1>7 DEF vars
  <2>2. Typed' /\ HandleInv'
    BY <2>1, TypedFrame, Types, HandleFrame DEF Answers, Typed
  <2> QED
    BY <2>1, <2>2, OwnFrame, ModeFrame, SlotFrame, AbortFrame, PipeFrame, AnswerFrame
       DEF Answers
<1> QED
  BY <1>1, <1>2, <1>3, <1>4, <1>5, <1>6, <1>7 DEF Next

(* So it always holds.                                                        *)
LEMMA AnswersAlways == Spec => []Answers
<1> QED
  BY AnswersInit, AnswersStep, PTL DEF Spec

(* A request is answered with its own frame: what an earlier request left in  *)
(* the pipe is never taken for its answer, whatever was cancelled, aborted,   *)
(* killed or restarted in between.                                            *)
THEOREM AnswersOwnRequestHolds == Spec => []AnswersOwnRequest
<1>1. Answers => AnswersOwnRequest
  BY DEF Answers
<1> QED
  BY <1>1, AnswersAlways, PTL

-----------------------------------------------------------------------------
(* No live child escapes the books.                                           *)

(* A child that lives on is the one it was.                                   *)
Wanes ==
    \A b \in Brokers : broker'[b].alive =>
        /\ broker[b].alive /\ broker'[b].handle = broker[b].handle
        /\ broker'[b].cfg = broker[b].cfg

(* What may live outside the registry may go on doing so.                     *)
KeptOn == \A b \in Brokers : broker'[b].alive /\ Kept(b) => Kept(b)'

(* A child leaves the registry only for that.                                 *)
Homed == \A b \in Brokers : broker'[b].alive /\ registered = b => registered' = b \/ Kept(b)'
(* Nobody is about to start a child of a broker that is held.                 *)
Quieter ==
    \A b \in Brokers : Starter(b)' =>
        \/ broker'[b].cfg \notin held
        \/ broker'[b].cfg = broker[b].cfg /\ (Starter(b) \/ b = maint.b)

(* Three facts about a step that keep the children in the books.              *)
LEMMA ChildInvKeeps ==
    ASSUME ChildInv, Calm' => Calm, Calm' => Wanes /\ KeptOn /\ Homed,
           Calm' /\ sync'.pc = "pop" => ~broker'[sync'.own].alive
    PROVE  ChildInv'
<1> SUFFICES ASSUME Calm' PROVE ChildInv'
  BY DEF ChildInv
<1>1. ASSUME NEW b \in Brokers, broker'[b].alive PROVE registered' = b \/ Kept(b)'
  BY <1>1 DEF ChildInv, Wanes, KeptOn, Homed
<1> QED
  BY <1>1 DEF ChildInv

(* And three that keep them off a held candidate.                             *)
LEMMA MaintInvKeeps ==
    ASSUME MaintInv, Calm' => Calm, Calm' => Wanes /\ KeptOn /\ Quieter,
           UNCHANGED <<maint, held>>,
           maint.pc \in {"release", "held"} /\ maint.b # NoBroker /\ broker[maint.b].quiesced
             => broker'[maint.b].quiesced
    PROVE  MaintInv'
<1> SUFFICES ASSUME Calm', maint.pc # "idle" PROVE MaintInv'
  BY DEF MaintInv
<1>1. ASSUME NEW b \in Brokers, broker'[b].cfg = maint.c
      PROVE  /\ Starter(b)' => b = maint.b
             /\ broker'[b].alive /\ (b # maint.b \/ maint.pc = "held") => Kept(b)'
  BY <1>1 DEF MaintInv, Wanes, KeptOn, Quieter
<1> QED
  BY <1>1 DEF MaintInv

(* Who is under way, alone.                                                   *)
LEMMA OneAtATime ==
    ASSUME Answers, Exclusive, "status" \notin scene
    PROVE  /\ reader.pc # "idle" => sync.pc = "idle" /\ thread["sync"].pc = "none"
           /\ sync.pc # "idle" => reader.pc = "idle" /\ thread["reader"].pc = "none"
           /\ reader.mode = "restart" => thread["reader"].pc = "none"
BY DEF Answers, Exclusive, SlotInv, ModeInv, ReadUnderWay, Stopping

(* Whoever may start a child has the registered broker.                       *)
LEMMA StarterRegistered ==
    ASSUME Answers, Exclusive, RegisteredInv, StopInv, Calm, NEW b \in Brokers, Starter(b)
    PROVE  registered = b
<1>1. CASE reader.own = b /\ reader.pc \in {"take", "start"}
  BY <1>1 DEF RegisteredInv
<1>2. CASE sync.own = b /\ sync.pc = "take"
  BY <1>2 DEF RegisteredInv
<1>3. CASE thread["sync"].b = b /\ thread["sync"].pc = "start"
  BY <1>3 DEF RegisteredInv, Answers, SlotInv
<1>4. CASE thread["reader"].b = b /\ thread["reader"].pc = "start" /\ ~broker[b].fatal
  <2>1. ReadUnderWay /\ reader.own = b
    BY <1>4 DEF Answers, SlotInv
  <2>2. reader.pc \notin {"cleanup", "join"} /\ ~Stopping({"cleanup"})
    BY <1>4, <2>1 DEF StopInv
  <2>3. reader.pc = "wait" \/ Stopping({"outer"})
    BY <2>1, <2>2 DEF ReadUnderWay, Stopping
  <2> QED
    BY <2>1, <2>3 DEF RegisteredInv, Stopping
<1> QED
  BY <1>1, <1>2, <1>3, <1>4 DEF Starter, Users

-----------------------------------------------------------------------------
(* Steps that leave the reader and sync where they are.                       *)

(* A fatal broker stays fatal, or is dead and nobody starts it.               *)
FatalKept ==
    \A b \in Brokers : broker[b].fatal =>
        \/ broker'[b].fatal
        \/ /\ ~broker'[b].alive
           /\ \A u \in Users : thread'[u].b = b /\ thread'[u].pc = "start" =>
                                   u = "sync" /\ b = maint.b

(* No request thread begins.                                                  *)
NoNewStart == \A u \in Users : thread'[u].pc = "start" => thread'[u] = thread[u]

(* Under these the second half stays as it is.                                *)
LEMMA BothStay ==
    ASSUME Answers, Children, UNCHANGED <<scene, generation, registered, reader, sync>>,
           Wanes, FatalKept, NoNewStart
    PROVE  /\ Exclusive' /\ RegisteredInv' /\ ChildInv' /\ StopInv' /\ OvertakenInv'
           /\ KeptOn
           /\ \A b \in Brokers : Starter(b)' => Starter(b) \/ b = maint.b
<1> USE DEF Children
<1>1. Exclusive' /\ RegisteredInv'
  BY DEF Exclusive, RegisteredInv, Calm, Stopping
<1>2. KeptOn
  BY DEF KeptOn, FatalKept, Kept, Cleaning, Stopping
<1>3. Homed /\ Calm' => Calm
  BY DEF Homed, Calm
<1>4. Calm => (sync.pc = "pop" => ~broker'[sync.own].alive)
  <2>1. sync.pc = "pop" => sync.own \in Brokers
    BY Types, Fields DEF Answers, OwnInv, Brokers, NoBroker
  <2> QED
    BY <2>1 DEF ChildInv, Wanes
<1>5. ChildInv'
  BY <1>2, <1>3, <1>4, ChildInvKeeps DEF Homed, Calm
<1>6. StopInv'
  <2>1. /\ reader.pc = "stopping" => reader.stop.b \in Brokers
        /\ reader.pc \in {"cleanup", "join"} \/ Stopping({"cleanup"}) => reader.own \in Brokers
    BY Types, Fields DEF Answers, OwnInv, Stopping, Brokers, NoBroker
  <2>2. ASSUME Calm, reader.pc \in {"cleanup", "join"} \/ Stopping({"cleanup"}),
               thread'["reader"].pc = "start"
        PROVE  broker'[reader.own].fatal
    <3>1. thread["reader"].pc = "start" /\ thread'["reader"].b = reader.own
      BY <2>2 DEF NoNewStart, Users, Answers, SlotInv, ReadUnderWay, Stopping
    <3> QED
      BY <2>1, <2>2, <3>1 DEF StopInv, FatalKept, Users
  <2> QED
    BY <2>1, <2>2 DEF StopInv, Calm, Stopping, Wanes
<1>7. OvertakenInv'
  BY DEF OvertakenInv, Overtaken, Stopping, Wanes, FatalKept
<1>8. ASSUME NEW b \in Brokers, Starter(b)' PROVE Starter(b) \/ b = maint.b
  BY <1>8 DEF Starter, NoNewStart, FatalKept, Users
<1> QED
  BY <1>1, <1>2, <1>5, <1>6, <1>7, <1>8

(* Of a child nothing changes, unless it dies.                                *)
Tame(b) ==
    /\ Only(b)
    /\ broker'[b].alive => broker[b].alive
    /\ broker'[b].handle = broker[b].handle /\ broker'[b].cfg = broker[b].cfg
    /\ broker'[b].fatal = broker[b].fatal /\ broker'[b].quiesced = broker[b].quiesced

(* A tame step starts nothing and clears nothing.                             *)
LEMMA TameIs ==
    ASSUME NEW b \in Brokers, Tame(b)
    PROVE  /\ Wanes /\ FatalKept
           /\ \A c \in Brokers : /\ broker'[c].quiesced = broker[c].quiesced
                                 /\ broker'[c].fatal = broker[c].fatal
                                 /\ broker'[c].cfg = broker[c].cfg
BY DEF Tame, Only, Wanes, FatalKept

(* What the child does is tame.                                               *)
LEMMA ChildTame ==
    ASSUME Answers, NEW b \in Brokers, ChildAnnounces(b) \/ ChildAnswers(b) \/ ChildDies(b)
    PROVE  Tame(b)
<1> DEFINE r == broker[b]
<1>1. r \in BrokerState /\ BrokersOK
  BY Types DEF Answers, Typed
<1>2. CASE ChildAnnounces(b)
  <2>1. [r EXCEPT !.announced = TRUE] \in BrokerState
    BY <1>1 DEF BrokerState
  <2>2. Only(b) /\ broker'[b] = [r EXCEPT !.announced = TRUE]
    BY <1>1, <1>2, <2>1, OneOnly DEF ChildAnnounces
  <2> QED
    BY <1>1, <2>2 DEF BrokerState, Tame
<1>3. CASE ChildAnswers(b)
  <2>1. [r EXCEPT !.resp = r.req, !.req = 0] \in BrokerState
    BY <1>1 DEF BrokerState
  <2>2. broker' = [broker EXCEPT ![b] = [r EXCEPT !.resp = r.req, !.req = 0]]
    BY <1>1, <1>3 DEF BrokersOK, ChildAnswers
  <2>3. Only(b) /\ broker'[b] = [r EXCEPT !.resp = r.req, !.req = 0]
    BY <1>1, <2>1, <2>2, OneOnly
  <2> QED
    BY <1>1, <2>3 DEF BrokerState, Tame
<1>4. CASE ChildDies(b)
  <2>1. [r EXCEPT !.alive = FALSE, !.req = 0] \in BrokerState
    BY <1>1 DEF BrokerState
  <2>2. broker' = [broker EXCEPT ![b] = [r EXCEPT !.alive = FALSE, !.req = 0]]
    BY <1>1, <1>4 DEF BrokersOK, ChildDies
  <2>3. Only(b) /\ broker'[b] = [r EXCEPT !.alive = FALSE, !.req = 0]
    BY <1>1, <2>1, <2>2, OneOnly
  <2> QED
    BY <1>1, <2>3 DEF BrokerState, Tame
<1> QED
  BY <1>2, <1>3, <1>4

(* A tame step keeps the second half.                                         *)
LEMMA TameStays ==
    ASSUME Answers, Children, NEW b \in Brokers, Tame(b), NoNewStart,
           UNCHANGED <<scene, generation, registered, reader, sync, maint, held>>
    PROVE  Children'
<1>1. /\ Wanes /\ FatalKept
      /\ \A c \in Brokers : /\ broker'[c].quiesced = broker[c].quiesced
                            /\ broker'[c].cfg = broker[c].cfg
  BY TameIs
<1>2. /\ Exclusive' /\ RegisteredInv' /\ ChildInv' /\ StopInv' /\ OvertakenInv'
      /\ KeptOn
      /\ \A c \in Brokers : Starter(c)' => Starter(c) \/ c = maint.b
  BY <1>1, BothStay
<1>3. Calm' => Calm
  BY DEF Calm
<1>4. Quieter
  BY <1>1, <1>2 DEF Quieter
<1>5. maint.b # NoBroker => maint.b \in Brokers
  BY Types, Fields DEF Answers, OwnInv, Brokers, NoBroker
<1>6. MaintInv'
  BY <1>1, <1>2, <1>3, <1>4, <1>5, MaintInvKeeps DEF Children
<1> QED
  BY <1>2, <1>6 DEF Children

(* So the child keeps it.                                                     *)
LEMMA ChildStays ==
    ASSUME Answers, Children, NEW b \in Brokers,
           ChildAnnounces(b) \/ ChildAnswers(b) \/ ChildDies(b)
    PROVE  Children'
<1>1. UNCHANGED <<scene, generation, registered, reader, sync, thread, maint, held>>
  BY DEF ChildAnnounces, ChildAnswers, ChildDies
<1> QED
  BY <1>1, ChildTame, TameStays DEF NoNewStart

(* A request thread beyond its start.                                         *)
LEMMA ThreadGoesOn ==
    ASSUME Answers, NEW u \in Users,
           ThreadRefused(u) \/ ThreadSends(u) \/ ThreadReceives(u) \/ ThreadFails(u)
    PROVE  /\ \E b \in Brokers : Tame(b)
           /\ NoNewStart
<1> DEFINE t == thread[u]
           b == t.b
           r == broker[b]
<1>1. t.pc \notin {"none", "done"}
  BY DEF ThreadRefused, ThreadSends, ThreadReceives, ThreadFails
<1>2. b \in Brokers
  BY <1>1, Types, Fields
     DEF Answers, SlotInv, OwnInv, Users, Brokers, NoBroker, ReadUnderWay, Stopping
<1>3. r \in BrokerState /\ BrokersOK /\ ThreadsOK /\ sent + 1 \in Nat
  BY <1>2, Types DEF Answers, Typed
<1> HIDE DEF b, r
<1>4. Tame(b)
  <2>1. CASE ThreadRefused(u) \/ ThreadFails(u)
    <3>1. UNCHANGED broker
      BY <2>1 DEF ThreadRefused, ThreadFails
    <3> QED
      BY <1>2, <1>3, <3>1 DEF Tame, Only, BrokersOK
  <2>2. CASE ThreadSends(u)
    <3>1. broker' = [broker EXCEPT ![b] = [r EXCEPT !.ready = TRUE, !.req = sent + 1]]
      BY <1>2, <1>3, <2>2 DEF BrokersOK, ThreadSends, b, r
    <3>2. [r EXCEPT !.ready = TRUE, !.req = sent + 1] \in BrokerState
      BY <1>3, Sent
    <3>3. Only(b) /\ broker'[b] = [r EXCEPT !.ready = TRUE, !.req = sent + 1]
      BY <1>2, <1>3, <3>1, <3>2, OneOnly
    <3>4. /\ broker'[b].alive = r.alive /\ broker'[b].handle = r.handle
          /\ broker'[b].cfg = r.cfg /\ broker'[b].fatal = r.fatal
          /\ broker'[b].quiesced = r.quiesced
      BY <1>3, <3>3 DEF BrokerState
    <3> QED
      BY <3>3, <3>4 DEF Tame, r
  <2>3. CASE ThreadReceives(u)
    <3>1. broker' = [broker EXCEPT ![b] = [r EXCEPT !.resp = 0]]
      BY <1>2, <1>3, <2>3 DEF BrokersOK, ThreadReceives, b, r
    <3>2. [r EXCEPT !.resp = 0] \in BrokerState
      BY <1>3 DEF BrokerState
    <3>3. Only(b) /\ broker'[b] = [r EXCEPT !.resp = 0]
      BY <1>2, <1>3, <3>1, <3>2, OneOnly
    <3>4. /\ broker'[b].alive = r.alive /\ broker'[b].handle = r.handle
          /\ broker'[b].cfg = r.cfg /\ broker'[b].fatal = r.fatal
          /\ broker'[b].quiesced = r.quiesced
      BY <1>3, <3>3 DEF BrokerState
    <3> QED
      BY <3>3, <3>4 DEF Tame, r
  <2> QED
    BY <2>1, <2>2, <2>3
<1>5. thread'[u].pc # "start" /\ \A v \in Users \ {u} : thread'[v] = thread[v]
  <2>1. CASE ThreadRefused(u) \/ ThreadFails(u)
    BY <1>3, <2>1 DEF ThreadRefused, ThreadFails, Done, ThreadsOK, ThreadState
  <2>2. CASE ThreadSends(u)
    BY <1>3, <2>2 DEF ThreadSends, ThreadsOK, ThreadState
  <2>3. CASE ThreadReceives(u)
    <3>1. PICK ok \in BOOLEAN, got \in {broker[thread[u].b].resp} :
            thread' = [thread EXCEPT ![u].pc = "done", ![u].ok = ok, ![u].got = got]
      BY <2>3 DEF ThreadReceives, Done
    <3> QED
      BY <1>3, <3>1 DEF ThreadsOK, ThreadState
  <2> QED
    BY <2>1, <2>2, <2>3
<1> QED
  BY <1>2, <1>4, <1>5 DEF NoNewStart

(* And the request thread, after its start, keeps it.                         *)
LEMMA ThreadGoesOnStays ==
    ASSUME Answers, Children, NEW u \in Users,
           ThreadRefused(u) \/ ThreadSends(u) \/ ThreadReceives(u) \/ ThreadFails(u)
    PROVE  Children'
<1>1. UNCHANGED <<scene, generation, registered, reader, sync, maint, held>>
  BY DEF ThreadRefused, ThreadSends, ThreadReceives, ThreadFails
<1> QED
  BY <1>1, ThreadGoesOn, TameStays

-----------------------------------------------------------------------------
(* A child is started: by who was about to, and it is that of the registered  *)
(* broker.                                                                    *)
LEMMA ThreadStartsIs ==
    ASSUME Answers, NEW u \in Users, ThreadStarts(u)
    PROVE  /\ UNCHANGED <<scene, registered, made, generation, held, reader, sync, maint>>
           /\ thread[u].pc = "start" /\ thread'[u].pc = "boot"
           /\ thread'[u].b = thread[u].b
           /\ \A v \in Users \ {u} : thread'[v] = thread[v]
           /\ \E b \in Brokers : b = thread[u].b /\ ~Refuses(b) /\ StartedOrSame(b)
<1>1. /\ UNCHANGED <<scene, registered, made, generation, held, reader, sync, maint>>
      /\ thread[u].pc = "start" /\ Starts(thread[u].b)
      /\ thread' = [thread EXCEPT ![u].pc = "boot", ![u].p = broker'[thread[u].b].handle]
  BY DEF ThreadStarts
<1>2. PICK b \in Brokers : b = thread[u].b
  BY <1>1, Types, Fields
     DEF Answers, SlotInv, OwnInv, Users, Brokers, NoBroker, ReadUnderWay, Stopping
<1>3. ~Refuses(b) /\ StartedOrSame(b)
  BY <1>1, <1>2, StartsIs DEF Starts, Answers
<1>4. /\ thread'[u].pc = "boot" /\ thread'[u].b = thread[u].b
      /\ \A v \in Users \ {u} : thread'[v] = thread[v]
  <2>1. ThreadsOK
    BY DEF Answers, Typed
  <2> QED
    BY <1>1, <2>1 DEF ThreadsOK, ThreadState
<1> QED
  BY <1>1, <1>2, <1>3, <1>4

(* The start of a child by who may start it keeps the books.                  *)
LEMMA StartedBooks ==
    ASSUME Answers, Children, NEW b \in Brokers, StartedOrSame(b), ~Refuses(b), Starter(b),
           UNCHANGED <<scene, generation, registered, maint, held, sync>>, sync.pc # "pop",
           \A c \in Brokers : Cleaning(c)' <=> Cleaning(c),
           \A c \in Brokers : Starter(c)' => Starter(c)
    PROVE  ChildInv' /\ MaintInv'
<1> USE DEF Children
<1>1. \A c \in Brokers : /\ broker'[c].cfg = broker[c].cfg
                         /\ broker'[c].fatal = broker[c].fatal
                         /\ broker'[c].quiesced = broker[c].quiesced
                         /\ c # b => broker'[c] = broker[c]
                         /\ Kept(c)' <=> Kept(c)
  BY DEF StartedOrSame, Only, Kept
<1>2. Calm => registered = b
  BY StarterRegistered
<1>3. ChildInv'
  BY <1>1, <1>2 DEF ChildInv, Calm
<1>4. maint.b # NoBroker => maint.b \in Brokers
  BY Types, Fields DEF Answers, OwnInv, Brokers, NoBroker
<1>5. MaintInv'
  <2>1. SUFFICES ASSUME Calm, maint.pc # "idle" PROVE MaintInv'
    BY DEF MaintInv, Calm
  <2>2. /\ maint.c \in held
        /\ maint.pc \in {"release", "held"} /\ maint.b # NoBroker => broker'[maint.b].quiesced
    BY <1>1, <1>4, <2>1 DEF MaintInv
  <2>3. ASSUME NEW c \in Brokers, broker[c].cfg = maint.c
        PROVE  /\ Starter(c)' => c = maint.b
               /\ broker'[c].alive /\ (c # maint.b \/ maint.pc = "held") => Kept(c)'
    <3>1. CASE c # b
      BY <1>1, <2>1, <2>3, <3>1 DEF MaintInv
    <3>2. CASE c = b
      <4>1. b = maint.b /\ b # NoBroker
        BY <2>1, <2>3, <3>2 DEF MaintInv, Brokers, NoBroker
      <4>2. maint.pc # "held"
        BY <2>1, <4>1 DEF MaintInv, Refuses
      <4> QED
        BY <3>2, <4>1, <4>2
    <3> QED
      BY <3>1, <3>2
  <2> QED
    BY <1>1, <2>2, <2>3 DEF MaintInv
<1> QED
  BY <1>3, <1>5

(* The request thread starts a child.                                         *)
LEMMA ThreadStartsStays ==
    ASSUME Answers, Children, NEW u \in Users, ThreadStarts(u)
    PROVE  Children'
<1> USE DEF Children
<1>1. PICK b \in Brokers : b = thread[u].b /\ ~Refuses(b) /\ StartedOrSame(b)
  BY ThreadStartsIs
<1>2. /\ UNCHANGED <<scene, registered, made, generation, held, reader, sync, maint>>
      /\ thread[u].pc = "start" /\ thread'[u].pc = "boot" /\ thread'[u].b = b
      /\ \A v \in Users \ {u} : thread'[v] = thread[v]
  BY <1>1, ThreadStartsIs
<1>3. \A c \in Brokers : /\ broker'[c].fatal = broker[c].fatal
                         /\ c # b => broker'[c] = broker[c]
  BY <1>1 DEF StartedOrSame, Only
<1>4. Exclusive' /\ RegisteredInv'
  BY <1>2 DEF Exclusive, RegisteredInv, Calm, Stopping
<1>5. Starter(b)
  BY <1>1, <1>2 DEF Starter, Refuses
<1>6. sync.pc # "pop" \/ ~Calm
  BY <1>2, OneAtATime DEF Answers, SlotInv, Calm, Users
<1>7. ChildInv' /\ MaintInv'
  <2>1. \A c \in Brokers : (Cleaning(c)' <=> Cleaning(c)) /\ (Starter(c)' => Starter(c))
    BY <1>2, <1>3 DEF Cleaning, Stopping, Starter, Users
  <2>2. CASE Calm
    BY <1>1, <1>2, <1>5, <1>6, <2>1, <2>2, StartedBooks
  <2>3. CASE ~Calm
    BY <1>2, <2>3 DEF Calm, ChildInv, MaintInv
  <2> QED
    BY <2>2, <2>3
<1>8. StopInv'
  <2>1. ASSUME reader.pc = "stopping",
               (Calm /\ ~Stopping({"outer"})) \/ ("status" \notin scene /\ reader.mode = "restart")
        PROVE  FALSE
    <3>1. "status" \notin scene /\ u = "reader"
      BY <1>2, <2>1, OneAtATime DEF Calm, Users
    <3>2. reader.mode # "restart" /\ Calm /\ ~Stopping({"outer"})
      BY <1>2, <2>1, <3>1, OneAtATime
    <3>3. Stopping({"cleanup"}) /\ b = reader.own
      BY <1>1, <1>2, <2>1, <3>1, <3>2 DEF Answers, SlotInv, ReadUnderWay, Stopping
    <3> QED
      BY <1>1, <1>2, <3>1, <3>2, <3>3 DEF StopInv, Refuses
  <2>2. ASSUME Calm, reader.pc \in {"cleanup", "join"} \/ Stopping({"cleanup"}),
               thread'["reader"].pc = "start"
        PROVE  broker'[reader.own].fatal
    <3>1. reader.own \in Brokers
      BY <2>2, Types, Fields DEF Answers, OwnInv, Stopping, Brokers, NoBroker
    <3>2. thread["reader"].pc = "start"
      BY <1>2, <2>2 DEF Users
    <3> QED
      BY <1>3, <2>2, <3>1, <3>2 DEF StopInv
  <2> QED
    BY <1>2, <2>1, <2>2 DEF StopInv, Calm, Stopping
<1>9. OvertakenInv'
  <2>1. ~Overtaken
    BY <1>2, OneAtATime DEF Overtaken, Exclusive, Answers, SlotInv, Users
  <2> QED
    BY <1>2, <2>1 DEF OvertakenInv, Overtaken
<1> QED
  BY <1>4, <1>7, <1>8, <1>9

(* The restart starts a child.                                                *)
LEMMA RestartStartsStays ==
    ASSUME Answers, Children, RestartStarts
    PROVE  Children'
<1> USE DEF Children
<1>1. PICK b \in Brokers : b = reader.own /\ ~Refuses(b) /\ StartedOrSame(b)
  BY RestartStartsIs, StartsIs DEF Answers
<1>2. /\ reader.pc = "start" /\ reader'.pc = "boot" /\ reader'.own = reader.own
      /\ reader'.mode = reader.mode
      /\ UNCHANGED <<scene, sync, maint, registered, made, generation, held, thread>>
  BY RestartStartsIs DEF Stays, Moved
<1>3. reader.mode = "restart" /\ reader'.gen \in {reader.gen, generation}
  BY <1>2, RestartStartsIs DEF Stays, Moved, Answers, ModeInv
<1>4. Exclusive' /\ RegisteredInv'
  BY <1>2 DEF Exclusive, RegisteredInv, Calm, Stopping
<1>5. Starter(b)
  BY <1>1, <1>2 DEF Starter
<1>6. \A c \in Brokers : /\ broker'[c].fatal = broker[c].fatal
                         /\ c # b => broker'[c] = broker[c]
  BY <1>1 DEF StartedOrSame, Only
<1>7. ChildInv' /\ MaintInv'
  <2>1. \A c \in Brokers : (Cleaning(c)' <=> Cleaning(c)) /\ (Starter(c)' => Starter(c))
    BY <1>2, <1>6 DEF Cleaning, Stopping, Starter, Users
  <2>2. CASE Calm
    BY <1>1, <1>2, <1>5, <2>1, <2>2, StartedBooks, OneAtATime DEF Calm
  <2>3. CASE ~Calm
    BY <1>2, <2>3 DEF Calm, ChildInv, MaintInv
  <2> QED
    BY <2>2, <2>3
<1>8. StopInv'
  BY <1>2 DEF StopInv, Stopping
<1>9. OvertakenInv'
  <2>1. Overtaken' => Overtaken
    BY <1>2, <1>3, Fields DEF Overtaken, Answers
  <2> QED
    BY <1>1, <1>2, <1>6, <2>1 DEF OvertakenInv, Stopping
<1> QED
  BY <1>4, <1>7, <1>8, <1>9

-----------------------------------------------------------------------------
(* A handoff, a new binding, a bulk release.                                  *)

(* A release starts nothing, and what survives it is fatal.                   *)
LEMMA ReleasedWanes ==
    ASSUME Answers, NEW b \in Brokers, NEW ok \in BOOLEAN, Released(b, ok)
    PROVE  /\ Wanes /\ NoNewStart /\ Only(b)
           /\ broker'[b].alive => broker'[b].fatal
           /\ ok => ~broker'[b].alive
           /\ \A c \in Brokers : /\ broker'[c].quiesced = broker[c].quiesced
                                 /\ broker'[c].cfg = broker[c].cfg
           /\ thread'["reader"].pc = "start" /\ thread'["reader"].b = b => broker'[b].fatal
           /\ thread'["sync"] = thread["sync"]
<1>1. /\ Only(b) /\ Stopped(b) /\ ThreadReleased(b)
      /\ LiveThread("reader", b) => broker'[b].fatal \/ thread'["reader"].pc = "done"
      /\ broker'[b].alive => broker'[b].fatal
      /\ ok => ~broker'[b].alive
  BY ReleasedIs DEF Answers
<1>2. \A u \in Users : thread'[u] = thread[u] \/ (u = "reader" /\ thread'[u].pc = "done")
  <2>1. ThreadsOK
    BY DEF Answers, Typed
  <2> QED
    BY <1>1, <2>1 DEF ThreadReleased, ThreadsOK, ThreadState, Users
<1>3. Wanes /\ NoNewStart /\ thread'["sync"] = thread["sync"]
  BY <1>1, <1>2 DEF Wanes, NoNewStart, Only, Stopped, Users
<1>4. thread'["reader"].pc = "start" /\ thread'["reader"].b = b => broker'[b].fatal
  BY <1>1, <1>2 DEF LiveThread, Users
<1> QED
  BY <1>1, <1>3, <1>4 DEF Only, Stopped

(* A handoff begins: whoever might start the candidate has the registered     *)
(* broker, which the handoff quiesces.                                        *)
LEMMA QuiescesStays ==
    ASSUME Answers, Children, NEW c \in Bindings, Quiesce(c)
    PROVE  Children'
<1> USE DEF Children
<1>1. UNCHANGED <<scene, broker, registered, generation, reader, sync, thread>>
  BY DEF Quiesce
<1>2. PICK b \in Nat :
        /\ b = IF registered # NoBroker /\ broker[registered].cfg = c
                 THEN registered ELSE NoBroker
        /\ maint' = [pc |-> IF b = NoBroker THEN "held" ELSE "begin", c |-> c, b |-> b]
        /\ held' = held \cup {c}
  BY Types DEF Quiesce, NoBroker, Answers
<1>3. /\ Exclusive' /\ RegisteredInv' /\ ChildInv' /\ StopInv' /\ OvertakenInv'
  BY <1>1, BothStay DEF Wanes, FatalKept, NoNewStart
<1>4. MaintInv'
  <2>1. SUFFICES ASSUME Calm PROVE MaintInv'
    BY <1>1 DEF MaintInv, Calm
  <2>2. ASSUME NEW d \in Brokers, broker[d].cfg = c
        PROVE  /\ Starter(d) => d = b
               /\ broker[d].alive /\ (d # b \/ b = NoBroker) => Kept(d)
    <3>1. registered = d => b = d /\ b # NoBroker
      BY <1>2, <2>2 DEF Brokers, NoBroker
    <3> QED
      BY <2>1, <3>1, StarterRegistered DEF ChildInv
  <2>3. \A d \in Brokers : (Starter(d)' <=> Starter(d)) /\ (Kept(d)' <=> Kept(d))
    BY <1>1 DEF Starter, Kept, Cleaning, Stopping
  <2>4. /\ maint'.c = c /\ maint'.b = b /\ c \in held'
        /\ maint'.pc = IF b = NoBroker THEN "held" ELSE "begin"
    BY <1>2
  <2> QED
    BY <1>1, <2>1, <2>2, <2>3, <2>4 DEF MaintInv
<1> QED
  BY <1>3, <1>4

(* The broker is quiesced.                                                    *)
LEMMA BeginStays ==
    ASSUME Answers, Children, BeginMaintenance
    PROVE  Children'
<1> USE DEF Children
<1>1. /\ UNCHANGED <<scene, registered, generation, held, reader, sync, thread>>
      /\ maint.pc = "begin" /\ maint' = [maint EXCEPT !.pc = "release"]
      /\ broker' = [broker EXCEPT ![maint.b].quiesced = TRUE]
  BY DEF BeginMaintenance
<1>2. PICK b \in Brokers : b = maint.b
  BY <1>1, Types, Fields DEF Answers, OwnInv, Brokers, NoBroker
<1>3. /\ FlagsOnly(b) /\ broker'[b].quiesced = TRUE /\ broker'[b].fatal = broker[b].fatal
      /\ broker'[b].cfg = broker[b].cfg
  BY <1>1, <1>2, QuiescedOnly DEF Answers, Typed
<1>4. maint'.pc = "release" /\ maint'.c = maint.c /\ maint'.b = b
  BY <1>1, <1>2 DEF Answers, Typed, MaintOK, MaintState
<1>5. Wanes /\ FatalKept /\ NoNewStart
  BY <1>1, <1>3 DEF Wanes, FatalKept, NoNewStart, FlagsOnly, Only
<1>6. /\ Exclusive' /\ RegisteredInv' /\ ChildInv' /\ StopInv' /\ OvertakenInv' /\ KeptOn
      /\ \A d \in Brokers : Starter(d)' => Starter(d) \/ d = maint.b
  BY <1>1, <1>5, BothStay
<1>7. MaintInv'
  <2>1. \A d \in Brokers : broker'[d].cfg = broker[d].cfg
    BY <1>3 DEF FlagsOnly, Only
  <2> QED
    BY <1>1, <1>2, <1>3, <1>4, <1>5, <1>6, <2>1 DEF MaintInv, Calm, Wanes, KeptOn
<1> QED
  BY <1>6, <1>7

(* Its child is released, and the candidate held.                             *)
LEMMA MaintenanceReleasesStays ==
    ASSUME Answers, Children, MaintenanceReleases
    PROVE  Children'
<1> USE DEF Children
<1>1. /\ UNCHANGED <<scene, registered, generation, reader, sync>>
      /\ maint.pc = "release"
  BY DEF MaintenanceReleases
<1>2. PICK b \in Brokers : b = maint.b
  BY <1>1, Types, Fields DEF Answers, OwnInv, Brokers, NoBroker
<1>3. PICK ok \in BOOLEAN :
        /\ Released(b, ok)
        /\ maint' = [maint EXCEPT !.pc = IF ok THEN "held" ELSE "idle"]
        /\ held' = IF ok THEN held ELSE held \ {maint.c}
  BY <1>2 DEF MaintenanceReleases
<1>4. /\ Wanes /\ NoNewStart /\ Only(b)
      /\ broker'[b].alive => broker'[b].fatal
      /\ ok => ~broker'[b].alive
      /\ \A c \in Brokers : /\ broker'[c].quiesced = broker[c].quiesced
                            /\ broker'[c].cfg = broker[c].cfg
      /\ thread'["reader"].pc = "start" /\ thread'["reader"].b = b => broker'[b].fatal
  BY <1>3, ReleasedWanes
<1>5. FatalKept
  BY <1>2, <1>4 DEF FatalKept, Only, Users
<1>6. /\ Exclusive' /\ RegisteredInv' /\ ChildInv' /\ StopInv' /\ OvertakenInv' /\ KeptOn
      /\ \A d \in Brokers : Starter(d)' => Starter(d) \/ d = maint.b
  BY <1>1, <1>4, <1>5, BothStay
<1>7. MaintInv'
  <2>1. CASE ~ok
    <3>1. maint'.pc = "idle"
      BY <1>3, <2>1 DEF Answers, Typed, MaintOK, MaintState
    <3> QED
      BY <3>1 DEF MaintInv
  <2>2. CASE ok
    <3>1. maint'.pc = "held" /\ maint'.c = maint.c /\ maint'.b = b /\ held' = held
      BY <1>2, <1>3, <2>2 DEF Answers, Typed, MaintOK, MaintState
    <3> QED
      BY <1>1, <1>2, <1>4, <1>6, <2>2, <3>1 DEF MaintInv, Calm, Wanes, KeptOn
  <2> QED
    BY <2>1, <2>2
<1> QED
  BY <1>6, <1>7

(* The handoff ends.                                                          *)
LEMMA EndsStays ==
    ASSUME Answers, Children, EndMaintenance
    PROVE  Children'
<1> USE DEF Children
<1>1. /\ UNCHANGED <<scene, registered, generation, reader, sync, thread>>
      /\ maint' = [maint EXCEPT !.pc = "idle"]
      /\ broker' = IF maint.b = NoBroker THEN broker
                   ELSE [broker EXCEPT ![maint.b].quiesced = FALSE]
  BY DEF EndMaintenance
<1>2. Wanes /\ FatalKept /\ NoNewStart
  <2>1. CASE maint.b = NoBroker
    BY <1>1, <2>1 DEF Wanes, FatalKept, NoNewStart
  <2>2. CASE maint.b # NoBroker
    <3>1. PICK b \in Brokers : b = maint.b
      BY <2>2, Types, Fields DEF Answers, OwnInv, Brokers, NoBroker
    <3>2. /\ FlagsOnly(b) /\ broker'[b].fatal = broker[b].fatal
          /\ broker'[b].cfg = broker[b].cfg
      BY <1>1, <2>2, <3>1, QuiescedOnly DEF Answers, Typed
    <3> QED
      BY <1>1, <3>2 DEF Wanes, FatalKept, NoNewStart, FlagsOnly, Only
  <2> QED
    BY <2>1, <2>2
<1>3. Exclusive' /\ RegisteredInv' /\ ChildInv' /\ StopInv' /\ OvertakenInv'
  BY <1>1, <1>2, BothStay
<1>4. maint'.pc = "idle"
  BY <1>1 DEF Answers, Typed, MaintOK, MaintState
<1> QED
  BY <1>3, <1>4 DEF MaintInv

(* What the second half does not speak of does not matter.                    *)
LEMMA ChildrenFrame ==
    ASSUME Children, UNCHANGED <<scene, broker, registered, generation, held, reader, sync,
                                 thread, maint>>
    PROVE  Children'
BY DEF Children, Exclusive, RegisteredInv, ChildInv, StopInv, MaintInv, OvertakenInv, Overtaken,
   Calm, Kept, Cleaning, Starter, Stopping

(* The steps of a handoff, and a new binding, together.                       *)
LEMMA HandoffStays ==
    ASSUME Answers, Children,
           (\E c \in Bindings : Quiesce(c)) \/ Maintenance \/ EndMaintenance \/ Rebind
    PROVE  Children'
<1>1. CASE Rebind
  BY <1>1, ChildrenFrame DEF Rebind
<1> QED
  BY <1>1, QuiescesStays, BeginStays, MaintenanceReleasesStays, EndsStays DEF Maintenance

(* After a bulk release every child is fatal, or that of a restart which will *)
(* look at the generation.                                                    *)
LEMMA ReleaseAllStays ==
    ASSUME Answers, Children, ReleaseAll
    PROVE  Children'
<1> USE DEF Children
<1>1. /\ UNCHANGED <<scene, held, reader, sync, maint>>
      /\ "release" \in scene /\ generation = 0 /\ generation' = 1
  BY DEF ReleaseAll
<1>2. /\ Wanes
      /\ \A b \in Brokers : /\ b = registered => (broker'[b].alive => broker'[b].fatal)
                            /\ b # registered => broker'[b] = broker[b]
  <2>1. CASE registered = NoBroker
    <3>1. UNCHANGED broker
      BY <2>1 DEF ReleaseAll
    <3> QED
      BY <2>1, <3>1 DEF Wanes, Brokers, NoBroker
  <2>2. CASE registered # NoBroker
    <3>1. PICK b \in Brokers : b = registered
      BY <2>2, Types DEF Answers
    <3>2. PICK ok \in BOOLEAN : Released(b, ok)
      BY <2>2, <3>1 DEF ReleaseAll
    <3> QED
      BY <3>1, <3>2, ReleasedWanes DEF Only
  <2> QED
    BY <2>1, <2>2
<1>3. ~Calm'
  BY <1>1 DEF Calm
<1>4. Exclusive' /\ RegisteredInv' /\ ChildInv' /\ MaintInv'
  BY <1>1, <1>3 DEF Exclusive, RegisteredInv, ChildInv, MaintInv
<1>5. StopInv'
  <2>1. reader.pc = "stopping" => reader.stop.b \in Brokers
    BY Types, Fields DEF Answers, OwnInv, Stopping, Brokers, NoBroker
  <2> QED
    BY <1>1, <1>2, <1>3, <2>1 DEF StopInv, Wanes
<1>6. OvertakenInv'
  <2>1. SUFFICES ASSUME Overtaken', NEW b \in Brokers, broker'[b].alive
                 PROVE  broker'[b].fatal
    BY DEF OvertakenInv
  <2>2. Calm /\ reader.mode = "restart"
    BY <1>1, <2>1 DEF Overtaken, Calm
  <2>3. ~Cleaning(b)
    BY <2>2 DEF Cleaning, Answers, ModeInv, Stopping
  <2> QED
    BY <1>2, <2>1, <2>2, <2>3 DEF ChildInv, Wanes, Kept
<1> QED
  BY <1>4, <1>5, <1>6

-----------------------------------------------------------------------------
(* The reader, as long as it touches no child.                                *)

(* The reader, going from place to place, keeps the second half.              *)
LEMMA ReaderAloneStays ==
    ASSUME Answers, Children, ReaderAlone
    PROVE  Children'
<1> USE DEF Children
<1>1. /\ Goes
      /\ \/ UNCHANGED registered
         \/ /\ registered # NoBroker /\ registered' = NoBroker
            /\ ~broker[registered].alive /\ reader'.pc = "idle"
      /\ UNCHANGED <<scene, broker, generation, held, sync, thread, maint>>
  BY ReaderAloneGoes
<1>2. Exclusive'
  BY <1>1 DEF Exclusive, Goes, Rests, Stays, StopsNow, Moved, FrontReading
<1>3. RegisteredInv'
  <2>1. SUFFICES ASSUME Calm PROVE RegisteredInv'
    BY <1>1 DEF RegisteredInv, Calm
  <2>2. sync.pc \in {"take", "wait", "unslot", "pop"} => registered' = sync.own
    BY <1>1, <2>1, OneAtATime DEF RegisteredInv, Calm, Goes, Rests, Stays, StopsNow, Moved
  <2>3. reader'.cancelled \in BOOLEAN /\ reader.cancelled \in BOOLEAN
    BY <1>1, ReaderParts
       DEF Answers, Goes, Rests, Stays, StopsNow, Moved, ReaderState
  <2>4. reader.pc = "check" => generation = reader.gen /\ registered = reader.own
    BY <2>1, Fields DEF RegisteredInv, Calm, Answers, ModeInv
  <2> QED
    BY <1>1, <2>1, <2>2, <2>3, <2>4
       DEF RegisteredInv, Goes, Rests, Stays, StopsNow, Moved, Stopping, StillCurrent
<1>4. KeptOn
  BY <1>1 DEF KeptOn, Kept, Cleaning, Goes, Rests, Stays, StopsNow, Moved, Stopping
<1>5. Wanes /\ Homed /\ (Calm' => Calm)
  BY <1>1 DEF Wanes, Homed, Calm
<1>6. Quieter
  BY <1>1 DEF Quieter, Starter, Goes, Rests, Stays, StopsNow, Moved
<1>7. ChildInv'
  BY <1>1, <1>4, <1>5, ChildInvKeeps DEF ChildInv
<1>8. MaintInv'
  BY <1>1, <1>4, <1>5, <1>6, MaintInvKeeps
<1>9. StopInv'
  <2>1. reader'.pc # "stopping"
    BY <1>1 DEF Goes, Rests, Stays, StopsNow, Moved
  <2>2. ASSUME Calm, reader'.pc \in {"cleanup", "join"} \/ Stopping({"cleanup"})',
               thread["reader"].pc = "start"
        PROVE  broker[reader'.own].fatal
    <3>1. reader.pc = "wait" => registered = reader.own /\ reader.own # NoBroker
      BY <2>2 DEF RegisteredInv, Answers, OwnInv
    <3>2. reader.pc = "cleanup" /\ reader'.own = reader.own
      BY <1>1, <2>2, <3>1 DEF Goes, Rests, Stays, StopsNow, Moved, Stopping
    <3> QED
      BY <2>2, <3>2 DEF StopInv
  <2> QED
    BY <1>1, <2>1, <2>2 DEF StopInv, Calm
<1>10. OvertakenInv'
  <2>1. SUFFICES ASSUME Overtaken', NEW b \in Brokers, broker[b].alive, ~broker[b].fatal
                 PROVE  /\ b = reader'.own
                        /\ \/ reader'.pc \in {"boot", "check"}
                           \/ Stopping({"startup", "invalidated"})'
    BY <1>1 DEF OvertakenInv
  <2>2. Overtaken
    <3>1. generation \in Nat /\ reader'.gen < generation
      BY <1>1, <2>1, Fields DEF Overtaken, Answers
    <3>2. reader.mode = "restart" /\ reader'.gen = reader.gen
      BY <1>1, <2>1, <3>1 DEF Overtaken, Goes, Rests, Stays, StopsNow, Moved
    <3> QED
      BY <1>1, <2>1, <3>1, <3>2 DEF Overtaken
  <2>3. /\ b = reader.own /\ ~(generation = reader.gen)
        /\ reader.pc \in {"boot", "check"} \/ Stopping({"startup", "invalidated"})
    BY <2>1, <2>2, Fields DEF OvertakenInv, Overtaken, Answers
  <2> QED
    BY <1>1, <2>3 DEF Goes, Rests, Stays, StopsNow, Moved, Stopping
<1> QED
  BY <1>2, <1>3, <1>7, <1>8, <1>9, <1>10

(* It takes the slot of the registered broker.                                *)
LEMMA TakeStays ==
    ASSUME Answers, Children, Take
    PROVE  Children'
<1> USE DEF Children
<1>1. PICK b \in Brokers : b = reader.own /\ Slotted(b, "reader", FALSE)
  BY TakeIs
<1>2. /\ UNCHANGED <<scene, sync, maint, registered, generation, held>>
      /\ reader.pc = "take" /\ reader'.pc \in {"wait", "start"}
      /\ reader'.mode = reader.mode /\ reader'.own = reader.own /\ reader'.gen = reader.gen
      /\ thread'["sync"] = thread["sync"]
      /\ thread'["reader"].b = b \/ thread'["reader"] = thread["reader"]
  BY <1>1, TakeIs
<1>3. /\ Wanes
      /\ \A c \in Brokers : /\ broker'[c].quiesced = broker[c].quiesced
                            /\ broker'[c].fatal = broker[c].fatal
                            /\ broker'[c].cfg = broker[c].cfg
  BY <1>1, TameIs DEF Tame, Slotted
<1>4. Exclusive' /\ RegisteredInv'
  BY <1>2 DEF Exclusive, RegisteredInv, Calm, Stopping
<1>5. KeptOn /\ Homed /\ (Calm' => Calm)
  BY <1>2, <1>3 DEF KeptOn, Homed, Kept, Cleaning, Stopping, Calm
<1>6. Quieter
  BY <1>1, <1>2, <1>3 DEF Quieter, Starter, Users
<1>7. ChildInv'
  BY <1>2, <1>3, <1>5, ChildInvKeeps, OneAtATime DEF Calm
<1>8. maint.b # NoBroker => maint.b \in Brokers
  BY Types, Fields DEF Answers, OwnInv, Brokers, NoBroker
<1>9. MaintInv'
  BY <1>2, <1>3, <1>5, <1>6, <1>8, MaintInvKeeps
<1>10. StopInv'
  BY <1>2 DEF StopInv, Stopping
<1>11. OvertakenInv'
  BY <1>2, <1>3 DEF OvertakenInv, Overtaken, Stopping, Wanes
<1> QED
  BY <1>4, <1>7, <1>9, <1>10, <1>11

(* A broker that is made has no child, the one it replaces none any more.     *)
LEMMA MakesWanes ==
    ASSUME Answers, NEW old \in 0 .. made, NEW cfg \in Bindings \cup {0}, Makes(old, cfg)
    PROVE  /\ Wanes
           /\ \A b \in Brokers : b \notin {old, made + 1} => broker'[b] = broker[b]
           /\ made + 1 \in Brokers /\ broker'[made + 1].cfg = cfg
           /\ ~broker'[made + 1].alive
           /\ old # NoBroker => /\ old \in Brokers /\ ~broker'[old].alive
                                /\ broker'[old].cfg = broker[old].cfg
                                /\ broker'[old].quiesced = broker[old].quiesced
           /\ maint.b # NoBroker /\ broker[maint.b].quiesced => broker'[maint.b].quiesced
           /\ registered' = made + 1
<1>1. /\ made \in Nat /\ made + 1 \in Brokers /\ made + 1 # old
      /\ old # NoBroker => old \in Brokers
      /\ maint.b # NoBroker => maint.b \in Brokers /\ maint.b # made + 1
  <2>1. made \in Nat /\ MaxBrokers \in Nat /\ made < MaxBrokers
    BY Types DEF Answers, Makes
  <2>2. made + 1 \in Brokers /\ made + 1 # old
    BY <2>1 DEF Brokers
  <2>3. old # NoBroker => old \in Brokers
    BY <2>1 DEF Brokers, NoBroker
  <2>4. maint.b \in Nat /\ maint.b <= made
    BY Fields DEF Answers, OwnInv
  <2>5. maint.b # NoBroker => maint.b \in Brokers /\ maint.b # made + 1
    BY <2>1, <2>4 DEF Brokers, NoBroker
  <2> QED
    BY <2>1, <2>2, <2>3, <2>5
<1>2. broker'[made + 1].cfg = cfg /\ ~broker'[made + 1].alive
  BY FreshIs DEF Makes
<1>3. /\ \A b \in Brokers : b \notin {old, made + 1} => broker'[b] = broker[b]
      /\ old # NoBroker => /\ old \in Brokers /\ ~broker'[old].alive
                           /\ broker'[old].cfg = broker[old].cfg
                           /\ broker'[old].quiesced = broker[old].quiesced
  BY <1>1 DEF Makes, Stopped
<1>4. Wanes
  <2>1. SUFFICES ASSUME NEW b \in Brokers, broker'[b].alive PROVE broker'[b] = broker[b]
    BY DEF Wanes
  <2>2. b # made + 1 /\ b # old
    BY <1>2, <1>3, <2>1 DEF Brokers, NoBroker
  <2> QED
    BY <1>3, <2>2
<1>5. maint.b # NoBroker /\ broker[maint.b].quiesced => broker'[maint.b].quiesced
  BY <1>1, <1>3 DEF Brokers, NoBroker
<1> QED
  BY <1>1, <1>2, <1>3, <1>4, <1>5 DEF Makes

(* The reader makes a broker of a binding that is not held.                   *)
LEMMA ResolveMakesStays ==
    ASSUME Answers, Children, Resolve, ~UNCHANGED <<broker, registered, made>>
    PROVE  Children'
<1> USE DEF Children
<1>1. /\ reader.pc = "resolve" /\ registered = NoBroker /\ Makes(NoBroker, reader.cfg)
      /\ reader.cfg \notin held /\ Moved("take", reader.mode, made + 1)
      /\ UNCHANGED <<scene, sync, maint, generation, held, thread>>
  BY ResolveMakes
<1>2. NoBroker \in 0 .. made /\ reader.cfg \in Bindings \cup {0}
  BY Types, ReaderParts DEF Answers, NoBroker, ReaderState
<1>3. /\ Wanes
      /\ \A b \in Brokers : b # made + 1 => broker'[b] = broker[b]
      /\ made + 1 \in Brokers /\ broker'[made + 1].cfg = reader.cfg
      /\ ~broker'[made + 1].alive /\ registered' = made + 1
      /\ maint.b # NoBroker /\ broker[maint.b].quiesced => broker'[maint.b].quiesced
  BY <1>1, <1>2, MakesWanes DEF Brokers, NoBroker
<1>4. /\ reader'.pc = "take" /\ reader'.own = made + 1 /\ reader'.mode = reader.mode
      /\ reader'.mode = "restart" => reader'.gen = reader.gen \/ reader'.gen = generation
  BY <1>1 DEF Moved
<1>5. Exclusive'
  BY <1>1, <1>4 DEF Exclusive
<1>6. RegisteredInv'
  BY <1>1, <1>3, <1>4, OneAtATime DEF RegisteredInv, Stopping, Calm
<1>7. KeptOn /\ Homed /\ (Calm' => Calm)
  BY <1>1, <1>3 DEF KeptOn, Homed, Kept, Cleaning, Stopping, Calm, Brokers, NoBroker
<1>8. Calm' => Quieter
  BY <1>1, <1>3, <1>4, OneAtATime DEF Quieter, Starter, Users, Calm
<1>9. ChildInv'
  BY <1>1, <1>3, <1>7, ChildInvKeeps, OneAtATime DEF Calm
<1>10. MaintInv'
  BY <1>1, <1>3, <1>7, <1>8, MaintInvKeeps
<1>11. StopInv'
  BY <1>4 DEF StopInv, Stopping
<1>12. OvertakenInv'
  <2>1. Overtaken' => Overtaken
    BY <1>1, <1>4, Fields DEF Overtaken, Answers
  <2>2. ASSUME NEW b \in Brokers, broker'[b].alive, Overtaken PROVE broker'[b].fatal
    BY <1>1, <1>3, <2>2 DEF OvertakenInv, Stopping
  <2> QED
    BY <2>1, <2>2 DEF OvertakenInv
<1> QED
  BY <1>5, <1>6, <1>9, <1>10, <1>11, <1>12

(* It gives its slot back.                                                    *)
LEMMA ReaderReleasesStay ==
    ASSUME Answers, Children, ReadReturns \/ Join \/ RestartReady \/ Unslot
    PROVE  Children'
<1> USE DEF Children
<1>1. PICK b \in Brokers : b = reader.own /\ Slotted(b, "free", broker[b].abort)
  BY ReaderReleases
<1>2. /\ Leaves
      /\ thread'["sync"] = thread["sync"] /\ thread'["reader"].pc = "none"
      /\ UNCHANGED <<scene, sync, maint, generation, held>>
      /\ \/ UNCHANGED registered
         \/ /\ registered = reader.own /\ registered' = NoBroker
            /\ ~broker[registered].alive /\ reader'.pc = "idle"
  BY ReaderReleases
<1>3. reader.pc \in {"wait", "join", "boot", "unslot"}
  BY DEF ReadReturns, Join, RestartReady, Unslot
<1>4. /\ Wanes
      /\ \A c \in Brokers : /\ broker'[c].quiesced = broker[c].quiesced
                            /\ broker'[c].fatal = broker[c].fatal
                            /\ broker'[c].cfg = broker[c].cfg
  BY <1>1, TameIs DEF Tame, Slotted
<1>5. Exclusive'
  BY <1>2, <1>3 DEF Exclusive
<1>6. RegisteredInv'
  BY <1>2, <1>3, OneAtATime
     DEF RegisteredInv, Calm, Leaves, Rests, Stays, StopsNow, Moved, Stopping
<1>7. KeptOn /\ Homed /\ (Calm' => Calm)
  BY <1>2, <1>3, <1>4 DEF KeptOn, Homed, Kept, Cleaning, Stopping, Calm, Wanes
<1>8. Quieter
  BY <1>2, <1>4 DEF Quieter, Starter, Users, Leaves, Rests, Stays, StopsNow, Moved
<1>9. ChildInv'
  BY <1>2, <1>3, <1>4, <1>7, ChildInvKeeps, OneAtATime DEF Calm
<1>10. maint.b # NoBroker => maint.b \in Brokers
  BY Types, Fields DEF Answers, OwnInv, Brokers, NoBroker
<1>11. MaintInv'
  BY <1>2, <1>4, <1>7, <1>8, <1>10, MaintInvKeeps
<1>12. StopInv'
  BY <1>2 DEF StopInv, Leaves, Rests, Stays, StopsNow, Moved, Stopping
<1>13. OvertakenInv'
  <2>1. SUFFICES ASSUME Overtaken', NEW c \in Brokers, broker'[c].alive, ~broker'[c].fatal
                 PROVE  c = reader'.own /\ reader'.pc = "check"
    BY DEF OvertakenInv
  <2>2. reader.mode = "restart" /\ reader.gen < generation
    BY <1>2, <2>1, Fields
       DEF Overtaken, Answers, Leaves, Rests, Stays, StopsNow, Moved
  <2>3. Overtaken /\ reader.pc \in {"boot", "unslot"}
    BY <1>2, <1>3, <2>1, <2>2 DEF Overtaken, Answers, ModeInv
  <2>4. c = reader.own /\ reader.pc = "boot"
    BY <1>4, <2>1, <2>3 DEF OvertakenInv, Wanes, Stopping
  <2> QED
    BY <1>2, <2>2, <2>4 DEF Leaves, Stays, StopsNow, Moved
<1> QED
  BY <1>5, <1>6, <1>9, <1>11, <1>12, <1>13

-----------------------------------------------------------------------------
(* A stop begins, and ends.                                                   *)

(* The begin of a stop starts nothing.                                        *)
LEMMA StopBeginsStays ==
    ASSUME Answers, Children, StopBegins
    PROVE  Children'
<1> USE DEF Children
<1>1. PICK b \in Brokers : /\ b = reader.stop.b /\ Only(b) /\ Stopped(b)
                           /\ broker'[b].handle = broker[b].handle
                           /\ broker'[b].fatal = broker[b].fatal
  BY StopBeginsIs
<1>2. /\ reader.pc = "stop" /\ reader'.pc = "stopping" /\ reader'.mode = reader.mode
      /\ reader'.own = reader.own /\ reader'.cancelled = reader.cancelled
      /\ reader'.stop.b = b /\ reader'.stop.why = reader.stop.why
      /\ reader'.stop.p = broker[b].handle
      /\ reader'.mode = "restart" => reader'.gen = reader.gen \/ reader'.gen = generation
      /\ UNCHANGED <<scene, sync, maint, registered, generation, held, thread>>
  BY <1>1, StopBeginsIs DEF Moved
<1>3. /\ Wanes
      /\ \A c \in Brokers : /\ broker'[c].quiesced = broker[c].quiesced
                            /\ broker'[c].fatal = broker[c].fatal
                            /\ broker'[c].cfg = broker[c].cfg
  BY <1>1, TameIs DEF Tame, Stopped
<1>4. Exclusive' /\ RegisteredInv'
  BY <1>1, <1>2 DEF Exclusive, RegisteredInv, Calm, Stopping
<1>5. KeptOn /\ Homed /\ (Calm' => Calm)
  BY <1>2, <1>3 DEF KeptOn, Homed, Kept, Cleaning, Stopping, Calm
<1>6. Quieter
  BY <1>2, <1>3 DEF Quieter, Starter, Users
<1>7. ChildInv'
  BY <1>2, <1>5, <1>3, ChildInvKeeps, OneAtATime DEF Calm
<1>8. maint.b # NoBroker => maint.b \in Brokers
  BY Types, Fields DEF Answers, OwnInv, Brokers, NoBroker
<1>9. MaintInv'
  BY <1>2, <1>3, <1>5, <1>6, <1>8, MaintInvKeeps
<1>10. StopInv'
  <2>1. Stopping({"cleanup"}) => reader.own \in Brokers
    BY Types, Fields DEF Answers, OwnInv, Stopping, Brokers, NoBroker
  <2> QED
    BY <1>1, <1>2, <1>3, <2>1 DEF StopInv, Stopping, Calm
<1>11. OvertakenInv'
  <2>1. Overtaken' => Overtaken
    BY <1>2, Fields DEF Overtaken, Answers
  <2> QED
    BY <1>2, <1>3, <2>1 DEF OvertakenInv, Stopping, Wanes
<1> QED
  BY <1>4, <1>7, <1>9, <1>10, <1>11

(* What a stop that was confirmed found dead.                                 *)
LEMMA StopEndsDead ==
    ASSUME Answers, Children, StopEnds
    PROVE  \E b \in Brokers :
             /\ b = reader.stop.b /\ Settled(b)
             /\ \/ UNCHANGED registered /\ broker'[b].fatal
                \/ /\ UnregisterAfter(reader.stop.why, b)
                   /\ ~LiveThread("reader", b)
                   /\ Calm /\ reader.stop.why # "outer" => ~broker[b].alive
                   /\ "status" \notin scene /\ reader.mode = "restart" => ~broker[b].alive
<1>1. PICK b \in Brokers :
        /\ b = reader.stop.b /\ Settled(b)
        /\ \/ UNCHANGED registered /\ broker'[b].fatal
           \/ /\ UnregisterAfter(reader.stop.why, b)
              /\ ~(broker[b].alive /\ reader.stop.p = broker[b].handle)
              /\ ~LiveThread("reader", b)
  BY StopEndsIs
<1>2. reader.pc = "stopping"
  BY StopEndsIs
<1>3. \/ (Calm /\ reader.stop.why # "outer")
      \/ ("status" \notin scene /\ reader.mode = "restart")
      => (broker[b].alive => broker[b].handle = reader.stop.p)
  BY <1>1, <1>2 DEF Children, StopInv, Stopping
<1> QED
  BY <1>1, <1>3

(* The end of a stop unregisters a broker only if it is dead, or if the       *)
(* cancelled read still has to stop it.                                       *)
LEMMA StopEndsStays ==
    ASSUME Answers, Children, StopEnds
    PROVE  Children'
<1> USE DEF Children
<1>1. PICK b \in Brokers :
        /\ b = reader.stop.b /\ Settled(b)
        /\ \/ UNCHANGED registered /\ broker'[b].fatal
           \/ /\ UnregisterAfter(reader.stop.why, b)
              /\ ~LiveThread("reader", b)
              /\ Calm /\ reader.stop.why # "outer" => ~broker[b].alive
              /\ "status" \notin scene /\ reader.mode = "restart" => ~broker[b].alive
  BY StopEndsDead
<1>2. /\ reader.pc = "stopping" /\ Onward(reader.stop.why)
      /\ reader'.cancelled = reader.cancelled \/ Rests
      /\ UNCHANGED <<scene, sync, maint, generation, held, thread>>
  BY StopEndsIs
<1>3. /\ Wanes
      /\ \A c \in Brokers : /\ broker'[c].quiesced = broker[c].quiesced
                            /\ broker'[c].cfg = broker[c].cfg
                            /\ broker'[c].alive = broker[c].alive
                            /\ c # b => broker'[c] = broker[c]
  BY <1>1 DEF Wanes, Settled, Only
<1>4. /\ reader'.pc \in {"resolve", "failed", "idle", "join", "retry", "cleanup", "restart",
                         "unslot"}
      /\ reader'.pc = "unslot" => reader.stop.why = "startup" /\ reader'.own = reader.own
      /\ reader'.pc = "cleanup" => reader.stop.why = "outer" /\ reader'.own = reader.own
                                   /\ reader'.cancelled = reader.cancelled
      /\ reader'.pc = "join" => reader.stop.why = "cleanup" /\ reader'.own = reader.own
      /\ reader.stop.why = "outer" => reader'.pc = "cleanup"
  BY <1>2 DEF Onward, Rests, Moved
<1>5. Stopping({"cleanup", "startup", "invalidated"}) => reader.own = b
  BY <1>1 DEF Answers, ModeInv
<1>6. "status" \notin scene =>
        sync.pc = "idle" /\ thread["sync"].pc = "none" /\ sync'.pc = "idle"
  BY <1>2, OneAtATime
<1>7. Exclusive'
  BY <1>2, <1>6 DEF Exclusive
<1>8. RegisteredInv'
  <2>1. SUFFICES ASSUME Calm PROVE RegisteredInv'
    BY <1>2 DEF RegisteredInv, Calm
  <2>2. reader'.pc = "unslot" => registered' = reader'.own
    <3>1. reader.stop.why = "startup" => UNCHANGED registered
      BY <1>1 DEF UnregisterAfter
    <3> QED
      BY <1>2, <1>4, <2>1, <3>1 DEF RegisteredInv, Stopping
  <2>3. reader'.pc = "cleanup" => reader'.cancelled
    BY <1>2, <1>4, <2>1 DEF RegisteredInv, Stopping
  <2> QED
    BY <1>4, <1>6, <2>1, <2>2, <2>3 DEF RegisteredInv, Stopping, Calm
<1>9. Calm => (broker[b].alive => Kept(b)')
  <2>1. SUFFICES ASSUME Calm, broker[b].alive, ~broker'[b].fatal PROVE Cleaning(b)'
    BY DEF Kept
  <2>2. reader.stop.why = "outer"
    BY <1>1, <2>1
  <2>3. reader.own = b /\ reader.cancelled
    BY <1>1, <1>2, <2>1, <2>2 DEF RegisteredInv, Stopping
  <2> QED
    BY <1>4, <2>2, <2>3 DEF Cleaning
<1>10. Calm => KeptOn
  <2>1. \A c \in Brokers \ {b} : ~Cleaning(c)
    BY <1>2, <1>5 DEF Cleaning, Stopping
  <2> QED
    BY <1>3, <1>9, <2>1 DEF KeptOn, Kept
<1>11. Calm => Homed
  <2>1. registered' = registered \/ registered = b
    BY <1>1 DEF UnregisterAfter, Unregister
  <2> QED
    BY <1>3, <1>9, <2>1 DEF Homed
<1>12. Calm => Quieter
  <2>1. SUFFICES ASSUME Calm, NEW c \in Brokers, Starter(c)' PROVE Starter(c)
    BY <1>3 DEF Quieter
  <2>2. thread["reader"].b = c /\ thread["reader"].pc = "start" /\ ~broker'[c].fatal
    BY <1>2, <1>4, <1>6, <2>1 DEF Starter, Users, Calm
  <2>3. ~broker[c].fatal
    BY <1>1, <1>3, <2>2 DEF LiveThread
  <2> QED
    BY <2>2, <2>3 DEF Starter, Users
<1>13. Calm' <=> Calm
  BY <1>2 DEF Calm
<1>14. ChildInv'
  BY <1>3, <1>6, <1>10, <1>11, <1>13, ChildInvKeeps DEF Calm
<1>15. maint.b # NoBroker => maint.b \in Brokers
  BY Types, Fields DEF Answers, OwnInv, Brokers, NoBroker
<1>16. MaintInv'
  BY <1>2, <1>3, <1>10, <1>12, <1>13, <1>15, MaintInvKeeps
<1>17. StopInv'
  <2>1. ASSUME Calm, reader'.pc \in {"cleanup", "join"}, thread["reader"].pc = "start"
        PROVE  broker'[reader'.own].fatal
    <3>1. reader.own = b /\ reader'.own = b
      BY <1>1, <1>2, <1>4, <1>5, <2>1 DEF RegisteredInv, Stopping
    <3>2. thread["reader"].b = b
      BY <1>2, <1>4, <2>1, <3>1 DEF Answers, SlotInv, ReadUnderWay, Stopping
    <3> QED
      BY <1>1, <2>1, <3>1, <3>2 DEF LiveThread
  <2> QED
    BY <1>2, <1>4, <1>13, <2>1 DEF StopInv, Stopping
<1>18. OvertakenInv'
  <2>1. SUFFICES ASSUME Overtaken', NEW c \in Brokers, broker'[c].alive PROVE broker'[c].fatal
    BY DEF OvertakenInv
  <2>2. Overtaken
    <3>1. (reader.mode = "restart" /\ reader'.gen = reader.gen) \/ reader'.gen = generation
      BY <1>2, <2>1 DEF Overtaken, Onward, Rests, Moved
    <3> QED
      BY <1>2, <2>1, <3>1, Fields DEF Overtaken, Answers
  <2>3. "status" \notin scene /\ reader.mode = "restart"
    BY <2>2 DEF Overtaken
  <2>4. CASE c = b
    BY <1>1, <1>3, <2>1, <2>3, <2>4
  <2>5. CASE c # b
    BY <1>2, <1>3, <1>5, <2>1, <2>2, <2>5 DEF OvertakenInv, Stopping
  <2> QED
    BY <2>4, <2>5
<1> QED
  BY <1>7, <1>8, <1>14, <1>16, <1>17, <1>18

-----------------------------------------------------------------------------
(* The synchronous users and their children.                                  *)

(* With a status request about, the second half says nothing.                 *)
LEMMA StatusStays ==
    ASSUME Children, "status" \in scene, UNCHANGED <<scene, generation>>
    PROVE  Children'
BY DEF Children, Exclusive, RegisteredInv, ChildInv, StopInv, MaintInv, OvertakenInv, Overtaken,
   Calm

(* Without one, what sync does is a read, and the reader is idle.             *)
LEMMA SyncRuns ==
    ASSUME Answers, Children, "status" \notin scene,
           (\E kind \in {"read", "status"} : SyncBegins(kind)) \/ Sync
    PROVE  /\ reader.pc = "idle" /\ thread["reader"].pc = "none" /\ sync'.kind = "read"
           /\ scene \cap {"status", "read"} # {}
<1>1. CASE \E kind \in {"read", "status"} : SyncBegins(kind)
  <2>1. PICK kind \in {"read", "status"} : SyncBegins(kind)
    BY <1>1
  <2>2. kind = "read" /\ kind \in scene
    BY <2>1 DEF SyncBegins, Comes
  <2>3. reader.pc = "idle" /\ sync'.kind = "read"
    BY <2>1, <2>2 DEF SyncBegins
  <2> QED
    BY <2>2, <2>3 DEF Answers, SlotInv, ReadUnderWay, Stopping
<1>2. CASE Sync
  <2>1. sync.pc # "idle" /\ sync'.kind = sync.kind
    BY <1>2, SyncIs DEF Sync, SyncResolves, SyncSwaps, SyncTakes, SyncBusy, SyncReturns, SyncErrs,
       SyncUnslots, SyncRecovers, SyncPops, SyncRetries, SyncMakes, SyncFails, SyncState, Answers
  <2> QED
    BY <2>1, OneAtATime DEF Children, Exclusive
<1> QED
  BY <1>1, <1>2

(* Then these facts about a step of sync are enough.                          *)
LEMMA SyncStays ==
    ASSUME Answers, Children, "status" \notin scene,
           (\E kind \in {"read", "status"} : SyncBegins(kind)) \/ Sync,
           UNCHANGED <<scene, generation, held, reader, maint>>,
           thread'["reader"] = thread["reader"],
           Calm => Wanes /\ KeptOn /\ Homed /\ Quieter,
           Calm /\ sync'.pc \in {"take", "wait", "unslot", "pop"} => registered' = sync'.own,
           Calm /\ sync'.pc = "pop" => ~broker'[sync'.own].alive,
           maint.b # NoBroker /\ broker[maint.b].quiesced => broker'[maint.b].quiesced
    PROVE  Children'
<1> USE DEF Children
<1>1. /\ reader.pc = "idle" /\ sync'.kind = "read" /\ scene \cap {"status", "read"} # {}
  BY SyncRuns
<1>2. Exclusive' /\ RegisteredInv' /\ StopInv' /\ OvertakenInv'
  BY <1>1 DEF Exclusive, RegisteredInv, StopInv, OvertakenInv, Overtaken, Calm, Stopping
<1>3. Calm' => Calm
  BY DEF Calm
<1>4. ChildInv'
  BY <1>3, ChildInvKeeps DEF Calm
<1>5. MaintInv'
  BY <1>3, MaintInvKeeps
<1> QED
  BY <1>2, <1>4, <1>5

(* Nobody but sync starts a child while sync is under way.                    *)
LEMMA SyncStarts ==
    ASSUME UNCHANGED <<reader, maint, held>>, reader.pc = "idle",
           thread'["reader"] = thread["reader"], thread["reader"].pc = "none",
           \A b \in Brokers : broker'[b].alive => broker'[b].cfg = broker[b].cfg,
           \A b \in Brokers : (sync'.own = b /\ sync'.pc = "take")
                                 \/ (thread'["sync"].b = b /\ thread'["sync"].pc = "start")
               => \/ broker'[b].cfg \notin held
                  \/ Starter(b) /\ broker'[b].cfg = broker[b].cfg
    PROVE  Quieter
BY DEF Quieter, Starter, Users

(* sync, going from place to place, keeps the second half.                    *)
LEMMA SyncAloneStays ==
    ASSUME Answers, Children, SyncAlone, "status" \notin scene
    PROVE  Children'
<1> USE DEF Children
<1>1. UNCHANGED <<scene, broker, generation, held, reader, thread, maint>>
  BY SyncAloneGoes
<1>2. (\E kind \in {"read", "status"} : SyncBegins(kind)) \/ Sync
  BY DEF SyncAlone, Sync
<1>3. /\ reader.pc = "idle" /\ thread["reader"].pc = "none"
      /\ sync \in SyncState
  BY <1>2, SyncRuns, SyncIs DEF Answers
<1>4. /\ sync'.pc \notin {"wait", "unslot"}
      /\ sync'.pc = "take" => /\ registered \in Brokers /\ UNCHANGED registered
                              /\ sync'.own = registered /\ broker[registered].cfg \notin held
      /\ sync'.pc = "pop" => /\ registered \in Brokers /\ UNCHANGED registered
                             /\ sync'.own = registered /\ ~broker[registered].alive
      /\ UNCHANGED registered \/ (sync.pc = "pop" /\ registered = sync.own)
  <2>1. CASE \E kind \in {"read", "status"} : SyncBegins(kind)
    BY <2>1 DEF SyncBegins
  <2>2. CASE SyncBusy
    BY <2>2, SyncFailsIs DEF SyncBusy, SyncMoved, Answers
  <2>3. CASE SyncPops
    BY <1>3, <2>3 DEF SyncPops, Unregister, SyncState
  <2>4. CASE SyncRetries
    BY <1>3, <2>4 DEF SyncRetries, SyncState
  <2>5. CASE SyncResolves /\ UNCHANGED <<broker, registered, made>>
    <3>1. made' # made + 1
      BY <2>5, Types DEF Answers
    <3>2. CASE SyncFails
      BY <2>5, <3>2, SyncFailsIs DEF SyncMoved, Answers
    <3>3. CASE /\ sync.cfg \notin held /\ registered # NoBroker
               /\ broker[registered].cfg = sync.cfg
               /\ sync' = [sync EXCEPT !.pc = "take", !.own = registered]
      BY <1>3, <2>5, <3>3, Types DEF SyncState, Answers
    <3> QED
      BY <2>5, <3>1, <3>2, <3>3 DEF SyncResolves, SyncMakes
  <2>6. CASE SyncRecovers /\ UNCHANGED <<broker, thread, faults>>
    <3>1. UNCHANGED registered
      BY <2>6 DEF SyncRecovers
    <3>2. CASE registered = NoBroker
      BY <1>3, <2>6, <3>1, <3>2 DEF SyncRecovers, SyncState
    <3>3. CASE registered # NoBroker
      <4>1. registered \in Brokers
        BY <3>3, Types DEF Answers
      <4>2. PICK ok \in BOOLEAN :
              /\ Released(registered, ok)
              /\ sync' = [sync EXCEPT !.pc = IF ok THEN "pop" ELSE "retry",
                                      !.own = registered, !.cfg = binding]
        BY <2>6, <3>3 DEF SyncRecovers
      <4>3. ok => ~broker[registered].alive
        BY <2>6, <4>1, <4>2, ReleasedWanes
      <4>4. /\ sync'.pc = IF ok THEN "pop" ELSE "retry"
            /\ sync'.own = registered
        BY <1>3, <4>2 DEF SyncState
      <4> QED
        BY <3>1, <4>1, <4>3, <4>4
    <3> QED
      BY <3>2, <3>3
  <2> QED
    BY <2>1, <2>2, <2>3, <2>4, <2>5, <2>6 DEF SyncAlone
<1>5. Wanes /\ KeptOn
  BY <1>1 DEF Wanes, KeptOn, Kept, Cleaning, Stopping
<1>6. Calm => Homed
  BY <1>1, <1>4 DEF Homed, ChildInv
<1>7. Quieter
  <2>1. ASSUME NEW b \in Brokers,
               (sync'.own = b /\ sync'.pc = "take")
                 \/ (thread'["sync"].b = b /\ thread'["sync"].pc = "start")
        PROVE  broker'[b].cfg \notin held \/ (Starter(b) /\ broker'[b].cfg = broker[b].cfg)
    <3>1. thread["sync"].pc = "none"
      BY SyncAloneGoes DEF Answers, SlotInv
    <3> QED
      BY <1>1, <1>4, <2>1, <3>1
  <2> QED
    BY <1>1, <1>3, <2>1, SyncStarts
<1>8. maint.b # NoBroker /\ broker[maint.b].quiesced => broker'[maint.b].quiesced
  BY <1>1
<1>9. /\ sync'.pc \in {"take", "wait", "unslot", "pop"} => registered' = sync'.own
      /\ sync'.pc = "pop" => ~broker'[sync'.own].alive
  BY <1>1, <1>4
<1> QED
  BY <1>1, <1>2, <1>5, <1>6, <1>7, <1>8, <1>9, SyncStays

(* It takes its slot, and gives it back.                                      *)
LEMMA SyncTakesStays ==
    ASSUME Answers, Children, SyncTakes \/ SyncReturns \/ SyncUnslots, "status" \notin scene
    PROVE  Children'
<1> USE DEF Children
<1>1. /\ UNCHANGED <<scene, registered, generation, held, reader, maint>>
      /\ thread'["reader"] = thread["reader"]
      /\ \/ /\ sync.pc = "take" /\ sync'.pc = "wait" /\ sync'.own = sync.own
            /\ thread'["sync"].b = sync.own
         \/ /\ sync'.pc \in {"idle", "recover"} /\ thread'["sync"].pc = "none"
      /\ \E b \in Brokers, s \in {"sync", "free"}, a \in {FALSE, broker[sync.own].abort} :
           Slotted(b, s, a)
  BY SyncTakesIs, SyncLeavesIs DEF SyncMoved
<1>2. Sync
  BY DEF Sync
<1>3. /\ reader.pc = "idle" /\ thread["reader"].pc = "none"
  BY <1>2, SyncRuns
<1>4. PICK b \in Brokers : Tame(b)
  BY <1>1 DEF Tame, Slotted
<1>5. /\ Wanes
      /\ \A c \in Brokers : /\ broker'[c].quiesced = broker[c].quiesced
                            /\ broker'[c].fatal = broker[c].fatal
                            /\ broker'[c].cfg = broker[c].cfg
  BY <1>4, TameIs
<1>6. KeptOn /\ Homed
  BY <1>1, <1>5 DEF KeptOn, Homed, Kept, Cleaning, Stopping
<1>7. Quieter
  <2>1. ASSUME NEW c \in Brokers,
               (sync'.own = c /\ sync'.pc = "take")
                 \/ (thread'["sync"].b = c /\ thread'["sync"].pc = "start")
        PROVE  Starter(c) /\ broker'[c].cfg = broker[c].cfg
    BY <1>1, <1>5, <2>1 DEF Starter
  <2> QED
    BY <1>1, <1>3, <1>5, <2>1, SyncStarts
<1>8. maint.b # NoBroker /\ broker[maint.b].quiesced => broker'[maint.b].quiesced
  <2>1. maint.b # NoBroker => maint.b \in Brokers
    BY Types, Fields DEF Answers, OwnInv, Brokers, NoBroker
  <2> QED
    BY <1>5, <2>1
<1>9. /\ Calm /\ sync'.pc \in {"take", "wait", "unslot", "pop"} => registered' = sync'.own
      /\ sync'.pc # "pop"
  BY <1>1 DEF RegisteredInv
<1> QED
  BY <1>1, <1>2, <1>5, <1>6, <1>7, <1>8, <1>9, SyncStays

(* A stop of sync: who outlives it is fatal.                                  *)
LEMMA SyncStopsStays ==
    ASSUME Answers, Children, "status" \notin scene, Sync, NEW b \in Brokers, Only(b), Stopped(b),
           broker'[b].alive => broker'[b].fatal,
           UNCHANGED <<scene, registered, generation, held, reader, maint>>,
           thread'["reader"] = thread["reader"], thread'["sync"].pc # "start",
           sync'.pc \notin {"take", "wait"},
           Calm /\ sync'.pc \in {"unslot", "pop"} => registered = sync'.own,
           sync'.pc = "pop" => sync'.own = b /\ ~broker'[b].alive
    PROVE  Children'
<1> USE DEF Children
<1>1. /\ reader.pc = "idle" /\ thread["reader"].pc = "none"
  BY SyncRuns
<1>2. /\ Wanes
      /\ \A c \in Brokers : /\ broker'[c].quiesced = broker[c].quiesced
                            /\ broker'[c].cfg = broker[c].cfg
  BY DEF Wanes, Only, Stopped
<1>3. KeptOn /\ Homed
  BY <1>1 DEF KeptOn, Homed, Kept, Cleaning, Stopping, Only
<1>4. Quieter
  BY <1>1, <1>2, SyncStarts
<1>5. maint.b # NoBroker /\ broker[maint.b].quiesced => broker'[maint.b].quiesced
  <2>1. maint.b # NoBroker => maint.b \in Brokers
    BY Types, Fields DEF Answers, OwnInv, Brokers, NoBroker
  <2> QED
    BY <1>2, <2>1
<1> QED
  BY <1>2, <1>3, <1>4, <1>5, SyncStays

(* It stops the child of a failed request.                                    *)
LEMMA SyncErrsStays ==
    ASSUME Answers, Children, SyncErrs, "status" \notin scene
    PROVE  Children'
<1>1. PICK b \in Brokers : /\ Only(b) /\ Stopped(b)
                           /\ broker'[b].alive => broker'[b].fatal
  BY SyncErrsIs
<1>2. /\ sync.pc = "wait" /\ sync'.pc = "unslot" /\ sync'.own = sync.own
      /\ UNCHANGED <<scene, registered, generation, held, reader, maint, thread>>
      /\ thread["sync"].pc = "done"
  BY SyncErrsIs DEF SyncMoved, SyncErrs
<1>3. Calm => registered = sync'.own
  BY <1>2 DEF Children, RegisteredInv
<1>4. Sync
  BY DEF Sync
<1> QED
  BY <1>1, <1>2, <1>3, <1>4, SyncStopsStays

(* It replaces or stops the registered broker.                                *)
LEMMA SyncReleasesStay ==
    ASSUME Answers, Children, SyncReleases, "status" \notin scene
    PROVE  Children'
<1> USE DEF Children
<1>1. Sync
  BY DEF Sync, SyncReleases
<1>2. /\ reader.pc = "idle" /\ thread["reader"].pc = "none"
  BY <1>1, SyncRuns
<1>3. /\ UNCHANGED <<scene, generation, held, reader, maint>>
      /\ sync.pc \notin {"wait", "unslot"} /\ thread["sync"].pc = "none"
  BY SyncReleasesIs DEF Answers, SlotInv
<1>4. \A b \in Nat : ThreadReleased(b) => UNCHANGED thread
  BY <1>2 DEF ThreadReleased, LiveThread
<1>5. CASE /\ sync.cfg \notin held /\ Makes(registered, sync.cfg) /\ SyncMoved("take", made + 1)
           /\ UNCHANGED thread
  <2>1. registered \in 0 .. made /\ sync.cfg \in Bindings \cup {0}
    BY Types, SyncIs DEF Answers, SyncState
  <2>2. /\ Wanes
        /\ \A b \in Brokers : b \notin {registered, made + 1} => broker'[b] = broker[b]
        /\ broker'[made + 1].cfg = sync.cfg /\ ~broker'[made + 1].alive
        /\ registered # NoBroker => ~broker'[registered].alive
        /\ maint.b # NoBroker /\ broker[maint.b].quiesced => broker'[maint.b].quiesced
        /\ registered' = made + 1
    BY <1>5, <2>1, MakesWanes
  <2>3. KeptOn /\ Homed
    BY <1>2, <1>3, <2>2 DEF KeptOn, Homed, Kept, Cleaning, Stopping, Brokers, NoBroker
  <2>4. Quieter
    BY <1>2, <1>3, <1>5, <2>2, SyncStarts DEF SyncMoved, Wanes
  <2>5. sync'.pc = "take" /\ registered' = sync'.own
    BY <1>5, <2>2 DEF SyncMoved
  <2> QED
    BY <1>1, <1>3, <1>5, <2>2, <2>3, <2>4, <2>5, SyncStays
<1>6. CASE /\ registered \in Brokers /\ UNCHANGED <<registered, thread>>
           /\ Only(registered) /\ Stopped(registered)
           /\ broker'[registered].alive => broker'[registered].fatal
           /\ sync'.pc \in {"idle", "recover", "retry", "pop"}
           /\ sync'.pc = "pop" => sync'.own = registered /\ ~broker'[registered].alive
  <2>1. PICK b \in Brokers : b = registered
    BY <1>6
  <2> QED
    BY <1>1, <1>3, <1>6, <2>1, SyncStopsStays
<1>7. registered \in Nat
  BY Types DEF Answers
<1> QED
  BY <1>4, <1>5, <1>6, <1>7, SyncReleasesIs

(* The steps of sync, together.                                               *)
LEMMA SyncAllStay ==
    ASSUME Answers, Children, (\E kind \in {"read", "status"} : SyncBegins(kind)) \/ Sync
    PROVE  Children'
<1>1. UNCHANGED <<scene, generation>>
  BY DEF Sync, SyncBegins, SyncResolves, SyncSwaps, SyncTakes, SyncBusy, SyncReturns, SyncErrs,
     SyncUnslots, SyncRecovers, SyncPops, SyncRetries, othersOfSync
<1>2. CASE "status" \in scene
  BY <1>1, <1>2, StatusStays
<1>3. CASE "status" \notin scene
  <2>1. CASE SyncAlone
    BY <1>3, <2>1, SyncAloneStays
  <2>2. CASE SyncReleases
    BY <1>3, <2>2, SyncReleasesStay
  <2>3. CASE SyncTakes \/ SyncReturns \/ SyncUnslots \/ SyncErrs
    BY <1>3, <2>3, SyncTakesStays, SyncErrsStays
  <2> QED
    BY <2>1, <2>2, <2>3 DEF Sync, SyncAlone, SyncReleases
<1> QED
  BY <1>2, <1>3

-----------------------------------------------------------------------------
(* Every step keeps the books of the children.                                *)

(* At the start there is no child.                                            *)
LEMMA ChildrenInit == Init => Children
<1> SUFFICES ASSUME Init PROVE Children
  OBVIOUS
<1>1. Exclusive /\ RegisteredInv
  BY DEF Init, Exclusive, RegisteredInv, Resting, Stopping, NoStop
<1>2. ChildInv /\ MaintInv /\ OvertakenInv
  BY DEF Init, ChildInv, MaintInv, OvertakenInv, Overtaken, Resting, Fresh
<1>3. StopInv
  BY DEF Init, StopInv, Resting, Stopping
<1> QED
  BY <1>1, <1>2, <1>3 DEF Children

(* The steps of the reader, together.                                         *)
LEMMA ReaderAllStay ==
    ASSUME Answers, Children, ReadBegins \/ CancelRead \/ Reader
    PROVE  Children'
<1>1. CASE ReaderAlone
  BY <1>1, ReaderAloneStays
<1>2. CASE Resolve /\ ~UNCHANGED <<broker, registered, made>>
  BY <1>2, ResolveMakesStays
<1>3. CASE ReadReturns \/ Join \/ RestartReady \/ Unslot
  BY <1>3, ReaderReleasesStay
<1>4. CASE Take \/ StopBegins \/ StopEnds \/ RestartStarts
  BY <1>4, TakeStays, StopBeginsStays, StopEndsStays, RestartStartsStays
<1> QED
  BY <1>1, <1>2, <1>3, <1>4 DEF Reader, ReaderAlone

(* The second half is inductive, given the first.                             *)
LEMMA ChildrenStep == Answers /\ Children /\ [Next]_vars => Children'
<1> SUFFICES ASSUME Answers, Children, [Next]_vars PROVE Children'
  OBVIOUS
<1>1. CASE ReadBegins \/ CancelRead \/ Reader
  BY <1>1, ReaderAllStay
<1>2. CASE (\E kind \in {"read", "status"} : SyncBegins(kind)) \/ Sync
  BY <1>2, SyncAllStay
<1>3. CASE \E u \in Users : Thread(u)
  BY <1>3, ThreadStartsStays, ThreadGoesOnStays DEF Thread
<1>4. CASE \E b \in Brokers : ChildAnnounces(b) \/ ChildAnswers(b) \/ ChildDies(b)
  BY <1>4, ChildStays
<1>5. CASE (\E c \in Bindings : Quiesce(c)) \/ Maintenance \/ EndMaintenance \/ Rebind
  BY <1>5, HandoffStays
<1>6. CASE ReleaseAll
  BY <1>6, ReleaseAllStays
<1>7. CASE UNCHANGED vars
  BY <1>7, ChildrenFrame DEF vars
<1> QED
  BY <1>1, <1>2, <1>3, <1>4, <1>5, <1>6, <1>7 DEF Next

(* So both always hold.                                                       *)
LEMMA InvAlways == Spec => []IInv
<1>1. Init => IInv
  BY AnswersInit, ChildrenInit DEF IInv
<1>2. IInv /\ [Next]_vars => IInv'
  BY AnswersStep, ChildrenStep DEF IInv
<1> QED
  BY <1>1, <1>2, PTL DEF Spec

(* No live child escapes the books of camera_manager: one that runs is that   *)
(* of the registered broker, about to be stopped by its cancelled read, or    *)
(* fatal; and a restart that a bulk release overtook leaves none behind but a *)
(* fatal one.  For any number of brokers, reads and faults, whatever of a     *)
(* read, a handoff and a new binding comes beside the reader, or a bulk       *)
(* release with a handoff and a new binding.                                  *)
THEOREM BrokerInvHolds == Spec => []BrokerInv
<1>1. IInv => BrokerInv
  <2> SUFFICES ASSUME IInv PROVE BrokerInv
    OBVIOUS
  <2> USE DEF IInv, Children
  <2>1. TypeOK
    BY DEF Answers, Typed, TypeOK, BrokersOK, ReaderOK, SyncOK, ThreadsOK, MaintOK, BooksOK,
       RestOK, BrokerState, ReaderState, SyncState, ThreadState, MaintState, FaultState
  <2>2. ChildIsRegistered
    BY DEF ChildIsRegistered, Exclusive, ChildInv, Calm, Kept, Cleaning, CleansUp, Stopping
  <2>3. NoRestartAfterRelease
    <3>1. reader.mode = "restart" => reader.own \in Brokers
      BY Types, Fields DEF Answers, OwnInv, Brokers, NoBroker
    <3> QED
      BY <3>1 DEF NoRestartAfterRelease, OvertakenInv, Overtaken, Stopping
  <2> QED
    BY <2>1, <2>2, <2>3 DEF BrokerInv
<1> QED
  BY <1>1, InvAlways, PTL

(* While a maintenance handoff holds a candidate no child has its camera      *)
(* open, save one that is being stopped or has survived its kill.             *)
THEOREM MaintenanceAloneHolds == Spec => []MaintenanceAlone
<1>1. IInv => MaintenanceAlone
  BY DEF IInv, Children, MaintenanceAlone, Exclusive, MaintInv, Calm, Kept, Cleaning, CleansUp,
     Stopping
<1> QED
  BY <1>1, InvAlways, PTL

=============================================================================
