------------------------ MODULE PresenceProfileProofs ------------------------
(* Proofs about presence polling and profile collection, for every set of      *)
(* clients and targets and every debounce.                                     *)
EXTENDS PresenceProfile, TLAPS

USE PushClientsAreClients, NoneIsNoTarget, FramesArePositive, QueuesFillIsBoolean

Messages == {"nothing", "present", "empty", "sampled", "result"}

Loops == [at : {"stopped", "ready", "reading", "entering", "locked", "polled"},
          push : BOOLEAN]

Workers == [at : {"idle", "owner", "sampling", "sampled", "valid", "fit", "commit",
                  "pushed", "returned"},
            gen : Generations \cup {0},
            ret : {"none", "status", "result", "error"}]

(* The three parts of the type invariant: what the event loop, a poll and the  *)
(* sampling thread write.                                                      *)
ClientTypes ==
    clients \subseteq Clients /\ heard \in [Clients -> Messages] /\ cancelled \in BOOLEAN

WatchTypes ==
    /\ poll \in Poll
    /\ filter \in [streak : 0..AbsentMin, last : {"none", "single", "multiple"}]
    /\ snapshot \in [occ : Occupancies, sig : Targets \cup {None}]
    /\ departure \in [active : BOOLEAN, absent : 0..ResetAbsentFrames]
    /\ target \in [sig : Targets \cup {None}, streak : 0..1]

GateType == [state : {"empty", "tracking", "occupied"}, absent : 0..(ResetAbsentFrames - 1)]

LEMMA TypeParts ==
    TypeOK <=> /\ ClientTypes /\ WatchTypes
               /\ loop \in Loops /\ worker \in Workers /\ gate \in GateType
               /\ generation \in Generations \cup {0}
               /\ retrying \in BOOLEAN /\ session \in SessionStates
BY DEF TypeOK, ClientTypes, WatchTypes, Loops, Workers, GateType, Messages

LEMMA TypePartsNext ==
    ASSUME ClientTypes', WatchTypes', loop' \in Loops, worker' \in Workers,
           gate' \in GateType, generation' \in Generations \cup {0},
           retrying' \in BOOLEAN, session' \in SessionStates
    PROVE  TypeOK'
BY DEF TypeOK, ClientTypes, WatchTypes, Loops, Workers, GateType, Messages

(* The next generation is one the running collection does not have.            *)
LEMMA FreshLemma == Fresh \in Generations /\ 0 \notin Generations
<1>1. 1 \in Generations /\ 2 \in Generations /\ 0 \notin Generations
  BY DEF Generations
<1>2. \E g \in Generations : g # worker.gen
  BY <1>1
<1> QED
  BY <1>1, <1>2 DEF Fresh

(* A full queue is a registered client's.                                      *)
LEMMA FullLemma ==
    ASSUME NEW audience, NEW full \in Full(audience)
    PROVE  full \subseteq clients
BY DEF Full

(* Whoever is dropped hears nothing more; what the others hear is either left  *)
(* alone or the message sent.                                                  *)
LEMMA DroppedLemma ==
    ASSUME Inductive, NEW gone, gone \subseteq clients, clients' = clients \ gone,
           NEW audience, NEW kind \in Messages,
           heard' = [c \in Clients |-> IF c \in gone THEN "nothing"
                                       ELSE IF c \in audience \cap clients THEN kind
                                       ELSE heard[c]]
    PROVE  /\ clients' \subseteq Clients /\ heard' \in [Clients -> Messages]
           /\ OnlyClientsHear'
<1>1. clients \subseteq Clients /\ heard \in [Clients -> Messages] /\ OnlyClientsHear
  BY TypeParts DEF Inductive, ClientTypes
<1> QED
  BY <1>1 DEF OnlyClientsHear, Messages

-----------------------------------------------------------------------------
(* The initial state satisfies the invariant.                                  *)
LEMMA InitInductive == Init => Inductive
<1> SUFFICES ASSUME Init PROVE Inductive
  OBVIOUS
<1>1. TypeOK
  <2>1. ClientTypes /\ loop \in Loops /\ worker \in Workers
    BY DEF Init, ClientTypes, Loops, Workers, NoWorker, Messages
  <2>2. poll \in Poll /\ snapshot \in [occ : Occupancies, sig : Targets \cup {None}]
    BY DEF Init, Poll, NoPoll, Occupancies
  <2>3. /\ filter \in [streak : 0..AbsentMin, last : {"none", "single", "multiple"}]
        /\ departure \in [active : BOOLEAN, absent : 0..ResetAbsentFrames]
        /\ gate \in GateType
    BY DEF Init, GateType
  <2>4. target \in [sig : Targets \cup {None}, streak : 0..1]
    BY DEF Init
  <2>5. generation \in Generations \cup {0} /\ retrying \in BOOLEAN /\ session \in SessionStates
    BY DEF Init, SessionStates
  <2> QED
    BY <2>1, <2>2, <2>3, <2>4, <2>5, TypeParts DEF WatchTypes
<1>2. TrackerCounts /\ PollIsLatest /\ OnlyClientsHear /\ EmptyMeansCancelled
  BY DEF Init, TrackerCounts, PollIsLatest, OnlyClientsHear, EmptyMeansCancelled, NoPoll
<1>3. JudgedUnderOpenGate /\ StoppedLeavesNoCollection /\ ~departure.active
  BY DEF Init, JudgedUnderOpenGate, StoppedLeavesNoCollection, Collecting, NoWorker
<1> QED
  BY <1>1, <1>2, <1>3 DEF Inductive

-----------------------------------------------------------------------------
(* Every step keeps it.                                                        *)

(* What the watch and the sampling thread own stays as it is when only clients *)
(* and the loop's place change.                                                *)
LEMMA WatchKept ==
    ASSUME Inductive, UNCHANGED <<pollVars, sharedVars, runtimeVars>>,
           UNCHANGED poll \/ poll' = NoPoll,
           loop'.at \in {"locked", "polled"} => UNCHANGED poll /\ loop'.at = loop.at
    PROVE  /\ WatchTypes' /\ gate' \in GateType /\ generation' \in Generations \cup {0}
           /\ retrying' \in BOOLEAN /\ session' \in SessionStates
           /\ TrackerCounts' /\ PollIsLatest' /\ (departure.active => session # "none")'
<1>1. NoPoll \in Poll
  BY DEF NoPoll, Poll, Occupancies, Generations
<1>2. WatchTypes' /\ gate' \in GateType /\ generation' \in Generations \cup {0}
      /\ retrying' \in BOOLEAN /\ session' \in SessionStates
  BY <1>1, TypeParts
     DEF Inductive, WatchTypes, pollVars, sharedVars, runtimeVars
<1>3. PollIsLatest'
  BY DEF Inductive, PollIsLatest, pollVars, NoPoll
<1> QED
  BY <1>2, <1>3 DEF Inductive, TrackerCounts, pollVars, sharedVars

(* A client registers.                                                         *)
LEMMA RegisterStep ==
    ASSUME Inductive, NEW c \in Clients, Register(c)
    PROVE  Inductive'
<1>1. /\ WatchTypes' /\ gate' \in GateType /\ generation' \in Generations \cup {0}
      /\ retrying' \in BOOLEAN /\ session' \in SessionStates
      /\ TrackerCounts' /\ PollIsLatest' /\ (departure.active => session # "none")'
  <2>1. loop' \in Loops /\ (loop'.at \in {"locked", "polled"} => loop'.at = loop.at)
    BY TypeParts DEF Inductive, Register, Loops
  <2> QED
    BY <2>1, WatchKept DEF Register
<1>2. ClientTypes' /\ loop' \in Loops /\ worker' \in Workers
  BY TypeParts DEF Inductive, Register, ClientTypes, Loops, workVars
<1>3. OnlyClientsHear' /\ EmptyMeansCancelled' /\ JudgedUnderOpenGate'
  BY DEF Inductive, Register, OnlyClientsHear, EmptyMeansCancelled, JudgedUnderOpenGate,
     Collecting, workVars, sharedVars
<1>4. StoppedLeavesNoCollection'
  BY TypeParts DEF Inductive, Register, StoppedLeavesNoCollection, Loops
<1> QED
  BY <1>1, <1>2, <1>3, <1>4, TypePartsNext DEF Inductive

(* Clients leave, or are dropped while the poll fails.                         *)
LEMMA LeaveStep ==
    ASSUME Inductive, NEW gone \in SUBSET clients, Unregistered(gone),
           heard' = [c \in Clients |-> IF c \in gone THEN "nothing" ELSE heard[c]],
           loop' \in Loops, loop'.at \in {"locked", "polled", "stopped"} => UNCHANGED loop,
           UNCHANGED <<poll, pollVars, sharedVars, runtimeVars, worker>>
    PROVE  Inductive'
<1>1. /\ WatchTypes' /\ gate' \in GateType /\ generation' \in Generations \cup {0}
      /\ retrying' \in BOOLEAN /\ session' \in SessionStates
      /\ TrackerCounts' /\ PollIsLatest' /\ (departure.active => session # "none")'
  BY WatchKept
<1>2. /\ clients' = clients \ gone /\ cancelled' \in BOOLEAN /\ (cancelled => cancelled')
  BY TypeParts DEF Inductive, Unregistered, ClientTypes, Collecting
<1>3. clients' \subseteq Clients /\ heard' \in [Clients -> Messages] /\ OnlyClientsHear'
  <2>1. clients \subseteq Clients /\ heard \in [Clients -> Messages] /\ OnlyClientsHear
    BY TypeParts DEF Inductive, ClientTypes
  <2> QED
    BY <1>2, <2>1 DEF OnlyClientsHear, Messages
<1>4. EmptyMeansCancelled' /\ JudgedUnderOpenGate' /\ StoppedLeavesNoCollection'
  BY <1>2 DEF Inductive, EmptyMeansCancelled, JudgedUnderOpenGate,
     StoppedLeavesNoCollection, Collecting, sharedVars
<1>5. worker' \in Workers
  BY TypeParts DEF Inductive
<1> QED
  BY <1>1, <1>2, <1>3, <1>4, <1>5, TypePartsNext DEF Inductive, ClientTypes

LEMMA UnregisterStep ==
    ASSUME Inductive, NEW c \in Clients, Unregister(c)
    PROVE  Inductive'
<1>1. heard' = [d \in Clients |-> IF d \in {c} THEN "nothing" ELSE heard[d]]
  BY TypeParts DEF Inductive, Unregister, ClientTypes
<1>2. loop' \in Loops
  BY TypeParts DEF Inductive, Unregister
<1> QED
  BY <1>1, <1>2, LeaveStep DEF Unregister

LEMMA PollFailsStep ==
    ASSUME Inductive, PollFails
    PROVE  Inductive'
<1>1. PICK full \in Full(clients) :
         /\ Unregistered(full)
         /\ heard' = [c \in Clients |-> IF c \in full THEN "nothing" ELSE heard[c]]
  BY DEF PollFails
<1>2. full \in SUBSET clients
  BY FullLemma
<1>3. loop' \in Loops /\ loop'.at = "ready"
  BY TypeParts DEF Inductive, PollFails, Loops
<1> QED
  BY <1>1, <1>2, <1>3, LeaveStep DEF PollFails

LEMMA LoopBeginStep ==
    ASSUME Inductive, LoopBegin
    PROVE  Inductive'
<1>1. loop' \in Loops /\ loop'.at \in {"stopped", "reading"}
  <2>1. \A b \in BOOLEAN : [at |-> "reading", push |-> b] \in Loops
    BY DEF Loops
  <2>2. [at |-> "stopped", push |-> FALSE] \in Loops
    BY DEF Loops
  <2> DEFINE push == clients \cap PushClients # {}
  <2>3. push \in BOOLEAN
    OBVIOUS
  <2>4. \/ loop' = [at |-> "stopped", push |-> FALSE]
        \/ loop' = [at |-> "reading", push |-> push]
    BY DEF LoopBegin
  <2> HIDE DEF push
  <2>5. [at |-> "reading", push |-> push] \in Loops
    BY <2>1, <2>3, Zenon
  <2>6. loop' \in Loops
    BY <2>2, <2>4, <2>5, Zenon
  <2>7. loop'.at \in {"stopped", "reading"}
    BY <2>4
  <2> QED
    BY <2>6, <2>7
<1>2. /\ WatchTypes' /\ gate' \in GateType /\ generation' \in Generations \cup {0}
      /\ retrying' \in BOOLEAN /\ session' \in SessionStates
      /\ TrackerCounts' /\ PollIsLatest' /\ (departure.active => session # "none")'
  BY <1>1, WatchKept DEF LoopBegin
<1>3. ClientTypes' /\ worker' \in Workers /\ OnlyClientsHear' /\ JudgedUnderOpenGate'
  BY TypeParts DEF Inductive, LoopBegin, ClientTypes, OnlyClientsHear,
     JudgedUnderOpenGate, Collecting, clientVars, sharedVars
<1>4. EmptyMeansCancelled' /\ StoppedLeavesNoCollection'
  <2>1. UNCHANGED <<heard, worker>>
    BY DEF LoopBegin, clientVars
  <2>2. CASE clients = {}
    <3>1. Collecting => cancelled'
      BY <2>2 DEF LoopBegin
    <3> QED
      BY <2>1, <3>1 DEF EmptyMeansCancelled, StoppedLeavesNoCollection, Collecting
  <2>3. CASE clients # {}
    <3>1. cancelled' = cancelled /\ loop'.at = "reading"
      BY <2>3 DEF LoopBegin
    <3> QED
      BY <2>1, <3>1 DEF Inductive, EmptyMeansCancelled, StoppedLeavesNoCollection,
         Collecting
  <2> QED
    BY <2>2, <2>3
<1> QED
  BY <1>1, <1>2, <1>3, <1>4, TypePartsNext DEF Inductive

-----------------------------------------------------------------------------
(* A poll leaves clients and worker alone, and locks no open gate.             *)
LEMMA PollKeeps ==
    ASSUME Inductive, UNCHANGED <<clientVars, workVars>>,
           gate'.state = "occupied" => gate.state = "occupied", loop'.at # "stopped"
    PROVE  /\ ClientTypes' /\ worker' \in Workers /\ OnlyClientsHear'
           /\ EmptyMeansCancelled' /\ JudgedUnderOpenGate' /\ StoppedLeavesNoCollection'
<1>1. ClientTypes' /\ worker' \in Workers
  BY TypeParts DEF Inductive, ClientTypes, clientVars, workVars
<1> QED
  BY <1>1 DEF Inductive, OnlyClientsHear, EmptyMeansCancelled, JudgedUnderOpenGate,
     StoppedLeavesNoCollection, Collecting, clientVars, workVars

LEMMA PollObservesStep ==
    ASSUME Inductive, NEW evidence \in BOOLEAN, NEW occ \in Occupancies,
           NEW sig \in Targets \cup {None}, PollObserves(evidence, occ, sig)
    PROVE  Inductive'
<1> DEFINE f == Filtered(evidence, occ)
<1>1. /\ filter' = [streak |-> f.streak, last |-> f.last] /\ loop' = [loop EXCEPT !.at = "entering"]
      /\ poll' = [occ |-> f.occ, sig |-> IF f.occ = "none" THEN None ELSE sig, cand |-> 0]
      /\ UNCHANGED <<clientVars, snapshot, departure, sharedVars, runtimeVars, workVars>>
  BY DEF PollObserves
<1>2. /\ f.occ \in Occupancies /\ f.streak \in 0..AbsentMin
      /\ f.last \in {"none", "single", "multiple"}
  <2>1. filter.streak \in 0..AbsentMin /\ filter.last \in {"none", "single", "multiple"}
    BY TypeParts DEF Inductive, WatchTypes
  <2> DEFINE streak == IF filter.streak < AbsentMin THEN filter.streak + 1 ELSE AbsentMin
  <2>2. streak \in 0..AbsentMin /\ 0 \in 0..AbsentMin
    BY <2>1
  <2> HIDE DEF streak
  <2>3. f = IF evidence
              THEN [occ |-> occ, streak |-> 0,
                    last |-> IF occ \in {"single", "multiple"} THEN occ ELSE filter.last]
            ELSE IF streak >= AbsentMin
              THEN [occ |-> "none", streak |-> streak, last |-> "none"]
            ELSE [occ |-> IF filter.last # "none" THEN filter.last ELSE occ,
                  streak |-> streak, last |-> filter.last]
    BY DEF Filtered, streak
  <2> HIDE DEF f
  <2> QED
    BY <2>1, <2>2, <2>3 DEF Occupancies
<1> HIDE DEF f
<1>3. loop' \in Loops /\ loop'.at = "entering"
  BY <1>1, TypeParts DEF Inductive, Loops
<1>4. poll' \in Poll /\ poll'.cand = 0
  BY <1>1, <1>2 DEF Poll
<1>5. WatchTypes'
  BY <1>1, <1>2, <1>4, TypeParts DEF Inductive, WatchTypes, runtimeVars
<1>6. /\ gate' \in GateType /\ generation' \in Generations \cup {0}
      /\ retrying' \in BOOLEAN /\ session' \in SessionStates
  BY <1>1, TypeParts DEF Inductive, sharedVars, runtimeVars
<1>7. TrackerCounts' /\ PollIsLatest' /\ (departure.active => session # "none")'
  BY <1>1, <1>3, <1>4 DEF Inductive, TrackerCounts, PollIsLatest, sharedVars
<1>8. /\ ClientTypes' /\ worker' \in Workers /\ OnlyClientsHear'
      /\ EmptyMeansCancelled' /\ JudgedUnderOpenGate' /\ StoppedLeavesNoCollection'
  BY <1>1, <1>3, PollKeeps DEF sharedVars
<1> QED
  BY <1>3, <1>5, <1>6, <1>7, <1>8, TypePartsNext DEF Inductive

LEMMA PollEntersStep ==
    ASSUME Inductive, PollEnters
    PROVE  Inductive'
<1>1. loop' \in Loops /\ loop'.at = "locked"
  BY TypeParts DEF Inductive, PollEnters, Loops
<1>2. gate' \in GateType /\ (gate'.state = "occupied" => gate.state = "occupied")
  <2>1. gate \in GateType
    BY TypeParts DEF Inductive
  <2>2. GatePresent \in GateType /\ (GatePresent.state = "occupied" => gate.state = "occupied")
    BY <2>1 DEF GatePresent, GateType
  <2>3. GateAbsent \in GateType /\ (GateAbsent.state = "occupied" => gate.state = "occupied")
    BY <2>1 DEF GateAbsent, GateType
  <2> QED
    BY <2>2, <2>3 DEF PollEnters
<1>3. WatchTypes'
  BY TypeParts DEF Inductive, PollEnters, WatchTypes, Poll, runtimeVars
<1>4. /\ generation' \in Generations \cup {0}
      /\ retrying' \in BOOLEAN /\ session' \in SessionStates
  BY TypeParts DEF Inductive, PollEnters, runtimeVars
<1>5. TrackerCounts' /\ PollIsLatest' /\ (departure.active => session # "none")'
  BY DEF Inductive, TrackerCounts, PollIsLatest, PollEnters
<1>6. /\ ClientTypes' /\ worker' \in Workers /\ OnlyClientsHear'
      /\ EmptyMeansCancelled' /\ JudgedUnderOpenGate' /\ StoppedLeavesNoCollection'
  BY <1>1, <1>2, PollKeeps DEF PollEnters
<1> QED
  BY <1>1, <1>2, <1>3, <1>4, <1>5, <1>6, TypePartsNext DEF Inductive

LEMMA PollFindsNobodyStep ==
    ASSUME Inductive, PollFindsNobody
    PROVE  Inductive'
<1>1. loop' \in Loops /\ loop'.at = "polled" /\ loop.at = "locked"
  BY TypeParts DEF Inductive, PollFindsNobody, Loops
<1>2. /\ departure' \in [active : BOOLEAN, absent : 0..ResetAbsentFrames]
      /\ departure'.active => departure'.absent < ResetAbsentFrames /\ departure.active /\ ~Departs
  <2>1. /\ departure \in [active : BOOLEAN, absent : 0..ResetAbsentFrames]
        /\ departure.active => departure.absent < ResetAbsentFrames
    BY TypeParts DEF Inductive, WatchTypes, TrackerCounts
  <2> QED
    BY <2>1 DEF PollFindsNobody, Departs
<1>3. WatchTypes'
  <2>1. target' \in [sig : Targets \cup {None}, streak : 0..1]
    BY TypeParts DEF Inductive, PollFindsNobody, WatchTypes
  <2> QED
    BY <1>2, <2>1, TypeParts DEF Inductive, PollFindsNobody, WatchTypes
<1>4. /\ gate' \in GateType /\ generation' \in Generations \cup {0}
      /\ retrying' \in BOOLEAN /\ session' \in SessionStates
  BY TypeParts DEF Inductive, PollFindsNobody, SessionStates
<1>5. TrackerCounts' /\ PollIsLatest' /\ (departure.active => session # "none")'
  BY <1>1, <1>2 DEF Inductive, TrackerCounts, PollIsLatest, PollFindsNobody
<1>6. /\ ClientTypes' /\ worker' \in Workers /\ OnlyClientsHear'
      /\ EmptyMeansCancelled' /\ JudgedUnderOpenGate' /\ StoppedLeavesNoCollection'
  BY <1>1, PollKeeps DEF PollFindsNobody
<1> QED
  BY <1>1, <1>3, <1>4, <1>5, <1>6, TypePartsNext DEF Inductive

LEMMA PollFindsSomebodyStep ==
    ASSUME Inductive, PollFindsSomebody
    PROVE  Inductive'
<1>1. loop' \in Loops /\ loop'.at = "polled" /\ loop.at = "locked" /\ poll.occ # "none"
  BY TypeParts DEF Inductive, PollFindsSomebody, Loops
<1>2. Mismatches \in 0..2
  <2>1. target.streak \in 0..1
    BY TypeParts DEF Inductive, WatchTypes
  <2> QED
    BY <2>1 DEF Mismatches
<1>3. target' \in [sig : Targets \cup {None}, streak : 0..1]
  <2>1. target \in [sig : Targets \cup {None}, streak : 0..1]
    BY TypeParts DEF Inductive, WatchTypes
  <2>2. target' = IF Mismatches >= 2 THEN [sig |-> None, streak |-> 0]
                  ELSE [target EXCEPT !.streak = Mismatches]
    BY DEF PollFindsSomebody
  <2>3. ~(Mismatches >= 2) => Mismatches \in 0..1
    BY <1>2
  <2> QED
    BY <2>1, <2>2, <2>3
<1>4. poll' \in Poll /\ poll'.occ = poll.occ
  <2>1. poll \in Poll
    BY TypeParts DEF Inductive, WatchTypes
  <2>2. \A g \in Generations \cup {0} : [poll EXCEPT !.cand = g] \in Poll
    BY <2>1 DEF Poll
  <2>3. \E g \in Generations \cup {0} : poll' = [poll EXCEPT !.cand = g]
    BY FreshLemma DEF PollFindsSomebody
  <2> QED
    BY <2>1, <2>2, <2>3 DEF Poll
<1>5. gate' \in GateType /\ (gate'.state = "occupied" => gate.state = "occupied")
  BY TypeParts DEF Inductive, PollFindsSomebody, GateType
<1>6. departure' = [active |-> TRUE, absent |-> 0]
  BY DEF PollFindsSomebody
<1>7. session' \in SessionStates \ {"none"}
  BY DEF PollFindsSomebody, SessionStates
<1>8. generation' \in Generations \cup {0} /\ retrying' \in BOOLEAN
  BY FreshLemma, TypeParts DEF Inductive, PollFindsSomebody
<1>9. WatchTypes'
  BY <1>3, <1>4, <1>6, TypeParts DEF Inductive, PollFindsSomebody, WatchTypes
<1>10. TrackerCounts' /\ PollIsLatest' /\ (departure.active => session # "none")'
  <2>1. UNCHANGED snapshot /\ snapshot.occ = poll.occ
    BY <1>1 DEF Inductive, PollIsLatest, PollFindsSomebody
  <2> QED
    BY <1>1, <1>4, <1>6, <1>7, <2>1 DEF TrackerCounts, PollIsLatest
<1>11. /\ ClientTypes' /\ worker' \in Workers /\ OnlyClientsHear'
       /\ EmptyMeansCancelled' /\ JudgedUnderOpenGate' /\ StoppedLeavesNoCollection'
  BY <1>1, <1>5, PollKeeps DEF PollFindsSomebody
<1> QED
  BY <1>1, <1>5, <1>7, <1>8, <1>9, <1>10, <1>11, TypePartsNext DEF Inductive

(* The event loop resumes after a poll.                                        *)
LEMMA LoopResumesStep ==
    ASSUME Inductive, LoopResumes
    PROVE  Inductive'
<1> DEFINE kind == IF poll.occ = "none" THEN "empty" ELSE "present"
<1> DEFINE starts == poll.cand # 0 /\ loop.push /\ ~Collecting
<1>1. PICK full \in Full(clients) :
        /\ clients' = clients \ full
        /\ Broadcast(kind, clients, full)
        /\ IF starts
             THEN /\ worker' = [at |-> "owner", gen |-> poll.cand, ret |-> "none"]
                  /\ cancelled' = FALSE
             ELSE /\ cancelled' = (\/ cancelled
                                   \/ Collecting /\ ~Valid(worker.gen)
                                   \/ Collecting /\ full # {} /\ clients \subseteq full)
                  /\ UNCHANGED worker
  BY DEF LoopResumes
<1>2. loop' \in Loops /\ loop'.at = "ready" /\ loop.at = "polled"
  BY TypeParts DEF Inductive, LoopResumes, Loops
<1>3. poll' = NoPoll /\ UNCHANGED <<pollVars, sharedVars, runtimeVars>>
  BY DEF LoopResumes
<1>4. /\ WatchTypes' /\ gate' \in GateType /\ generation' \in Generations \cup {0}
      /\ retrying' \in BOOLEAN /\ session' \in SessionStates
      /\ TrackerCounts' /\ PollIsLatest' /\ (departure.active => session # "none")'
  BY <1>2, <1>3, WatchKept
<1>5. heard' = [c \in Clients |-> IF c \in full THEN "nothing"
                                  ELSE IF c \in clients \cap clients THEN kind
                                  ELSE heard[c]]
  BY <1>1 DEF Broadcast
<1>6. clients' \subseteq Clients /\ heard' \in [Clients -> Messages] /\ OnlyClientsHear'
  <2>1. kind \in Messages
    BY DEF Messages
  <2>2. full \subseteq clients
    BY FullLemma
  <2> HIDE DEF kind
  <2> QED
    BY <1>1, <1>5, <2>1, <2>2, DroppedLemma
<1>7. worker' \in Workers /\ cancelled' \in BOOLEAN
  <2>1. poll.cand \in Generations \cup {0} /\ worker \in Workers /\ cancelled \in BOOLEAN
    BY TypeParts DEF Inductive, WatchTypes, ClientTypes, Poll
  <2>2. [at |-> "owner", gen |-> poll.cand, ret |-> "none"] \in Workers
    BY <2>1 DEF Workers
  <2> QED
    BY <1>1, <2>1, <2>2 DEF Collecting, Valid
<1>8. EmptyMeansCancelled'
  <2> SUFFICES ASSUME NEW c \in Clients, heard'[c] = "empty" PROVE Collecting' => cancelled'
    BY DEF EmptyMeansCancelled
  <2>1. heard[c] # "nothing" => c \in clients
    BY DEF Inductive, OnlyClientsHear
  <2>2. poll.occ = "none"
    BY <1>5, <2>1
  <2>3. poll.cand = 0 /\ snapshot.occ = "none"
    BY <1>2, <2>2 DEF Inductive, PollIsLatest
  <2>4. ~Valid(worker.gen)
    BY <2>3 DEF Valid
  <2> QED
    BY <1>1, <2>3, <2>4 DEF Collecting
<1>9. JudgedUnderOpenGate'
  <2>1. worker' = worker \/ worker' = [at |-> "owner", gen |-> poll.cand, ret |-> "none"]
    BY <1>1
  <2>2. gate' = gate
    BY <1>3 DEF sharedVars
  <2> QED
    BY <2>1, <2>2 DEF Inductive, JudgedUnderOpenGate
<1>10. StoppedLeavesNoCollection'
  BY <1>2 DEF StoppedLeavesNoCollection
<1> QED
  BY <1>2, <1>4, <1>6, <1>7, <1>8, <1>9, <1>10, TypePartsNext DEF Inductive, ClientTypes

-----------------------------------------------------------------------------
(* The sampling thread goes on collecting for the same candidate, may report   *)
(* to the session, and locks the gate at the end only.                         *)
SamplingStep ==
    \/ AwaitsOwnership \/ Samples \/ Validates \/ Judges
    \/ ConfirmsOccupancy \/ LocksGate \/ CommitsProfile

LEMMA SampleStep ==
    ASSUME Inductive, SamplingStep
    PROVE  Inductive'
<1>1. /\ worker \in Workers /\ gate \in GateType /\ session \in SessionStates
      /\ JudgedUnderOpenGate
  BY TypeParts DEF Inductive
<1>2. Collecting /\ UNCHANGED <<clientVars, loop, poll, pollVars, runtimeVars, cancelled>>
  BY DEF SamplingStep, AwaitsOwnership, Samples, Validates, Judges, ConfirmsOccupancy,
     LocksGate, CommitsProfile, Collecting
<1>3. worker' \in Workers /\ Collecting'
  <2>1. \A at \in {"sampling", "sampled", "valid", "fit", "commit", "pushed"} :
           GoesOn(at) => worker' \in Workers /\ worker'.at = at
    BY <1>1 DEF GoesOn, Workers
  <2>2. \A ret \in {"none", "status", "result", "error"} :
           Returns(ret) => worker' \in Workers /\ worker'.at = "returned"
    BY <1>1 DEF Returns, Workers
  <2> QED
    BY <2>1, <2>2 DEF SamplingStep, AwaitsOwnership, Samples, Validates, Judges,
       ConfirmsOccupancy, LocksGate, CommitsProfile, Collecting
<1>4. session' = session \/ session' \in SessionStates \ {"none"}
  BY DEF SamplingStep, AwaitsOwnership, Samples, Validates, Judges, ConfirmsOccupancy,
     LocksGate, CommitsProfile, SessionStates, sharedVars
<1>5. gate' = gate \/ (worker'.at = "pushed" /\ gate' = [state |-> "occupied", absent |-> 0])
  BY <1>1 DEF SamplingStep, AwaitsOwnership, Samples, Validates, Judges,
     ConfirmsOccupancy, LocksGate, CommitsProfile, GoesOn, Workers, sharedVars
<1>6. gate' \in GateType
  BY <1>1, <1>5 DEF GateType
<1>7. WatchTypes' /\ ClientTypes' /\ loop' \in Loops
      /\ generation' \in Generations \cup {0} /\ retrying' \in BOOLEAN
  BY <1>2, TypeParts
     DEF Inductive, WatchTypes, ClientTypes, clientVars, pollVars, runtimeVars
<1>8. TrackerCounts' /\ PollIsLatest' /\ (departure.active => session # "none")'
      /\ OnlyClientsHear' /\ EmptyMeansCancelled' /\ StoppedLeavesNoCollection'
  BY <1>2, <1>3, <1>4 DEF Inductive, TrackerCounts, PollIsLatest, OnlyClientsHear,
     EmptyMeansCancelled, StoppedLeavesNoCollection, Collecting, clientVars, pollVars
<1>9. JudgedUnderOpenGate'
  <2> SUFFICES ASSUME worker'.at \in {"valid", "fit", "commit"} PROVE gate'.state # "occupied"
    BY DEF JudgedUnderOpenGate
  <2>1. gate' = gate
    BY <1>5
  <2>2. worker.at \in {"valid", "fit"} \/ Valid(worker.gen)
    BY <1>1 DEF SamplingStep, AwaitsOwnership, Samples, Validates, Judges,
       ConfirmsOccupancy, LocksGate, CommitsProfile, GoesOn, Returns, Workers
  <2> QED
    BY <1>1, <2>1, <2>2 DEF JudgedUnderOpenGate, Valid
<1> QED
  BY <1>1, <1>3, <1>4, <1>6, <1>7, <1>8, <1>9, TypePartsNext DEF Inductive

(* The worker resumes after its thread.                                        *)
LEMMA WorkerReturnsStep ==
    ASSUME Inductive, WorkerReturns
    PROVE  Inductive'
<1> DEFINE audience == IF worker.ret = "result" THEN PushClients ELSE Clients
<1> DEFINE kind == IF worker.ret = "result" THEN "result" ELSE "sampled"
<1>1. /\ worker' = NoWorker /\ cancelled' = FALSE
      /\ FinishCollection(Delivers /\ worker.ret = "result")
      /\ UNCHANGED <<loop, poll, pollVars, sharedVars>>
  BY DEF WorkerReturns
<1>2. clients' \subseteq Clients /\ heard' \in [Clients -> Messages] /\ OnlyClientsHear'
  <2>1. \/ \E full \in Full(audience) :
              clients' = clients \ full /\ Broadcast(kind, audience, full)
        \/ \E full \in Full(clients) :
              clients' = clients \ full /\ Broadcast("nothing", {}, full)
        \/ UNCHANGED clientVars
    BY DEF WorkerReturns
  <2>2. kind \in Messages /\ "nothing" \in Messages
    BY DEF Messages
  <2> HIDE DEF audience, kind
  <2>3. ASSUME NEW who, NEW what \in Messages, NEW full \in Full(who) \cup Full(clients),
               clients' = clients \ full, Broadcast(what, who, full)
        PROVE  clients' \subseteq Clients /\ heard' \in [Clients -> Messages]
               /\ OnlyClientsHear'
    <3>1. full \subseteq clients
      BY FullLemma
    <3> QED
      BY <2>3, <3>1, DroppedLemma DEF Broadcast
  <2>4. CASE UNCHANGED clientVars
    BY <2>4, TypeParts DEF Inductive, ClientTypes, OnlyClientsHear, clientVars
  <2> QED
    BY <2>1, <2>2, <2>3, <2>4
<1>3. /\ worker' \in Workers /\ cancelled' \in BOOLEAN /\ loop' \in Loops
      /\ gate' \in GateType /\ session' \in SessionStates
  <2>1. NoWorker \in Workers
    BY DEF NoWorker, Workers
  <2> QED
    BY <1>1, <2>1, TypeParts DEF Inductive, sharedVars
<1>4. WatchTypes' /\ generation' \in Generations \cup {0} /\ retrying' \in BOOLEAN
  <2>1. target' \in [sig : Targets \cup {None}, streak : 0..1]
    BY <1>1, TypeParts DEF Inductive, FinishCollection, WatchTypes
  <2>2. generation' \in Generations \cup {0} /\ retrying' \in BOOLEAN
    BY <1>1, TypeParts DEF Inductive, FinishCollection
  <2> QED
    BY <1>1, <2>1, <2>2, TypeParts DEF Inductive, WatchTypes, pollVars
<1>5. TrackerCounts' /\ PollIsLatest' /\ (departure.active => session # "none")'
  BY <1>1 DEF Inductive, TrackerCounts, PollIsLatest, pollVars, sharedVars
<1>6. EmptyMeansCancelled' /\ JudgedUnderOpenGate' /\ StoppedLeavesNoCollection'
  BY <1>1 DEF EmptyMeansCancelled, JudgedUnderOpenGate, StoppedLeavesNoCollection,
     Collecting, NoWorker
<1> QED
  BY <1>2, <1>3, <1>4, <1>5, <1>6, TypePartsNext DEF Inductive, ClientTypes

(* The wait between two collections is over, or nothing happens.               *)
LEMMA StutterStep ==
    ASSUME Inductive, retrying' \in BOOLEAN,
           UNCHANGED <<clientVars, loop, poll, pollVars, sharedVars, target, generation,
                       workVars>>
    PROVE  Inductive'
<1>1. TypeOK'
  BY TypeParts, TypePartsNext DEF Inductive, ClientTypes, WatchTypes, clientVars, pollVars,
     sharedVars, workVars
<1> QED
  BY <1>1 DEF Inductive, TrackerCounts, PollIsLatest, OnlyClientsHear,
     EmptyMeansCancelled, JudgedUnderOpenGate, StoppedLeavesNoCollection, Collecting,
     clientVars, pollVars, sharedVars, workVars

(* A step keeps the invariant.                                                 *)
LEMMA NextInductive == Inductive /\ [Next]_vars => Inductive'
<1> SUFFICES ASSUME Inductive, [Next]_vars PROVE Inductive'
  OBVIOUS
<1>1. CASE \E c \in Clients : Register(c) \/ Unregister(c)
  BY <1>1, RegisterStep, UnregisterStep
<1>2. CASE LoopBegin \/ PollFails \/ LoopResumes
  BY <1>2, LoopBeginStep, PollFailsStep, LoopResumesStep
<1>3. CASE \E evidence \in BOOLEAN, occ \in Occupancies, sig \in Targets \cup {None} :
             PollObserves(evidence, occ, sig)
  BY <1>3, PollObservesStep
<1>4. CASE PollEnters \/ PollFindsNobody \/ PollFindsSomebody
  BY <1>4, PollEntersStep, PollFindsNobodyStep, PollFindsSomebodyStep
<1>5. CASE Collection
  BY <1>5, SampleStep, WorkerReturnsStep DEF Collection, SamplingStep
<1>6. CASE RetryElapses
  BY <1>6, StutterStep DEF RetryElapses
<1>7. CASE UNCHANGED vars
  <2>1. retrying' \in BOOLEAN
    BY <1>7, TypeParts DEF Inductive, vars, runtimeVars
  <2> QED
    BY <1>7, <2>1, StutterStep DEF vars, runtimeVars
<1> QED
  BY <1>1, <1>2, <1>3, <1>4, <1>5, <1>6, <1>7 DEF Next, Polling

-----------------------------------------------------------------------------

(* Every reachable state satisfies the inductive invariant.                    *)
THEOREM PresenceInvariance == Spec => []Inductive
  BY InitInductive, NextInductive, PTL DEF Spec

(* The presence runtime, its gate, tracker and session keep their types.       *)
THEOREM PresenceTypeCorrect == Spec => []TypeOK
<1>1. Inductive => TypeOK
  BY DEF Inductive
<1> QED
  BY <1>1, PresenceInvariance, PTL

(* A stopped presence loop leaves no collection that is not cancelled.         *)
THEOREM StoppedLeavesNoCollectionHolds == Spec => []StoppedLeavesNoCollection
<1>1. Inductive => StoppedLeavesNoCollection
  BY DEF Inductive
<1> QED
  BY <1>1, PresenceInvariance, PTL

(* A person the departure tracker follows has an open session.                 *)
THEOREM TrackedPersonHasSessionHolds == Spec => []TrackedPersonHasSession
<1>1. Inductive => TrackedPersonHasSession
  BY DEF Inductive, TrackedPersonHasSession
<1> QED
  BY <1>1, PresenceInvariance, PTL

(* Gate, tracker and session agree in every state, stopped or running          *)
(* (profile_state.py, presence_runtime.py stop, session_state.py).             *)
THEOREM SceneInvHolds == Spec => []SceneInv
<1>1. TypeOK /\ StoppedLeavesNoCollection /\ TrackedPersonHasSession => SceneInv
  BY DEF SceneInv
<1> QED
  BY <1>1, PresenceTypeCorrect, StoppedLeavesNoCollectionHolds,
     TrackedPersonHasSessionHolds, PTL

(* Profiles are committed under an open gate only.                             *)
THEOREM CommitsUnderOpenGateHolds == Spec => CommitsUnderOpenGate
<1>1. Inductive =>
        [worker.at = "commit" /\ worker'.at = "pushed" => gate.state # "occupied"]_vars
  BY DEF Inductive, JudgedUnderOpenGate
<1> QED
  BY <1>1, PresenceInvariance, PTL DEF CommitsUnderOpenGate

(* Who was told of an empty scene hears nothing of a collection next.          *)
THEOREM NothingStaleAfterEmptyHolds == Spec => NothingStaleAfterEmpty
<1>1. Inductive /\ [Next]_vars =>
        [\A c \in Clients :
            heard[c] = "empty" => heard'[c] \notin {"sampled", "result"}]_vars
  <2> SUFFICES ASSUME Inductive, Next, NEW c \in Clients, heard[c] = "empty"
               PROVE  heard'[c] \notin {"sampled", "result"}
    OBVIOUS
  <2>1. heard \in [Clients -> Messages]
    BY TypeParts DEF Inductive, ClientTypes
  <2>2. CASE WorkerReturns
    <3>1. cancelled
      BY <2>2 DEF Inductive, EmptyMeansCancelled, Collecting, WorkerReturns
    <3>2. (\E full \in Full(clients) : Broadcast("nothing", {}, full)) \/ UNCHANGED heard
      BY <2>2, <3>1 DEF WorkerReturns, Delivers, clientVars
    <3> QED
      BY <3>2 DEF Broadcast
  <2>3. CASE LoopResumes
    BY <2>3 DEF LoopResumes, Broadcast
  <2>4. CASE PollFails
    BY <2>4 DEF PollFails
  <2>5. CASE \E d \in Clients : Unregister(d)
    BY <2>1, <2>5 DEF Unregister
  <2>6. CASE UNCHANGED heard
    BY <2>6
  <2>7. WorkerReturns \/ LoopResumes \/ PollFails \/ (\E d \in Clients : Unregister(d))
        \/ UNCHANGED heard
    BY DEF Next, Polling, Collection, Register, LoopBegin, PollObserves, PollEnters,
       PollFindsNobody, PollFindsSomebody, AwaitsOwnership, Samples, Validates, Judges,
       ConfirmsOccupancy, LocksGate, CommitsProfile, RetryElapses, clientVars
  <2> QED
    BY <2>2, <2>3, <2>4, <2>5, <2>6, <2>7
<1> QED
  BY <1>1, PresenceInvariance, PTL DEF Spec, NothingStaleAfterEmpty
=============================================================================
