---------------------- MODULE CameraMaintenanceProofs ----------------------
(***************************************************************************)
(* What CameraMaintenance.cfg checks on two cameras holds of any number of *)
(* cameras, sources and threads, and of every bound.                       *)
(*                                                                         *)
(* The invariant has four parts beside the types: what is being written    *)
(* (SaveInv), that no two cameras are one source (TypeOK does not say so   *)
(* of the snapshot: SourceInv), who holds a camera (HoldInv), and what a   *)
(* test is worth (TestInv).                                                *)
(***************************************************************************)
EXTENDS CameraMaintenance, TLAPS

Distinct(b) == \A r, s \in Roles : r # s /\ b[r] # NoCamera => b[r] # b[s]

\* The file, the copy in memory and the binding under way.
SaveInv ==
    /\ Distinct(file)
    /\ confirming.pc # "none" => Distinct(confirming.next)
    /\ confirming.pc = "replaced" => file = confirming.next
    /\ confirming.pc # "replaced" => bindings = file

SourceInv == snapshot \in Enumerations

Holding == {"lease", "capture", "release", "resume"}
Capturing == {"capture", "release"}

\* Of each camera one access is under way, and it alone holds it.
HoldInv ==
    /\ \A t \in Threads : access[t].pc \in Holding => access[t].camera \in handedOff
    /\ \A t \in Threads : access[t].pc \in Capturing => access[t].camera \in leased
    /\ \A t, u \in Threads :
         access[t].pc \in Holding /\ access[u].pc \in Holding /\ t # u
            => access[t].camera # access[u].camera
    /\ \A c \in handedOff : \E t \in Threads :
         access[t].camera = c /\ access[t].pc \in Holding
    /\ \A c \in leased : \E t \in Threads :
         access[t].camera = c /\ access[t].pc \in Capturing

\* A test of the present enumeration saw the source it shows for the camera.
TestInv ==
    /\ \A e \in evidence :
         e.generation <= generation
           /\ (e.generation = generation => e.index = snapshot[e.camera])
    /\ \A t \in Threads : access[t].pc # "idle" =>
         /\ access[t].generation <= generation /\ access[t].generation > 0
         /\ access[t].camera \in Cameras /\ access[t].index \in Indexes
         /\ access[t].generation = generation
              => access[t].index = snapshot[access[t].camera]
    /\ \A t \in Threads : access[t].pc = "tested" => access[t].role \in Roles

Inv == TypeOK /\ SaveInv /\ SourceInv /\ HoldInv /\ TestInv

-----------------------------------------------------------------------------
(* What is typed, part by part.                                             *)

Accessing == [pc : {"idle", "handoff", "lease", "capture", "release", "resume",
                    "tested"},
              role : Roles \cup {"none"}, camera : Cameras \cup {NoCamera},
              index : Indexes \cup {NoSource}, generation : 0..MaxGenerations,
              ok : BOOLEAN]

LEMMA Bounds == MaxGenerations \in Nat /\ Indexes \subseteq Nat /\ NoCamera \notin Cameras
BY CameraMaintenanceAssumption

LEMMA InitHolds == Init => Inv
<1> SUFFICES ASSUME Init PROVE Inv
    OBVIOUS
<1> USE Bounds
<1>1. snapshot \in Enumerations
    <2>1. NoSource \notin Indexes
        BY DEF NoSource
    <2> QED
        BY <2>1 DEF Init, Enumerations, Observations
<1>2. TypeOK
    <2>1. snapshot \in [Cameras -> Observations]
        BY DEF Init, Observations
    <2>2. access \in [Threads -> Accessing]
        <3>1. NoAccess \in Accessing
            BY DEF NoAccess, Accessing
        <3> QED
            BY <3>1 DEF Init
    <2> QED
        BY <2>1, <2>2 DEF Init, TypeOK, Accessing, Unbound, NotConfirming, Roles
<1>3. SaveInv
    BY DEF Init, SaveInv, Distinct, Unbound, NotConfirming, Roles
<1>4. HoldInv
    BY DEF Init, HoldInv, NoAccess, Holding, Capturing
<1>5. TestInv
    BY DEF Init, TestInv, NoAccess
<1> QED
    BY <1>1, <1>2, <1>3, <1>4, <1>5 DEF Inv, SourceInv

-----------------------------------------------------------------------------
(* The steps of the service: enumerations, confirmations and crashes.       *)

LEMMA ReplugHolds == Inv /\ Replug => Inv'
<1> SUFFICES ASSUME Inv, Replug PROVE Inv'
    OBVIOUS
<1> USE DEF Inv, Replug, OfService, OfAccess
<1>1. TypeOK'
    BY DEF TypeOK
<1>2. SaveInv' /\ SourceInv'
    BY DEF SaveInv, SourceInv, Distinct
<1>3. HoldInv' /\ TestInv'
    BY DEF HoldInv, TestInv
<1> QED
    BY <1>1, <1>2, <1>3

LEMMA RefreshHolds == Inv /\ Refresh => Inv'
<1> SUFFICES ASSUME Inv, Refresh PROVE Inv'
    OBVIOUS
<1> USE Bounds DEF Inv, Refresh, Observed, OfAccess
<1>1. TypeOK'
    BY DEF TypeOK, Enumerations
<1>2. SaveInv' /\ SourceInv'
    BY DEF TypeOK, SaveInv, SourceInv, Distinct
<1>3. HoldInv'
    BY DEF HoldInv
<1>4. TestInv'
    <2>1. generation' = generation + 1 /\ generation \in Nat
        BY DEF TypeOK
    <2>2. \A e \in evidence : e.generation \in Nat
        BY DEF TypeOK, Evidence
    <2>3. \A t \in Threads : access[t].generation \in Nat
        BY DEF TypeOK
    <2> QED
        BY <2>1, <2>2, <2>3 DEF TestInv
<1> QED
    BY <1>1, <1>2, <1>3, <1>4

LEMMA ConfirmHolds ==
    ASSUME NEW role \in Roles, NEW c \in Cameras, NEW e \in evidence,
           Inv, Confirm(role, c, e)
    PROVE  Inv'
<1> USE Bounds DEF Inv, Confirm, OfAccess
<1>1. /\ file \in [Roles -> Cameras \cup {NoCamera}]
      /\ [file EXCEPT ![role] = c] \in [Roles -> Cameras \cup {NoCamera}]
    BY DEF TypeOK
<1>2. TypeOK'
    BY <1>1 DEF TypeOK
<1>3. ~BoundElsewhere(file, role, c) => Distinct([file EXCEPT ![role] = c])
    BY <1>1 DEF BoundElsewhere, Distinct, SaveInv
<1>4. SaveInv' /\ SourceInv'
    BY <1>3 DEF SaveInv, SourceInv, Distinct, Unlocked
<1>5. HoldInv' /\ TestInv'
    BY DEF HoldInv, TestInv
<1> QED
    BY <1>2, <1>4, <1>5

LEMMA SavingHolds == Inv /\ (Replace \/ SaveFails \/ Confirmed) => Inv'
<1> SUFFICES ASSUME Inv, Replace \/ SaveFails \/ Confirmed PROVE Inv'
    OBVIOUS
<1> USE DEF Inv, Replace, SaveFails, Confirmed, OfAccess
<1>1. NotConfirming.next \in [Roles -> Cameras \cup {NoCamera}]
    BY DEF NotConfirming, Unbound
<1>2. TypeOK'
    BY <1>1 DEF TypeOK, NotConfirming
<1>3. SaveInv' /\ SourceInv'
    BY DEF TypeOK, SaveInv, SourceInv, Distinct, NotConfirming
<1>4. HoldInv' /\ TestInv'
    BY DEF HoldInv, TestInv
<1> QED
    BY <1>2, <1>3, <1>4

LEMMA ExpireHolds == ASSUME NEW e \in evidence, Inv, Expire(e) PROVE Inv'
<1> USE DEF Inv, Expire, OfAccess
<1>1. TypeOK'
    BY DEF TypeOK
<1>2. SaveInv' /\ SourceInv'
    BY DEF SaveInv, SourceInv, Distinct
<1>3. HoldInv' /\ TestInv'
    BY DEF HoldInv, TestInv
<1> QED
    BY <1>1, <1>2, <1>3

LEMMA CrashHolds == Inv /\ Crash => Inv'
<1> SUFFICES ASSUME Inv, Crash PROVE Inv'
    OBVIOUS
<1> USE Bounds DEF Inv, Crash
<1>1. SourceInv'
    <2>1. NoSource \notin Indexes
        BY DEF NoSource
    <2> QED
        BY <2>1 DEF SourceInv, Enumerations, Observations
<1>2. TypeOK'
    <2>1. access' \in [Threads -> Accessing]
        BY DEF NoAccess, Accessing
    <2> QED
        BY <2>1, <1>1 DEF TypeOK, SourceInv, Enumerations, Accessing, NotConfirming, Unbound
<1>3. SaveInv'
    BY DEF SaveInv, Distinct, NotConfirming
<1>4. HoldInv' /\ TestInv'
    BY DEF HoldInv, TestInv, NoAccess, Holding, Capturing
<1> QED
    BY <1>1, <1>2, <1>3, <1>4

-----------------------------------------------------------------------------
(* The steps of an access: what it changes of its own thread.               *)

LEMMA BeginHolds ==
    ASSUME NEW t \in Threads, NEW role \in Roles \cup {"none"}, NEW c \in Cameras,
           Inv, Begin(t, role, c)
    PROVE  Inv'
<1> USE Bounds DEF Inv, Begin, OfService, Available
<1>1. /\ access \in [Threads -> Accessing]
      /\ access' = [access EXCEPT ![t] =
             [pc |-> "handoff", role |-> role, camera |-> c, ok |-> FALSE,
              index |-> snapshot[c], generation |-> generation]]
    BY DEF TypeOK, Accessing
<1>2. TypeOK'
    <2>1. access' \in [Threads -> Accessing]
        BY <1>1 DEF Accessing, TypeOK
    <2> QED
        BY <2>1 DEF TypeOK, Accessing
<1>3. SaveInv' /\ SourceInv'
    BY DEF SaveInv, SourceInv, Distinct
<1>4. access'[t].pc = "handoff" /\ \A u \in Threads \ {t} : access'[u] = access[u]
    BY <1>1
<1>5. HoldInv'
    BY <1>4 DEF HoldInv, Holding, Capturing
<1>6. TestInv'
    BY <1>1, <1>4 DEF TestInv, TypeOK
<1> QED
    BY <1>2, <1>3, <1>5, <1>6

\* What an access still under way changes of its record, and what it must bring.
Moves(t, next) ==
    /\ access' = [access EXCEPT ![t] = next] /\ next \in Accessing
    /\ next.pc # "idle" =>
         /\ <<next.camera, next.index, next.generation, next.role>> =
              <<access[t].camera, access[t].index, access[t].generation, access[t].role>>
         /\ access[t].pc # "idle"
    /\ next.pc = "tested" => next.role \in Roles

\* What is typed, saved and tested does not depend on who holds a camera.
LEMMA MovesKeep ==
    ASSUME NEW t \in Threads, NEW next, Inv, Moves(t, next),
           handedOff' \subseteq Cameras, leased' \subseteq Cameras,
           UNCHANGED <<plugged, snapshot, generation, bindings, file, confirming>>,
           \/ UNCHANGED evidence
           \/ /\ evidence' = evidence \cup {EvidenceOf(t, generation)}
              /\ access[t].pc = "tested" /\ access[t].generation = generation
    PROVE  TypeOK' /\ SaveInv' /\ SourceInv' /\ TestInv'
<1> USE Bounds DEF Inv, Moves
<1>1. access \in [Threads -> Accessing] /\ access' \in [Threads -> Accessing]
    BY DEF TypeOK, Accessing
<1>2. SaveInv' /\ SourceInv'
    BY DEF SaveInv, SourceInv, Distinct
<1>3. access'[t] = next /\ \A u \in Threads \ {t} : access'[u] = access[u]
    BY <1>1
<1>4. ASSUME access[t].pc = "tested", access[t].generation = generation
      PROVE  /\ EvidenceOf(t, generation) \in Evidence
             /\ EvidenceOf(t, generation).generation = generation
             /\ EvidenceOf(t, generation).index = snapshot[EvidenceOf(t, generation).camera]
    BY <1>4 DEF EvidenceOf, Evidence, TestInv, TypeOK
<1>5. TypeOK'
    BY <1>1, <1>4 DEF TypeOK, Accessing
<1>6. TestInv'
    <2>1. \A e \in evidence' :
            e.generation <= generation'
              /\ (e.generation = generation' => e.index = snapshot'[e.camera])
        BY <1>4 DEF TestInv, TypeOK
    <2>2. ASSUME NEW u \in Threads, access'[u].pc # "idle"
          PROVE  /\ access'[u].generation <= generation' /\ access'[u].generation > 0
                 /\ access'[u].camera \in Cameras /\ access'[u].index \in Indexes
                 /\ access'[u].generation = generation'
                      => access'[u].index = snapshot'[access'[u].camera]
        <3>1. /\ access'[u].generation = access[u].generation
              /\ access'[u].camera = access[u].camera /\ access'[u].index = access[u].index
              /\ access[u].pc # "idle"
            BY <1>3, <2>2
        <3> QED
            BY <3>1 DEF TestInv
    <2>3. \A u \in Threads : access'[u].pc = "tested" => access'[u].role \in Roles
        BY <1>3 DEF TestInv
    <2> QED
        BY <2>1, <2>2, <2>3 DEF TestInv
<1> QED
    BY <1>2, <1>5, <1>6

LEMMA NoAccessTyped == NoAccess \in Accessing /\ NoAccess.pc = "idle"
BY Bounds DEF NoAccess, Accessing

LEMMA AccessesHold == ASSUME NEW t \in Threads, Inv, Accesses(t) PROVE Inv'
<1> USE DEF Inv
<1>1. /\ access \in [Threads -> Accessing] /\ access[t] \in Accessing
      /\ handedOff \subseteq Cameras /\ leased \subseteq Cameras
    BY DEF TypeOK, Accessing
<1>2. CASE \E c \in Cameras : Preview(t, c) \/ \E role \in Roles : Test(t, role, c)
    BY <1>2, BeginHolds DEF Preview, Test
<1>3. CASE HandOffFails(t)
    <2> USE <1>3 DEF HandOffFails, OfService
    <2>1. Moves(t, NoAccess)
        BY NoAccessTyped DEF Moves
    <2>2. TypeOK' /\ SaveInv' /\ SourceInv' /\ TestInv'
        BY <1>1, <2>1, MovesKeep
    <2>3. HoldInv'
        BY <1>1, NoAccessTyped DEF HoldInv, Holding, Capturing
    <2> QED
        BY <2>2, <2>3
<1>4. CASE HandOff(t)
    <2> USE <1>4 DEF HandOff, OfService
    <2> DEFINE next == [access[t] EXCEPT !.pc = "lease"]
    <2>1. Moves(t, next)
        BY <1>1 DEF Moves, Accessing
    <2>2. access[t].camera \in Cameras
        BY DEF TestInv
    <2>3. TypeOK' /\ SaveInv' /\ SourceInv' /\ TestInv'
        BY <1>1, <2>1, <2>2, MovesKeep
    <2>4. /\ access'[t].pc = "lease" /\ access'[t].camera = access[t].camera
          /\ \A u \in Threads \ {t} : access'[u] = access[u]
        BY <1>1 DEF Accessing
    <2>5. HoldInv'
        BY <2>4 DEF HoldInv, Holding, Capturing
    <2> QED
        BY <2>3, <2>5
<1>5. CASE Lease(t)
    <2> USE <1>5 DEF Lease, OfService
    <2> DEFINE next == [access[t] EXCEPT !.pc = "capture"]
    <2>1. Moves(t, next)
        BY <1>1 DEF Moves, Accessing
    <2>2. access[t].camera \in Cameras
        BY DEF TestInv
    <2>3. TypeOK' /\ SaveInv' /\ SourceInv' /\ TestInv'
        BY <1>1, <2>1, <2>2, MovesKeep
    <2>4. /\ access'[t].pc = "capture" /\ access'[t].camera = access[t].camera
          /\ \A u \in Threads \ {t} : access'[u] = access[u]
        BY <1>1 DEF Accessing
    <2>5. HoldInv'
        BY <2>4 DEF HoldInv, Holding, Capturing
    <2> QED
        BY <2>3, <2>5
<1>6. CASE Capture(t)
    <2> USE <1>6 DEF Capture, OfService
    <2>0. PICK ok \in BOOLEAN :
           access' = [access EXCEPT ![t].pc = "release", ![t].ok = ok]
        OBVIOUS
    <2> DEFINE next == [access[t] EXCEPT !.pc = "release", !.ok = ok]
    <2>1. Moves(t, next)
        BY <1>1, <2>0 DEF Moves, Accessing
    <2>2. TypeOK' /\ SaveInv' /\ SourceInv' /\ TestInv'
        BY <1>1, <2>1, MovesKeep
    <2>3. /\ access'[t].pc = "release" /\ access'[t].camera = access[t].camera
          /\ \A u \in Threads \ {t} : access'[u] = access[u]
          /\ access[t].pc = "capture" /\ UNCHANGED <<handedOff, leased>>
        BY <1>1, <2>0 DEF Accessing
    <2> HIDE <1>6 DEF Capture
    <2>4. HoldInv'
        BY <2>3 DEF HoldInv, Holding, Capturing
    <2> QED
        BY <2>2, <2>4
<1>7. CASE Release(t)
    <2> USE <1>7 DEF Release, OfService
    <2> DEFINE next == [access[t] EXCEPT !.pc = "resume"]
    <2>1. Moves(t, next)
        BY <1>1 DEF Moves, Accessing
    <2>2. TypeOK' /\ SaveInv' /\ SourceInv' /\ TestInv'
        BY <1>1, <2>1, MovesKeep
    <2>3. /\ access'[t].pc = "resume" /\ access'[t].camera = access[t].camera
          /\ \A u \in Threads \ {t} : access'[u] = access[u]
        BY <1>1 DEF Accessing
    <2>4. HoldInv'
        BY <2>3 DEF HoldInv, Holding, Capturing
    <2> QED
        BY <2>2, <2>4
<1>8. CASE Resume(t)
    <2> USE <1>8 DEF Resume, OfService
    <2> DEFINE next == IF access[t].ok /\ access[t].role \in Roles
                       THEN [access[t] EXCEPT !.pc = "tested"] ELSE NoAccess
    <2>1. next \in Accessing /\ next.pc \in {"tested", "idle"}
        BY <1>1, NoAccessTyped DEF Accessing
    <2>2. Moves(t, next)
        BY <1>1, <2>1, NoAccessTyped DEF Moves, Accessing
    <2>3. TypeOK' /\ SaveInv' /\ SourceInv' /\ TestInv'
        BY <1>1, <2>2, MovesKeep
    <2>4. /\ access'[t].pc \in {"tested", "idle"}
          /\ \A u \in Threads \ {t} : access'[u] = access[u]
        BY <1>1, <2>1
    <2>5. HoldInv'
        BY <2>4 DEF HoldInv, Holding, Capturing
    <2> QED
        BY <2>3, <2>5
<1>9. CASE Tested(t)
    <2> USE <1>9 DEF Tested
    <2>1. Moves(t, NoAccess)
        BY NoAccessTyped DEF Moves
    <2>2. \/ UNCHANGED evidence
          \/ /\ evidence' = evidence \cup {EvidenceOf(t, generation)}
             /\ access[t].pc = "tested" /\ access[t].generation = generation
        OBVIOUS
    <2>3. TypeOK' /\ SaveInv' /\ SourceInv' /\ TestInv'
        BY <1>1, <2>1, <2>2, MovesKeep
    <2>4. HoldInv'
        BY <1>1, NoAccessTyped DEF HoldInv, Holding, Capturing
    <2> QED
        BY <2>3, <2>4
<1> QED
    BY <1>2, <1>3, <1>4, <1>5, <1>6, <1>7, <1>8, <1>9 DEF Accesses

-----------------------------------------------------------------------------
LEMMA StepHolds == Inv /\ [Next]_vars => Inv'
<1>1. ASSUME Inv, UNCHANGED vars PROVE Inv'
    BY <1>1 DEF vars, Inv, TypeOK, SaveInv, SourceInv, HoldInv, TestInv, Distinct
<1>2. ASSUME Inv, Next PROVE Inv'
    BY <1>2, ReplugHolds, RefreshHolds, CrashHolds, ConfirmHolds, SavingHolds,
       AccessesHold, ExpireHolds DEF Next, Confirmation
<1> QED
    BY <1>1, <1>2

\* Who the cameras are, what the store says of it, who holds them and what a
\* test is worth agree in every reachable state.
THEOREM InvHolds == Spec => []Inv
BY InitHolds, StepHolds, PTL DEF Spec

\* The file, the service and the cameras never contradict each other: no camera
\* serves both roles, and no source does while both are ready.
THEOREM BindingInvHolds == Spec => []BindingInv
<1>1. Inv => BindingInv
    <2> SUFFICES ASSUME Inv PROVE BindingInv
        OBVIOUS
    <2>1. RolesDistinct /\ MemoryIsStore
        BY DEF Inv, SaveInv, Distinct, RolesDistinct, MemoryIsStore
    <2>2. ASSUME NEW r \in Roles, NEW s \in Roles, r # s, Ready(r), Ready(s)
          PROVE  snapshot[bindings[r]] # snapshot[bindings[s]]
        <3>1. bindings[r] \in Cameras /\ bindings[s] \in Cameras /\ bindings[r] # bindings[s]
            BY <2>2 DEF Inv, TypeOK, Ready
        <3> QED
            BY <3>1, <2>2 DEF Inv, SourceInv, Enumerations, Ready
    <2> QED
        BY <2>1, <2>2 DEF BindingInv, SourcesDistinct, Inv
<1> QED
    BY <1>1, InvHolds, PTL

\* Handoffs and leases belong to requests in progress, and no camera is captured
\* by two of them.
THEOREM HeldInUseHolds == Spec => []HeldInUse
<1>1. Inv => HeldInUse
    BY DEF Inv, HoldInv, HeldInUse, Holding, Capturing
<1> QED
    BY <1>1, InvHolds, PTL

\* A role is bound by a test of its own that saw the source now shown, and the
\* test is spent by it.
THEOREM ConfirmedAsTestedHolds == Spec => ConfirmedAsTested
<1> DEFINE Step ==
      \A role \in Roles :
         /\ confirming.pc = "none" /\ confirming'.pc = "writing"
         /\ confirming'.next[role] # file[role]
         => \E e \in evidence :
              /\ e.role = role /\ e.camera = confirming'.next[role]
              /\ e.index = snapshot[e.camera] /\ e \notin evidence'
<1>1. ASSUME Inv, [Next]_vars PROVE [Step]_vars
    <2>1. SUFFICES ASSUME NEW role \in Roles,
                          confirming.pc = "none", confirming'.pc = "writing",
                          confirming'.next[role] # file[role]
                   PROVE  \E e \in evidence :
                            /\ e.role = role /\ e.camera = confirming'.next[role]
                            /\ e.index = snapshot[e.camera] /\ e \notin evidence'
        OBVIOUS
    <2>2. PICK r \in Roles, c \in Cameras, e \in evidence : Confirm(r, c, e)
        <3>1. CASE Replug \/ Refresh \/ Crash \/ UNCHANGED vars
            BY <2>1, <3>1 DEF Replug, Refresh, Crash, OfService, NotConfirming, vars
        <3>2. CASE Confirmation
            BY <2>1, <3>2 DEF Confirmation, Replace, SaveFails, Confirmed
        <3>3. CASE \E t \in Threads : Accesses(t)
            <4> PICK t \in Threads : Accesses(t)
                BY <3>3
            <4>1. UNCHANGED confirming
                BY DEF Accesses, Preview, Test, Begin, HandOffFails, HandOff, Lease,
                   Capture, Release, Resume, Tested, OfService
            <4> QED
                BY <2>1, <4>1
        <3>4. CASE \E e \in evidence : Expire(e)
            BY <2>1, <3>4 DEF Expire
        <3> QED
            BY <1>1, <3>1, <3>2, <3>3, <3>4 DEF Next
    <2>3. confirming' = [pc |-> "writing", next |-> [file EXCEPT ![r] = c]]
        BY <2>1, <2>2 DEF Confirm
    <2>4. r = role /\ confirming'.next[role] = c
        BY <1>1, <2>1, <2>3 DEF Inv, TypeOK
    <2>5. e.role = role /\ e.camera = c /\ e.index = snapshot[c] /\ e \notin evidence'
        BY <1>1, <2>2, <2>4 DEF Confirm, Fits, Inv, TestInv
    <2> QED
        BY <2>4, <2>5
<1> QED
    BY <1>1, InvHolds, PTL DEF Spec, ConfirmedAsTested

=============================================================================
