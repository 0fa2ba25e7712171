------------------------- MODULE CameraMaintenance -------------------------
(***************************************************************************)
(* Which camera serves which role: the maintenance service of              *)
(* src/vision/camera_binding.py, which enumerates candidates, previews and *)
(* tests them, and confirms a tested candidate for a role; the file that   *)
(* keeps the bindings; the leases of its captures.  A maintenance handoff  *)
(* takes the camera from the runtime, as CameraBroker shows; here it is    *)
(* the set of candidates handed off.                                       *)
(***************************************************************************)
EXTENDS Integers, FiniteSets

CONSTANTS
    Cameras,         \* stable identities
    Indexes,         \* DirectShow indexes, the sources one can open
    Threads,         \* threads that serve maintenance requests
    NoCamera,        \* a role without a binding
    MaxGenerations,  \* enumerations
    MaxTests,        \* role tests that succeed
    MaxPreviews,     \* captures for a preview
    MaxReplugs,      \* changes of what is plugged in
    MaxCrashes       \* restarts of the service

ASSUME CameraMaintenanceAssumption ==
    /\ Indexes \subseteq Nat /\ NoCamera \notin Cameras
    /\ MaxGenerations \in Nat /\ MaxTests \in Nat /\ MaxPreviews \in Nat
    /\ MaxReplugs \in Nat /\ MaxCrashes \in Nat

VARIABLES
    plugged,     \* what an enumeration observes of each camera
    snapshot,    \* _snapshot, the candidates of the last enumeration
    generation,  \* _generation
    evidence,    \* _evidence: tests neither used nor expired
    bindings,    \* _bindings, the service's copy
    file,        \* the binding store
    confirming,  \* the confirmation that holds the locks, and where it is
    access,      \* for each thread its preview or test
    handedOff,   \* candidates under a runtime handoff
    leased,      \* CameraLeaseRegistry._owners
    spent        \* counters of the bounds

vars == <<plugged, snapshot, generation, evidence, bindings, file, confirming,
          access, handedOff, leased, spent>>

Roles == {"top", "front"}
\* No source to open: not seen, seen twice, or its index is not proven.
NoSource == -1
Observations == Indexes \cup {NoSource}

\* One enumeration never proves the same index for two cameras.
Enumerations ==
    {o \in [Cameras -> Observations] :
        \A c, d \in Cameras : c # d /\ o[c] \in Indexes => o[c] # o[d]}

Unbound == [role \in Roles |-> NoCamera]
NoAccess == [pc |-> "idle", role |-> "none", camera |-> NoCamera,
             index |-> NoSource, generation |-> 0, ok |-> FALSE]
NotConfirming == [pc |-> "none", next |-> Unbound]

Init ==
    /\ plugged \in Enumerations /\ \A c \in Cameras : plugged[c] \in Indexes
    /\ snapshot = [c \in Cameras |-> NoSource] /\ generation = 0
    /\ evidence = {} /\ bindings = Unbound
    /\ file = Unbound
    /\ confirming = NotConfirming
    /\ access = [t \in Threads |-> NoAccess]
    /\ handedOff = {} /\ leased = {}
    /\ spent = [tests |-> 0, previews |-> 0, replugs |-> 0, crashes |-> 0]

Spend(what) == spent' = [spent EXCEPT ![what] = @ + 1]
Unlocked == confirming.pc = "none"
OfService == <<snapshot, generation, evidence, bindings, file, confirming>>
OfAccess == <<access, handedOff, leased>>

-----------------------------------------------------------------------------
Replug ==
    /\ spent.replugs < MaxReplugs /\ Spend("replugs")
    /\ plugged' \in Enumerations \ {plugged}
    /\ UNCHANGED <<OfService, OfAccess>>

Observed == snapshot' = plugged

\* By request, after a failed read of the runtime, or before the first use.
Refresh ==
    /\ Unlocked /\ generation < MaxGenerations
    /\ Observed /\ generation' = generation + 1
    /\ UNCHANGED <<plugged, evidence, bindings, file, confirming, OfAccess, spent>>

\* _candidate: exactly one candidate of that identity, with a proven source.
Available(c) == generation > 0 /\ snapshot[c] \in Indexes

-----------------------------------------------------------------------------
(* Preview and test.  The candidate is taken from the snapshot under the    *)
(* lock; the handoff, the lease and the capture run without it.             *)

Begin(t, role, c) ==
    /\ access[t].pc = "idle" /\ Unlocked /\ Available(c)
    /\ access' = [access EXCEPT ![t] =
           [pc |-> "handoff", role |-> role, camera |-> c, ok |-> FALSE,
            index |-> snapshot[c], generation |-> generation]]
    /\ UNCHANGED <<plugged, OfService, handedOff, leased>>

Preview(t, c) ==
    /\ spent.previews < MaxPreviews /\ Spend("previews") /\ Begin(t, "none", c)

Test(t, role, c) ==
    /\ spent.tests < MaxTests /\ Spend("tests") /\ Begin(t, role, c)

\* Another handoff of the candidate is active, or the runtime keeps it.
HandOffFails(t) ==
    /\ access[t].pc = "handoff"
    /\ access' = [access EXCEPT ![t] = NoAccess]
    /\ UNCHANGED <<plugged, OfService, handedOff, leased, spent>>

HandOff(t) ==
    /\ access[t].pc = "handoff" /\ access[t].camera \notin handedOff
    /\ handedOff' = handedOff \cup {access[t].camera}
    /\ access' = [access EXCEPT ![t].pc = "lease"]
    /\ UNCHANGED <<plugged, OfService, leased, spent>>

Lease(t) ==
    /\ access[t].pc = "lease" /\ access[t].camera \notin leased
    /\ leased' = leased \cup {access[t].camera}
    /\ access' = [access EXCEPT ![t].pc = "capture"]
    /\ UNCHANGED <<plugged, OfService, handedOff, spent>>

\* Slip: a capture that fails does not give its lease back.
CaptureWithoutFinally(t) ==
    /\ access[t].pc = "capture"
    /\ \E ok \in BOOLEAN :
           access' = [access EXCEPT ![t].pc = IF ok THEN "release" ELSE "resume",
                                    ![t].ok = ok]
    /\ UNCHANGED <<plugged, OfService, handedOff, leased, spent>>

\* The source opens and gives a frame, or something on the way fails.
Capture(t) ==
    /\ access[t].pc = "capture"
    /\ \E ok \in BOOLEAN :
           access' = [access EXCEPT ![t].pc = "release", ![t].ok = ok]
    /\ UNCHANGED <<plugged, OfService, handedOff, leased, spent>>

Release(t) ==
    /\ access[t].pc = "release"
    /\ leased' = leased \ {access[t].camera}
    /\ access' = [access EXCEPT ![t].pc = "resume"]
    /\ UNCHANGED <<plugged, OfService, handedOff, spent>>

Resume(t) ==
    /\ access[t].pc = "resume"
    /\ handedOff' = handedOff \ {access[t].camera}
    /\ access' = [access EXCEPT ![t] =
           IF @.ok /\ @.role \in Roles THEN [@ EXCEPT !.pc = "tested"]
                                       ELSE NoAccess]
    /\ UNCHANGED <<plugged, OfService, leased, spent>>

EvidenceOf(t, current) ==
    [role |-> access[t].role, camera |-> access[t].camera,
     index |-> access[t].index, generation |-> current]

\* Slip: the test counts for the generation that is current when it ends.
TestedAnyway(t) ==
    /\ access[t].pc = "tested" /\ Unlocked
    /\ evidence' = evidence \cup {EvidenceOf(t, generation)}
    /\ access' = [access EXCEPT ![t] = NoAccess]
    /\ UNCHANGED <<plugged, snapshot, generation, bindings, file, confirming,
                   handedOff, leased, spent>>

\* The test only counts if no enumeration came in between.
Tested(t) ==
    /\ access[t].pc = "tested" /\ Unlocked
    /\ evidence' = IF generation = access[t].generation
                   THEN evidence \cup {EvidenceOf(t, generation)} ELSE evidence
    /\ access' = [access EXCEPT ![t] = NoAccess]
    /\ UNCHANGED <<plugged, snapshot, generation, bindings, file, confirming,
                   handedOff, leased, spent>>

\* 120 seconds pass.
Expire(e) ==
    /\ evidence' = evidence \ {e}
    /\ UNCHANGED <<plugged, snapshot, generation, bindings, file, confirming,
                   OfAccess, spent>>

-----------------------------------------------------------------------------
(* Confirmation, under the mutation lock and the service's lock.            *)

Fits(e, role, c) ==
    e.role = role /\ e.camera = c /\ e.generation = generation

\* Slip: only the order of the roles is looked at.
BoundBefore(now, role, c) == role = "top" /\ now["front"] = c

BoundElsewhere(now, role, c) ==
    \E other \in Roles \ {role} : now[other] = c

\* The evidence is spent whether or not the rest succeeds.  The new content goes
\* to a temporary file first.
Confirm(role, c, e) ==
    /\ Unlocked /\ Available(c) /\ Fits(e, role, c)
    /\ evidence' = evidence \ {e}
    /\ confirming' = IF BoundElsewhere(file, role, c) THEN confirming
                     ELSE [pc |-> "writing", next |-> [file EXCEPT ![role] = c]]
    /\ UNCHANGED <<plugged, snapshot, generation, bindings, file, OfAccess, spent>>

Replace ==
    /\ confirming.pc = "writing"
    /\ file' = confirming.next
    /\ confirming' = [confirming EXCEPT !.pc = "replaced"]
    /\ UNCHANGED <<plugged, snapshot, generation, evidence, bindings, OfAccess,
                   spent>>

SaveFails ==
    /\ confirming.pc = "writing" /\ confirming' = NotConfirming
    /\ UNCHANGED <<plugged, snapshot, generation, evidence, bindings, file,
                   OfAccess, spent>>

Confirmed ==
    /\ confirming.pc = "replaced"
    /\ bindings' = confirming.next /\ confirming' = NotConfirming
    /\ UNCHANGED <<plugged, snapshot, generation, evidence, file, OfAccess,
                   spent>>

\* The process dies and starts anew: only the file is left.
Crash ==
    /\ spent.crashes < MaxCrashes /\ Spend("crashes")
    /\ snapshot' = [c \in Cameras |-> NoSource] /\ generation' = 0
    /\ evidence' = {} /\ bindings' = file
    /\ confirming' = NotConfirming
    /\ access' = [t \in Threads |-> NoAccess]
    /\ handedOff' = {} /\ leased' = {}
    /\ UNCHANGED <<plugged, file>>

-----------------------------------------------------------------------------
Accesses(t) ==
    \/ \E c \in Cameras : Preview(t, c) \/ \E role \in Roles : Test(t, role, c)
    \/ HandOffFails(t) \/ HandOff(t) \/ Lease(t) \/ Capture(t)
    \/ Release(t) \/ Resume(t) \/ Tested(t)

Confirmation ==
    \/ \E role \in Roles, c \in Cameras, e \in evidence : Confirm(role, c, e)
    \/ Replace \/ SaveFails \/ Confirmed

Next ==
    \/ Replug \/ Refresh \/ Crash \/ Confirmation
    \/ \E t \in Threads : Accesses(t)
    \/ \E e \in evidence : Expire(e)

Spec == Init /\ [][Next]_vars

-----------------------------------------------------------------------------
\* _role_status: the role is bound, and its camera observed with a source.
Ready(role) ==
    /\ bindings[role] # NoCamera
    /\ \A other \in Roles \ {role} : bindings[other] # bindings[role]
    /\ snapshot[bindings[role]] \in Indexes

Evidence == [role : Roles, camera : Cameras, index : Indexes,
             generation : 1..MaxGenerations]

TypeOK ==
    /\ plugged \in Enumerations /\ snapshot \in [Cameras -> Observations]
    /\ generation \in 0..MaxGenerations
    /\ evidence \subseteq Evidence
    /\ {bindings, file} \subseteq [Roles -> Cameras \cup {NoCamera}]
    /\ confirming \in [pc : {"none", "writing", "replaced"},
                       next : [Roles -> Cameras \cup {NoCamera}]]
    /\ access \in [Threads ->
            [pc : {"idle", "handoff", "lease", "capture", "release", "resume",
                   "tested"},
             role : Roles \cup {"none"}, camera : Cameras \cup {NoCamera},
             index : Indexes \cup {NoSource}, generation : 0..MaxGenerations,
             ok : BOOLEAN]]
    /\ handedOff \subseteq Cameras /\ leased \subseteq Cameras

\* No camera is ever confirmed for both roles, through failed saves, restarts
\* and confirmations of tests that ran side by side.
RolesDistinct ==
    \A r, s \in Roles : r # s /\ file[r] # NoCamera => file[r] # file[s]

\* The two roles of a ready system never open the same source, however the
\* cameras are plugged about.
SourcesDistinct ==
    \A r, s \in Roles : r # s /\ Ready(r) /\ Ready(s) =>
        snapshot[bindings[r]] # snapshot[bindings[s]]

\* What the service answers from is what a restart would load.
MemoryIsStore == confirming.pc # "replaced" => bindings = file

\* Store, memory and cameras agree on who is what, through failed saves, crashes
\* and cameras that are plugged about.
BindingInv == TypeOK /\ RolesDistinct /\ SourcesDistinct /\ MemoryIsStore

\* A handoff and a lease belong to one request in progress: an access that
\* failed half-way keeps neither from the runtime.
HeldInUse ==
    /\ \A c \in handedOff : \E t \in Threads : access[t].camera = c
    /\ \A c \in leased : \E t \in Threads :
           access[t].camera = c /\ access[t].pc \in {"capture", "release"}
    /\ \A t, u \in Threads : t # u /\ access[t].pc = "capture"
           /\ access[u].pc = "capture" => access[t].camera # access[u].camera

\* A role is only bound by a test of its own, spent by this confirmation, whose
\* frame came from the source that the present enumeration shows for the camera.
ConfirmedAsTested ==
    [][\A role \in Roles :
         /\ confirming.pc = "none" /\ confirming'.pc = "writing"
         /\ confirming'.next[role] # file[role]
         => \E e \in evidence :
              /\ e.role = role /\ e.camera = confirming'.next[role]
              /\ e.index = snapshot[e.camera] /\ e \notin evidence']_vars
=============================================================================
