-------------------------- MODULE AcquisitionProofs --------------------------
(***************************************************************************)
(* What Acquisition.cfg checks on a few attempts, frames and readers holds *)
(* of any number of them, and of every bound.                              *)
(*                                                                         *)
(* The invariant says, beside the types, at which places of the session    *)
(* what it has taken is still its own: the I/O lane and the producer       *)
(* (LaneInv), the lease (LeaseInv), the frame it took, had observed and    *)
(* captured (SessionInv), the facts that wait to be told (FactsInv) and    *)
(* the preview (PreviewInv of Acquisition, which is inductive with them).  *)
(***************************************************************************)
EXTENDS Acquisition, SequenceTheorems, TLAPS

\* The places where the producer is at work, and where the lease is held.
Under == Running \cup {"stop", "join"}
Leasing == Under \cup {"natural", "draining", "release"}

(* TypeOK, variable by variable.                                              *)

Codes == Running \cup Closing \cup
         {"idle", "lane", "stop", "join", "release", "quiet", "revoke"}
FrameOrNone == Frames \cup {NoFrame}
AttemptOrNone == Attempts \cup {NoAttempt}

ProfileOK == profile \in [pc : {"idle", "owner", "lane", "sequence", "release"},
                          samples : 0..MaxSamples]
SessionOK == session \in [at : AttemptOrNone, pc : Codes, late : BOOLEAN,
                          consumed : FrameOrNone, observed : FrameOrNone,
                          eligible : BOOLEAN, stable : {"off", "on", "held"},
                          qualified : FrameOrNone, captured : FrameOrNone,
                          errors : BOOLEAN]
ProducerOK == producer \in [pc : {"none", "loop", "reading", "aborting", "ended"},
                            sequence : FrameOrNone, latest : FrameOrNone,
                            changed : BOOLEAN, opened : BOOLEAN, failed : BOOLEAN]
PreviewOK == preview \in [snapshot : [of : AttemptOrNone, jpeg : FrameOrNone],
                          stubborn : BOOLEAN]
ReaderOK == /\ reader \in [Readers ->
                  [pc : {"none", "leased", "sending", "waiting", "cancelled", "gone"},
                   of : AttemptOrNone, jpeg : FrameOrNone, task : BOOLEAN]]
            /\ leases \subseteq Readers
OwnersOK == /\ lease \in Attempts \cup {Idle, Vision}
            /\ lane \in {"free", "loop", "profile"}
            /\ observer \in {"free", "busy"}
LeftOK ==
    left \in [attempts : 0..MaxAttempts, cancels : Int, profiles : Int, expiries : Int,
              requests : Int, ticks : Int]

\* The lane has one holder, the thread or the producer that reads.
LaneInv ==
    /\ lane = "profile" <=> profile.pc = "sequence"
    /\ lane = "loop" <=> producer.pc \in {"reading", "aborting"}
    /\ profile.samples > 0 => profile.pc = "sequence"
    /\ producer.pc # "none" <=> session.pc \in Under
    /\ producer.latest = producer.sequence
    /\ producer.pc = "reading" => producer.sequence < MaxFrames
    /\ producer.pc = "none" => producer = NoProducer

\* An attempt owns the lease, if any attempt does, only until it releases it.
LeaseInv ==
    /\ session.pc # "idle" => session.at \in Attempts
    /\ lease \in Attempts => lease = session.at /\ session.pc \in Leasing
    /\ session.pc \in Leasing /\ ~session.late => lease = session.at
    /\ profile.samples > 0 => lease \notin Attempts

\* Frames go from the producer to the observer to the photograph.
SessionInv ==
    /\ session.pc \in {"idle", "lane"} =>
          session.consumed = NoFrame /\ session.observed = NoFrame
    /\ session.pc \in Running \cup {"idle", "lane"} => session.captured = NoFrame
    /\ session.captured # NoFrame => session.eligible /\ session.captured = session.consumed
    /\ session.pc \in {"telling", "deciding"} =>
          /\ session.qualified \in {NoFrame, session.consumed}
          /\ session.qualified # NoFrame => session.eligible
    /\ session.pc \in Under => session.consumed <= producer.latest
    /\ session.observed <= session.consumed
    /\ session.pc \in {"telling", "deciding"} => session.observed = session.consumed

\* At most one fact of each teller waits: the session's is the newest frame
\* observed, the ticker's one between it and the last that was told.
Main(f) == [by |-> "main", fact |-> f]
Ticker(f) == [by |-> "ticker", fact |-> f]

Queues ==
    IF session.pc = "telling"
    THEN IF facts.ticker = "queued"
         THEN UNION {{<<Ticker(f), Main(session.observed)>> : f \in facts.told .. session.observed},
                     {<<Main(session.observed), Ticker(session.observed)>>}}
         ELSE {<<Main(session.observed)>>}
    ELSE IF facts.ticker = "queued"
         THEN {<<Ticker(f)>> : f \in facts.told .. session.observed}
         ELSE {<<>>}

FactsInv ==
    /\ facts \in [queue : Queues, ticker : {"none", "asleep", "queued"},
                  told : 0..session.observed]
    /\ session.pc \notin Running \cup {"stop"} => facts = NoFacts

Typed ==
    /\ ProfileOK /\ SessionOK /\ ProducerOK /\ PreviewOK /\ ReaderOK /\ OwnersOK
    /\ LeftOK

IInv == Typed /\ LaneInv /\ LeaseInv /\ SessionInv /\ FactsInv /\ PreviewInv

-----------------------------------------------------------------------------
(* What a step leaves alone stays as it is.                                   *)

LEMMA TypedFrame ==
    ASSUME Typed
    PROVE  /\ UNCHANGED profile => ProfileOK'
           /\ UNCHANGED session => SessionOK'
           /\ UNCHANGED producer => ProducerOK'
           /\ UNCHANGED preview => PreviewOK'
           /\ UNCHANGED <<reader, leases>> => ReaderOK'
           /\ UNCHANGED left => LeftOK'
           /\ UNCHANGED <<lease, lane, observer>> => OwnersOK'
BY DEF Typed, ProfileOK, SessionOK, ProducerOK, PreviewOK, ReaderOK, LeftOK, OwnersOK

LEMMA LaneFrame ==
    ASSUME LaneInv, UNCHANGED <<lane, profile, producer>>,
           session'.pc \in Under <=> session.pc \in Under
    PROVE  LaneInv'
BY DEF LaneInv

LEMMA LeaseFrame ==
    ASSUME LeaseInv, UNCHANGED <<lease, profile>>, session'.at = session.at,
           session.late => session'.late, session.pc # "idle",
           session'.pc \in Leasing <=> session.pc \in Leasing
    PROVE  LeaseInv'
BY DEF LeaseInv

LEMMA FactsFrame ==
    ASSUME FactsInv, UNCHANGED facts, session'.observed = session.observed,
           session'.pc = "telling" <=> session.pc = "telling",
           session.pc \in Running \cup {"stop"} => session'.pc \in Running \cup {"stop"}
    PROVE  FactsInv'
BY DEF FactsInv, Queues, Main, Ticker

LEMMA PreviewFrame ==
    ASSUME Typed, PreviewInv, UNCHANGED <<preview, leases>>,
           \/ UNCHANGED reader
           \/ \A r \in Readers :
                 /\ reader'[r].of = reader[r].of /\ reader'[r].task = reader[r].task
                 /\ \/ reader'[r].pc = reader[r].pc
                    \/ reader[r].task /\ reader'[r].pc = "cancelled",
           session.pc \in Under => session'.at = session.at /\ session'.pc \in Under
    PROVE  PreviewInv'
<1>1. leases \subseteq Readers
  BY DEF Typed, ReaderOK
<1>2. RefusedForPlaces'
  BY DEF PreviewInv, RefusedForPlaces
<1>3. PreviewOfReader' /\ OneAudience'
  BY <1>1 DEF PreviewInv, PreviewOfReader, OneAudience, Under
<1> QED
  BY <1>2, <1>3 DEF PreviewInv

LEMMA SessionFrame ==
    ASSUME IInv, UNCHANGED <<session, producer>>
    PROVE  SessionInv'
BY DEF IInv, SessionInv

(* What the fields of a session range over.                                   *)
LEMMA SessionFields ==
    ASSUME SessionOK
    PROVE  /\ session.pc \in Codes /\ session.at \in AttemptOrNone
           /\ session.late \in BOOLEAN /\ session.errors \in BOOLEAN
           /\ session.eligible \in BOOLEAN /\ session.stable \in {"off", "on", "held"}
           /\ {session.consumed, session.observed, session.qualified, session.captured}
                 \subseteq FrameOrNone
BY DEF SessionOK

LEMMA Constants ==
    /\ FrameOrNone \subseteq Nat /\ NoFrame = 0 /\ NoFrame \in FrameOrNone
    /\ \A f \in FrameOrNone : f <= MaxFrames
    /\ Idle \notin Attempts /\ Vision \notin Attempts /\ Idle # Vision
    /\ NoAttempt \notin Attempts /\ Attempts \subseteq Nat
BY AcquisitionAssumption
   DEF FrameOrNone, Frames, NoFrame, Attempts, Idle, Vision, NoAttempt

LEMMA InitHolds == Init => IInv
<1> SUFFICES ASSUME Init PROVE IInv
  OBVIOUS
<1> USE AcquisitionAssumption, Constants
<1>1. SessionOK /\ ProducerOK /\ ProfileOK
  BY DEF Init, SessionOK, ProducerOK, ProfileOK, IdleSession, NoProducer, AttemptOrNone, Codes
<1>2. PreviewOK /\ ReaderOK /\ OwnersOK
  BY DEF Init, PreviewOK, ReaderOK, OwnersOK, NoPreview, NoRequest, AttemptOrNone
<1>3. LeftOK
  <2>1. PICK scene \in Scenes :
           left = [attempts |-> MaxAttempts, cancels |-> MaxCancels,
                   profiles |-> IF "profile" \in scene THEN MaxProfiles ELSE 0,
                   expiries |-> IF "profile" \in scene THEN MaxExpiries ELSE 0,
                   requests |-> IF "readers" \in scene THEN MaxRequests ELSE 0,
                   ticks |-> IF "ticker" \in scene THEN MaxTicks ELSE 0]
    BY DEF Init
  <2> QED
    BY <2>1 DEF LeftOK
<1>4. LaneInv /\ LeaseInv /\ SessionInv
  BY DEF Init, LaneInv, LeaseInv, SessionInv, IdleSession, NoProducer, Under, Leasing, Running
<1>5. FactsInv
  BY DEF Init, FactsInv, NoFacts, Queues, IdleSession, Running
<1>6. PreviewInv
  BY DEF Init, PreviewInv, PreviewOfReader, OneAudience, RefusedForPlaces, NoRequest
<1> QED
  BY <1>1, <1>2, <1>3, <1>4, <1>5, <1>6 DEF IInv, Typed

-----------------------------------------------------------------------------
(* The lease expires, and the profile thread.                                 *)

LEMMA SpendLeft ==
    ASSUME LeftOK, NEW what \in {"cancels", "profiles", "expiries", "requests", "ticks"},
           Spend(what)
    PROVE  LeftOK' /\ left'.attempts = left.attempts
BY DEF LeftOK, Spend

LEMMA ExpiresKeeps ==
    ASSUME IInv, LeaseExpires
    PROVE  IInv'
<1> USE DEF IInv, OfSession
<1>1. UNCHANGED <<lane, profile, OfSession>> /\ lease' = Idle
  BY DEF LeaseExpires
<1>2. LeftOK'
  BY SpendLeft DEF LeaseExpires, Typed
<1>3. OwnersOK'
  BY <1>1 DEF Typed, OwnersOK
<1>4. Typed'
  BY <1>1, <1>2, <1>3, TypedFrame DEF Typed
<1>5. LeaseInv'
  BY <1>1, Constants DEF LeaseExpires, LeaseInv, Leasing, Under, Running
<1>6. LaneInv' /\ SessionInv'
  BY <1>1, LaneFrame, SessionFrame
<1>7. FactsInv' /\ PreviewInv'
  BY <1>1, FactsFrame, PreviewFrame
<1> QED
  BY <1>4, <1>5, <1>6, <1>7

LEMMA ProfilesKeep ==
    ASSUME IInv, Profiles
    PROVE  IInv'
<1> USE DEF IInv, OfSession
<1>1. UNCHANGED OfSession
  BY DEF Profiles, ProfileStarts, ProfileOwns, ProfileGivesUp, ProfileEnters,
         ProfileSamples, ProfileLeaves, ProfileReleases
<1>2. LeftOK'
  BY SpendLeft, TypedFrame DEF Typed, Profiles, ProfileStarts, ProfileOwns, ProfileGivesUp,
     ProfileEnters, ProfileSamples, ProfileLeaves, ProfileReleases
<1>3. /\ ProfileOK' /\ OwnersOK'
      /\ lane' = "profile" <=> profile'.pc = "sequence"
      /\ lane' = "loop" <=> lane = "loop"
      /\ profile'.samples > 0 => profile'.pc = "sequence" /\ lease' \notin Attempts
      /\ lease' \in Attempts => lease' = lease
      /\ lease \in Attempts => lease' = lease
  <2> USE AcquisitionAssumption, Constants
      DEF Typed, ProfileOK, OwnersOK, LaneInv, LeaseInv
  <2>1. CASE ProfileStarts
    BY <2>1 DEF ProfileStarts
  <2>2. CASE ProfileOwns
    BY <2>2 DEF ProfileOwns, Granted
  <2>3. CASE ProfileGivesUp
    BY <2>3 DEF ProfileGivesUp
  <2>4. CASE ProfileEnters
    BY <2>4 DEF ProfileEnters
  <2>5. CASE ProfileSamples
    BY <2>5 DEF ProfileSamples
  <2>6. CASE ProfileLeaves
    BY <2>6 DEF ProfileLeaves
  <2>7. CASE ProfileReleases
    BY <2>7 DEF ProfileReleases, Released
  <2> QED
    BY <2>1, <2>2, <2>3, <2>4, <2>5, <2>6, <2>7 DEF Profiles
<1>4. Typed'
  BY <1>1, <1>2, <1>3, TypedFrame DEF Typed
<1>5. LaneInv' /\ LeaseInv'
  <2>1. session.pc \in Leasing /\ ~session.late => lease \in Attempts
    BY DEF LeaseInv, Leasing, Under, Running
  <2> QED
    BY <1>1, <1>3, <2>1 DEF LaneInv, LeaseInv
<1>6. SessionInv' /\ FactsInv' /\ PreviewInv'
  BY <1>1, SessionFrame, FactsFrame, PreviewFrame
<1> QED
  BY <1>4, <1>5, <1>6

-----------------------------------------------------------------------------
(* The requests for the stream.                                               *)

LEMMA ReadersKeep ==
    ASSUME IInv, NEW r \in Readers, ReaderMoves(r)
    PROVE  IInv'
<1> USE DEF IInv, OfReaders
<1>1. UNCHANGED OfReaders
  BY DEF ReaderMoves, ReaderAsks, ReaderBegins, ReaderSent, ReaderWakes, ReaderDrops,
         ReaderNeverBegins, ReaderLeaves
<1>2. /\ ReaderOK' /\ PreviewOK' /\ LeftOK'
      /\ preview'.snapshot = preview.snapshot
      /\ RefusedForPlaces'
      /\ \A s \in leases' :
            \/ s \in leases /\ reader'[s].of = reader[s].of
            \/ preview.snapshot.of # NoAttempt /\ reader'[s].of = preview.snapshot.of
  <2> USE DEF Typed, ReaderOK, PreviewOK, PreviewInv, RefusedForPlaces
  <2>1. CASE ReaderAsks(r)
    BY <2>1, SpendLeft DEF ReaderAsks
  <2>2. CASE ReaderBegins(r)
    <3>0. UNCHANGED <<preview, leases, left>> /\ (r \in leases) = TRUE
      BY <2>2 DEF ReaderBegins
    <3>1. reader' = [reader EXCEPT ![r].pc = "sending", ![r].task = TRUE]
      BY <2>2, <3>0 DEF ReaderBegins
    <3> QED
      BY <3>0, <3>1, TypedFrame
  <2>3. CASE ReaderSent(r)
    BY <2>3, TypedFrame DEF ReaderSent
  <2>4. CASE ReaderLeaves(r)
    BY <2>4, TypedFrame, Constants DEF ReaderLeaves, NoRequest, AttemptOrNone
  <2>5. CASE ReaderWakes(r)
    BY <2>4, <2>5, TypedFrame DEF ReaderWakes
  <2>6. CASE ReaderDrops(r)
    BY <2>4, <2>6 DEF ReaderDrops
  <2>7. CASE ReaderNeverBegins(r)
    BY <2>7, TypedFrame DEF ReaderNeverBegins
  <2> QED
    BY <2>1, <2>2, <2>3, <2>5, <2>6, <2>7 DEF ReaderMoves
<1>3. Typed'
  BY <1>1, <1>2, TypedFrame DEF Typed
<1>4. PreviewInv'
  BY <1>1, <1>2 DEF PreviewInv, PreviewOfReader, OneAudience, RefusedForPlaces
<1>5. LaneInv' /\ SessionInv' /\ FactsInv'
  BY <1>1, LaneFrame, SessionFrame, FactsFrame
<1>6. LeaseInv'
  BY <1>1 DEF LeaseInv
<1> QED
  BY <1>3, <1>4, <1>5, <1>6

-----------------------------------------------------------------------------
(* The producer.                                                              *)

LEMMA ProducersKeep ==
    ASSUME IInv, ProducerMoves
    PROVE  IInv'
<1> USE DEF IInv
<1>1. UNCHANGED <<lease, profile, session, facts, observer, reader, leases, left>>
  BY DEF ProducerMoves, ProducerEnters, ProducerReads, ProducerFails, ProducerEnds,
         ProducerAborts, ProducerAborted, Others
<1>2. /\ ProducerOK' /\ OwnersOK'
      /\ producer.pc # "none" /\ producer'.pc # "none"
      /\ lane' = "profile" <=> lane = "profile"
      /\ lane' = "loop" <=> producer'.pc \in {"reading", "aborting"}
      /\ producer'.latest = producer'.sequence /\ producer'.latest >= producer.latest
      /\ producer'.pc = "reading" => producer'.sequence < MaxFrames
  <2> USE Constants, AcquisitionAssumption DEF Typed, ProducerOK, OwnersOK, LaneInv
  <2>0. producer.latest \in Nat /\ producer.sequence \in Nat
    OBVIOUS
  <2>1. CASE ProducerEnters
    BY <2>0, <2>1 DEF ProducerEnters
  <2>2. CASE ProducerReads
    <3>1. producer.sequence + 1 \in FrameOrNone /\ producer.sequence \in Nat
      BY <2>2 DEF ProducerReads, Frames, FrameOrNone
    <3>2. lane = "loop" /\ lane' = "free" /\ producer.pc = "reading"
      BY <2>2 DEF ProducerReads
    <3>3. CASE producer' = [producer EXCEPT !.pc = "ended", !.failed = TRUE]
      <4>1. ProducerOK'
        BY <3>3
      <4>2. OwnersOK'
        BY <1>1, <3>2
      <4>3. /\ producer'.latest = producer.latest /\ producer'.pc = "ended"
            /\ producer'.sequence = producer.sequence
        BY <3>3
      <4> QED
        BY <2>0, <3>2, <4>1, <4>2, <4>3
    <3>4. CASE producer' = [producer EXCEPT !.pc = "loop", !.sequence = producer.sequence + 1,
                     !.latest = producer.sequence + 1, !.changed = TRUE, !.opened = TRUE]
      <4>1. ProducerOK'
        BY <3>1, <3>4
      <4>2. OwnersOK'
        BY <1>1, <3>2
      <4>3. /\ producer'.latest = producer.sequence + 1 /\ producer'.pc = "loop"
            /\ producer'.sequence = producer.sequence + 1
        BY <3>4
      <4> QED
        BY <2>0, <3>2, <4>1, <4>2, <4>3
    <3> QED
      BY <2>2, <3>3, <3>4 DEF ProducerReads
  <2>3. CASE ProducerFails
    <3>1. lane = "loop" /\ lane' = "free" /\ producer.pc = "reading"
      BY <2>3 DEF ProducerFails
    <3>2. producer' = [producer EXCEPT !.pc = "ended", !.failed = TRUE]
      BY <2>3 DEF ProducerFails
    <3>3. ProducerOK'
      BY <3>2
    <3>4. OwnersOK'
      BY <1>1, <3>1
    <3>5. /\ producer'.latest = producer.latest /\ producer'.pc = "ended"
          /\ producer'.sequence = producer.sequence
      BY <3>2
    <3> QED
      BY <2>0, <3>1, <3>3, <3>4, <3>5
  <2>4. CASE ProducerEnds
    BY <2>4 DEF ProducerEnds, Others
  <2>5. CASE ProducerAborts
    BY <2>5 DEF ProducerAborts, Others
  <2>6. CASE ProducerAborted
    BY <2>6 DEF ProducerAborted
  <2> QED
    BY <2>1, <2>2, <2>3, <2>4, <2>5, <2>6 DEF ProducerMoves
<1>3. PreviewOK' /\ PreviewInv'
  <2>1. CASE UNCHANGED preview
    BY <1>1, <2>1, TypedFrame, PreviewFrame DEF Typed
  <2>2. CASE preview' = [preview EXCEPT
                !.snapshot = [of |-> session.at, jpeg |-> producer.sequence + 1]]
             /\ ProducerReads /\ (producer.opened => preview.snapshot.of = session.at)
             /\ (producer.opened \/ (~preview.stubborn /\ leases = {}))
    <3>1. producer.sequence + 1 \in Frames
      BY <2>2, Constants, AcquisitionAssumption
         DEF ProducerReads, Frames, FrameOrNone, Typed, ProducerOK, LaneInv
    <3>2. session.pc \in Running \cup {"stop"} /\ session.at \in Attempts
      BY <2>2 DEF ProducerReads, Cancelled, LaneInv, LeaseInv, Under, Running
    <3>3. /\ PreviewOK' /\ preview'.stubborn = preview.stubborn
          /\ preview'.snapshot.of = session.at
      BY <2>2, <3>1, <3>2 DEF PreviewOK, Typed, AttemptOrNone, FrameOrNone
    <3> QED
      BY <1>1, <2>2, <3>2, <3>3, Constants
         DEF PreviewInv, PreviewOfReader, OneAudience, RefusedForPlaces
  <2> QED
    BY <2>1, <2>2 DEF ProducerMoves, ProducerEnters, ProducerReads, ProducerFails,
       ProducerEnds, ProducerAborts, ProducerAborted
<1>4. Typed'
  BY <1>1, <1>2, <1>3, TypedFrame DEF Typed
<1>5. LaneInv'
  BY <1>1, <1>2 DEF LaneInv
<1>6. LeaseInv' /\ FactsInv'
  BY <1>1, FactsFrame DEF LeaseInv
<1>7. SessionInv'
  <2>1. session.consumed \in Nat /\ producer.latest \in Nat /\ producer'.latest \in Nat
    BY <1>2, Constants, SessionFields DEF Typed, ProducerOK
  <2> QED
    BY <1>1, <1>2, <2>1 DEF SessionInv
<1> QED
  BY <1>3, <1>4, <1>5, <1>6, <1>7

-----------------------------------------------------------------------------
(* The session.                                                               *)

(* Only the place of the session changes.                                     *)
Kept ==
    /\ session'.at = session.at /\ session'.late = session.late
    /\ session'.consumed = session.consumed /\ session'.observed = session.observed
    /\ session'.eligible = session.eligible /\ session'.stable = session.stable
    /\ session'.qualified = session.qualified /\ session'.captured = session.captured

LEMMA AtIs ==
    ASSUME SessionOK, NEW pc \in Codes, At(pc)
    PROVE  SessionOK' /\ session'.pc = pc /\ Kept /\ session'.errors = session.errors
BY DEF SessionOK, At, Kept

(* It goes on in its stage: reading, leasing, or cleaning up.                 *)
LEMMA GoesOn ==
    ASSUME IInv, SessionOK', Kept, UNCHANGED <<lease, lane, profile, producer>>,
           session.pc # "idle",
           session'.pc \in Codes \ {"idle", "lane", "telling", "deciding"},
           session'.pc \in Under <=> session.pc \in Under,
           session'.pc \in Leasing <=> session.pc \in Leasing,
           session'.pc \in Running => session.pc \in Running
    PROVE  LaneInv' /\ LeaseInv' /\ SessionInv'
<1>1. LaneInv' /\ LeaseInv'
  BY LaneFrame, LeaseFrame DEF IInv, Kept
<1>2. SessionInv'
  BY DEF IInv, SessionInv, Kept
<1> QED
  BY <1>1, <1>2

LEMMA FailsOrWaits ==
    ASSUME IInv, NoLease \/ NoMoreFrames \/ ObservationFails \/ NotYet
    PROVE  IInv'
<1> USE DEF IInv
<1>1. /\ UNCHANGED <<lease, producer, facts, preview, leases, Others>>
      /\ observer' \in {"free", observer}
  BY DEF NoLease, NoMoreFrames, ObservationFails, NotYet
<1>2. /\ session.pc \in {"lane", "wait", "observing", "deciding"}
      /\ At(IF session.pc = "lane" THEN "revoke"
            ELSE IF session.pc = "deciding" THEN "wait" ELSE "stop")
  BY DEF NoLease, NoMoreFrames, ObservationFails, NotYet, Fails
<1>3. /\ SessionOK' /\ Kept
      /\ session'.pc = (IF session.pc = "lane" THEN "revoke"
                        ELSE IF session.pc = "deciding" THEN "wait" ELSE "stop")
  BY <1>2, AtIs DEF Typed, Codes, Running
<1>4. Typed'
  <2>1. OwnersOK'
    BY <1>1 DEF Typed, OwnersOK, Others
  <2> QED
    BY <1>1, <1>3, <2>1, TypedFrame DEF Typed, Others
<1>5. LaneInv' /\ LeaseInv' /\ SessionInv'
  BY <1>1, <1>2, <1>3, GoesOn DEF Others, Codes, Under, Leasing, Running
<1>6. FactsInv' /\ PreviewInv'
  BY <1>1, <1>2, <1>3, FactsFrame, PreviewFrame DEF Kept, Others, Under, Running
<1> QED
  BY <1>4, <1>5, <1>6

LEMMA NoFactsHold ==
    ASSUME facts' = NoFacts, session'.pc # "telling", SessionOK', SessionInv'
    PROVE  FactsInv'
<1>1. session'.observed \in FrameOrNone
  BY DEF SessionOK
<1>2. session'.observed \in Nat
  BY <1>1, Constants
<1>3. NoFrame \in 0..session'.observed
  BY <1>2 DEF NoFrame
<1>4. NoFacts \in [queue : {<<>>}, ticker : {"none", "asleep", "queued"},
                  told : 0..session'.observed]
  BY <1>3 DEF NoFacts
<1>5. Queues' = {<<>>}
  BY DEF Queues, NoFacts
<1> QED
  BY <1>4, <1>5 DEF FactsInv

LEMMA StopKeeps ==
    ASSUME IInv, Stop
    PROVE  IInv'
<1> USE DEF IInv
<1>1. UNCHANGED <<lease, producer, observer, preview, leases, Others>> /\ facts' = NoFacts
  BY DEF Stop
<1>2. session.pc = "stop" /\ SessionOK' /\ Kept /\ session'.pc = "join"
  BY AtIs DEF Typed, Codes, Stop
<1>3. Typed'
  BY <1>1, <1>2, TypedFrame DEF Typed, Others
<1>4. LaneInv' /\ LeaseInv' /\ SessionInv'
  BY <1>1, <1>2, GoesOn DEF Others, Codes, Under, Leasing, Running
<1>5. FactsInv' /\ PreviewInv'
  BY <1>1, <1>2, <1>4, NoFactsHold, PreviewFrame DEF Kept, Others, Under
<1> QED
  BY <1>3, <1>4, <1>5

(* The preview is closed.                                                     *)
LEMMA PreviewCloses ==
    ASSUME PreviewOK, PreviewInv, ClosesPreview, UNCHANGED <<reader, leases>>
    PROVE  PreviewOK' /\ PreviewInv' /\ preview'.snapshot = NoPreview
<1>1. preview'.snapshot = NoPreview /\ preview'.stubborn = preview.stubborn /\ PreviewOK'
  BY Constants DEF ClosesPreview, PreviewOK, PreviewInv, PreviewOfReader, NoPreview,
     AttemptOrNone
<1> QED
  BY <1>1 DEF PreviewInv, PreviewOfReader, OneAudience, RefusedForPlaces, NoPreview

LEMMA RevokeKeeps ==
    ASSUME IInv, Revoke
    PROVE  IInv'
<1> USE DEF IInv
<1>1. UNCHANGED <<lease, producer, facts, observer, leases, Others>>
  BY DEF Revoke
<1>2. session.pc = "revoke" /\ SessionOK' /\ Kept /\ session'.pc = "revoke natural"
  BY AtIs DEF Typed, Codes, Closing, Revoke
<1>3. PreviewOK' /\ PreviewInv'
  BY <1>1, PreviewCloses DEF Typed, Revoke, Others
<1>4. Typed'
  BY <1>1, <1>2, <1>3, TypedFrame DEF Typed, Others
<1>5. LaneInv' /\ LeaseInv' /\ SessionInv'
  BY <1>1, <1>2, GoesOn DEF Others, Codes, Closing, Under, Leasing, Running
<1>6. FactsInv'
  BY <1>1, <1>2, FactsFrame DEF Kept, Others, Running
<1> QED
  BY <1>3, <1>4, <1>5, <1>6

LEMMA JoinedKeeps ==
    ASSUME IInv, Joined
    PROVE  IInv'
<1> USE DEF IInv
<1>1. /\ UNCHANGED <<lease, facts, observer, leases, Others>> /\ producer' = NoProducer
      /\ producer.pc = "ended"
  BY DEF Joined
<1>2. session.pc = "join" /\ SessionOK' /\ Kept /\ session'.pc = "natural"
  BY AtIs DEF Typed, Codes, Closing, Joined
<1>3. PreviewOK' /\ PreviewInv'
  BY <1>1, PreviewCloses DEF Typed, Joined, Others
<1>4. ProducerOK'
  BY <1>1, Constants DEF ProducerOK, NoProducer
<1>5. Typed'
  BY <1>1, <1>2, <1>3, <1>4, TypedFrame DEF Typed, Others
<1>6. LaneInv'
  BY <1>1, <1>2 DEF LaneInv, NoProducer, Others, Under, Running
<1>7. LeaseInv'
  BY <1>1, <1>2, LeaseFrame DEF Kept, Others, Leasing, Under
<1>8. SessionInv'
  BY <1>2 DEF SessionInv, Kept, Under, Running
<1>9. FactsInv'
  BY <1>1, <1>2, FactsFrame DEF Kept, Others, Running
<1> QED
  BY <1>3, <1>5, <1>6, <1>7, <1>8, <1>9

LEMMA CloseCancelsKeeps ==
    ASSUME IInv, CloseCancels
    PROVE  IInv'
<1> USE DEF IInv
<1>1. UNCHANGED <<lease, lane, profile, producer, facts, observer, preview, leases, left>>
  BY DEF CloseCancels
<1>2. /\ session.pc \in {"natural", "revoke natural"} /\ SessionOK' /\ Kept
      /\ session'.pc = (IF session.pc = "natural" THEN "draining" ELSE "revoke draining")
  BY AtIs DEF Typed, Codes, Closing, CloseCancels
<1>3. /\ ReaderOK' /\ leases \subseteq Readers
      /\ \A r \in Readers :
            /\ reader'[r].of = reader[r].of /\ reader'[r].task = reader[r].task
            /\ \/ reader'[r].pc = reader[r].pc
               \/ reader[r].task /\ reader'[r].pc = "cancelled"
  BY <1>1 DEF Typed, ReaderOK, CloseCancels
<1>4. Typed'
  BY <1>1, <1>2, <1>3, TypedFrame DEF Typed
<1>5. LaneInv' /\ LeaseInv' /\ SessionInv'
  BY <1>1, <1>2, GoesOn DEF Codes, Closing, Under, Leasing, Running
<1>6. FactsInv' /\ PreviewInv'
  BY <1>1, <1>2, <1>3, FactsFrame, PreviewFrame DEF Kept, Under, Running
<1> QED
  BY <1>4, <1>5, <1>6

(* A session that is over.                                                    *)
LEMMA IdleHolds ==
    ASSUME session' = IdleSession
    PROVE  SessionOK' /\ SessionInv' /\ session'.pc = "idle"
<1>1. SessionOK'
  BY Constants DEF SessionOK, IdleSession, Codes, AttemptOrNone
<1>2. SessionInv'
  BY Constants DEF SessionInv, IdleSession, Under, Running
<1> QED
  BY <1>1, <1>2 DEF IdleSession

(* The session is over, or goes on to give the camera back.                   *)
LEMMA ClosedKeeps ==
    ASSUME IInv, session.pc \in Closing, NEW error \in {TRUE, FALSE}, Closed(error),
           UNCHANGED <<lease, lane, profile, producer, facts, observer, reader, leases>>,
           LeftOK', PreviewOK', preview'.snapshot = preview.snapshot,
           preview'.stubborn => preview.stubborn \/ leases # {}
    PROVE  IInv'
<1> USE DEF IInv
<1>1. \/ session' = IdleSession /\ session.pc \in {"revoke natural", "revoke draining"}
      \/ /\ session' = [session EXCEPT !.pc = "release", !.errors = error]
         /\ session.pc \in {"natural", "draining"}
  BY DEF Closed, Closing
<1>2. SessionOK'
  BY <1>1, IdleHolds DEF Typed, SessionOK, Codes
<1>3. Typed'
  BY <1>2, TypedFrame DEF Typed
<1>4. preview.snapshot = NoPreview
  BY DEF PreviewInv, PreviewOfReader, Closing, Running
<1>5. PreviewInv'
  BY <1>4 DEF PreviewInv, PreviewOfReader, OneAudience, RefusedForPlaces, NoPreview
<1>6. facts = NoFacts
  BY DEF FactsInv, Closing, Running
<1>7. CASE session' = IdleSession /\ session.pc \in {"revoke natural", "revoke draining"}
  <2>1. session'.pc = "idle"
    BY <1>7, IdleHolds
  <2>2. LaneInv' /\ LeaseInv'
    BY <1>7, <2>1, LaneFrame DEF LeaseInv, Under, Leasing, Running
  <2>3. SessionInv'
    BY <1>7, IdleHolds
  <2>4. FactsInv'
    BY <1>2, <1>6, <2>1, <2>3, NoFactsHold
  <2> QED
    BY <1>3, <1>5, <2>2, <2>3, <2>4
<1>8. CASE /\ session' = [session EXCEPT !.pc = "release", !.errors = error]
           /\ session.pc \in {"natural", "draining"}
  <2>1. Kept /\ session'.pc = "release"
    BY <1>8 DEF Kept, Typed, SessionOK
  <2>2. LaneInv' /\ LeaseInv' /\ SessionInv'
    BY <1>2, <1>8, <2>1, GoesOn DEF Codes, Under, Leasing, Running
  <2>3. FactsInv'
    BY <1>2, <1>6, <2>1, <2>2, NoFactsHold
  <2> QED
    BY <1>3, <1>5, <2>2, <2>3
<1> QED
  BY <1>1, <1>7, <1>8

LEMMA CloseEndsKeeps ==
    ASSUME IInv, CloseEnds \/ CloseGivesUp
    PROVE  IInv'
<1> USE DEF IInv
<1>1. /\ UNCHANGED <<lease, lane, profile, producer, facts, observer, reader, leases, left>>
      /\ session.pc \in Closing
      /\ Closed(FALSE) \/ Closed(TRUE)
      /\ preview' = preview \/ (leases # {} /\ preview' = [preview EXCEPT !.stubborn = TRUE])
  BY DEF CloseEnds, CloseGivesUp, Others, Closing
<1>2. /\ PreviewOK' /\ preview'.snapshot = preview.snapshot
      /\ preview'.stubborn => preview.stubborn \/ leases # {}
  BY <1>1 DEF Typed, PreviewOK
<1>3. LeftOK'
  BY <1>1, TypedFrame DEF Typed
<1> QED
  BY <1>1, <1>2, <1>3, ClosedKeeps

LEMMA ReleaseKeeps ==
    ASSUME IInv, ReleaseLease
    PROVE  IInv'
<1> USE DEF IInv
<1>1. UNCHANGED <<producer, facts, observer, preview, leases, Others>>
  BY DEF ReleaseLease
<1>2. (session.errors \/ lease # session.at) \in {TRUE, FALSE}
  OBVIOUS
<1>3. PICK errors \in {TRUE, FALSE} :
         session' = [session EXCEPT !.pc = "quiet", !.errors = errors]
  BY <1>2, Zenon DEF ReleaseLease
<1>4. session.pc = "release" /\ SessionOK' /\ Kept /\ session'.pc = "quiet"
  BY <1>3 DEF Typed, SessionOK, Codes, Kept, ReleaseLease
<1>5. session.at \in Attempts /\ lease' \notin Attempts /\ OwnersOK'
  BY <1>1, <1>4, Constants
     DEF ReleaseLease, Released, LeaseInv, Typed, OwnersOK, Others
<1>6. Typed'
  BY <1>1, <1>4, <1>5, TypedFrame DEF Typed, Others
<1>7. LaneInv' /\ SessionInv'
  BY <1>1, <1>4, LaneFrame DEF Others, SessionInv, Kept, Under, Running
<1>8. LeaseInv'
  BY <1>1, <1>4, <1>5 DEF LeaseInv, Kept, Others, Leasing, Under, Running
<1>9. FactsInv' /\ PreviewInv'
  BY <1>1, <1>4, FactsFrame, PreviewFrame DEF Kept, Others, Under, Running
<1> QED
  BY <1>6, <1>7, <1>8, <1>9

LEMMA QuietKeeps ==
    ASSUME IInv, Quiet
    PROVE  IInv'
<1> USE DEF IInv
<1>1. UNCHANGED <<lease, producer, facts, observer, preview, leases, Others>>
  BY DEF Quiet
<1>2. session.pc = "quiet" /\ (session' = IdleSession \/ At("revoke"))
  BY DEF Quiet, At
<1>3. CASE At("revoke")
  <2>1. SessionOK' /\ Kept /\ session'.pc = "revoke"
    BY <1>3, AtIs DEF Typed, Codes
  <2>2. Typed'
    BY <1>1, <2>1, TypedFrame DEF Typed, Others
  <2>3. LaneInv' /\ LeaseInv' /\ SessionInv'
    BY <1>1, <1>2, <2>1, GoesOn DEF Others, Codes, Under, Leasing, Running
  <2>4. FactsInv' /\ PreviewInv'
    BY <1>1, <1>2, <2>1, FactsFrame, PreviewFrame DEF Kept, Others, Under, Running
  <2> QED
    BY <2>2, <2>3, <2>4
<1>4. CASE session' = IdleSession
  <2>1. SessionOK' /\ session'.pc = "idle"
    BY <1>4, IdleHolds
  <2>2. Typed'
    BY <1>1, <2>1, TypedFrame DEF Typed, Others
  <2>3. LaneInv' /\ LeaseInv'
    BY <1>1, <1>2, <2>1, LaneFrame DEF Others, LeaseInv, Under, Leasing, Running
  <2>4. SessionInv'
    BY <1>4, IdleHolds
  <2>5. FactsInv'
    BY <1>1, <1>2, <2>1, <2>4, NoFactsHold DEF FactsInv, Running
  <2>6. PreviewInv'
    BY <1>1, <1>2, PreviewFrame DEF Others, Under, Running
  <2> QED
    BY <2>2, <2>3, <2>4, <2>5, <2>6
<1> QED
  BY <1>2, <1>3, <1>4

(* Two steps that say only that time has passed.                              *)
LEMMA DeadlineKeeps ==
    ASSUME IInv, Deadline
    PROVE  IInv'
<1> USE DEF IInv
<1>1. UNCHANGED <<lease, producer, facts, observer, preview, leases, Others>>
  BY DEF Deadline
<1>2. session.pc \in Running \cup {"lane", "join"} /\ session' = [session EXCEPT !.late = TRUE]
  BY DEF Deadline
<1>3. /\ SessionOK' /\ session'.late = TRUE /\ session'.pc = session.pc
      /\ session'.at = session.at /\ session'.observed = session.observed
      /\ session'.consumed = session.consumed /\ session'.captured = session.captured
      /\ session'.eligible = session.eligible /\ session'.qualified = session.qualified
  BY <1>2 DEF Typed, SessionOK
<1>4. Typed'
  BY <1>1, <1>3, TypedFrame DEF Typed, Others
<1>5. LaneInv' /\ LeaseInv'
  BY <1>1, <1>2, <1>3, LaneFrame, LeaseFrame DEF Others, Running
<1>6. SessionInv'
  BY <1>1, <1>3 DEF SessionInv
<1>7. FactsInv' /\ PreviewInv'
  BY <1>1, <1>3, FactsFrame, PreviewFrame DEF Others
<1> QED
  BY <1>4, <1>5, <1>6, <1>7

LEMMA SettlesKeeps ==
    ASSUME IInv, ObserverSettles
    PROVE  IInv'
<1> USE DEF IInv
<1>1. UNCHANGED <<lease, session, producer, facts, preview, leases, Others>> /\ observer' = "free"
  BY DEF ObserverSettles
<1>2. OwnersOK'
  BY <1>1 DEF Typed, OwnersOK, Others
<1>3. Typed'
  BY <1>1, <1>2, TypedFrame DEF Typed, Others
<1>4. LaneInv' /\ SessionInv' /\ FactsInv' /\ PreviewInv'
  BY <1>1, LaneFrame, SessionFrame, FactsFrame, PreviewFrame DEF Others
<1>5. LeaseInv'
  BY <1>1 DEF LeaseInv, Others
<1> QED
  BY <1>3, <1>4, <1>5

(* The session begins, and takes its lease.                                   *)
LEMMA StartsKeep ==
    ASSUME IInv, SessionStarts
    PROVE  IInv'
<1> USE DEF IInv
<1>1. UNCHANGED <<lease, lane, profile, producer, facts, observer, preview, reader, leases>>
  BY DEF SessionStarts
<1>2. left.attempts \in 1..MaxAttempts /\ left' = [left EXCEPT !.attempts = left.attempts - 1]
  <2>1. left.attempts \in 0..MaxAttempts /\ left.attempts > 0
    BY DEF SessionStarts, Spend, Typed, LeftOK
  <2>2. left.attempts \in 1..MaxAttempts
    BY <2>1, AcquisitionAssumption
  <2>3. left' = [left EXCEPT !.attempts = left.attempts - 1]
    BY DEF SessionStarts, Spend
  <2> QED
    BY <2>2, <2>3
<1>3. LeftOK' /\ MaxAttempts - left.attempts + 1 \in Attempts
  BY <1>2, AcquisitionAssumption DEF Typed, LeftOK, Attempts
<1>4. PICK at \in Attempts : session' = [IdleSession EXCEPT !.at = at, !.pc = "lane"]
  BY <1>3 DEF SessionStarts
<1>5. /\ session'.pc = "lane" /\ session'.at = at /\ session'.late = FALSE
      /\ session'.consumed = NoFrame /\ session'.observed = NoFrame
      /\ session'.captured = NoFrame /\ SessionOK'
  BY <1>4, Constants DEF IdleSession, SessionOK, Codes, AttemptOrNone
<1>6. session.pc = "idle" /\ session.observed = NoFrame
  BY DEF SessionStarts, SessionInv
<1>7. Typed'
  BY <1>1, <1>3, <1>5, TypedFrame DEF Typed
<1>8. LaneInv' /\ LeaseInv'
  BY <1>1, <1>5, <1>6, LaneFrame DEF LeaseInv, Under, Leasing, Running
<1>9. SessionInv'
  BY <1>5, Constants DEF SessionInv, Under, Running
<1>10. FactsInv' /\ PreviewInv'
  BY <1>1, <1>5, <1>6, FactsFrame, PreviewFrame DEF Under, Running
<1> QED
  BY <1>7, <1>8, <1>9, <1>10

LEMMA TakeLeaseKeeps ==
    ASSUME IInv, TakeLease
    PROVE  IInv'
<1> USE DEF IInv
<1>1. /\ UNCHANGED <<observer, preview, leases, Others>> /\ lease' = session.at
      /\ producer' = [NoProducer EXCEPT !.pc = "loop"]
      /\ facts' = [NoFacts EXCEPT !.ticker = "asleep"]
      /\ session.pc = "lane" /\ At("wait") /\ Granted(session.at)
  BY DEF TakeLease
<1>2. SessionOK' /\ Kept /\ session'.pc = "wait"
  BY <1>1, AtIs DEF Typed, Codes, Running
<1>3. session.at \in Attempts
  BY <1>1 DEF LeaseInv
<1>4. /\ ProducerOK' /\ producer'.pc = "loop" /\ producer'.latest = NoFrame
      /\ producer'.sequence = NoFrame
  BY <1>1, Constants DEF NoProducer, ProducerOK
<1>5. OwnersOK'
  BY <1>1, <1>3 DEF Typed, OwnersOK, Others
<1>6. Typed'
  BY <1>1, <1>2, <1>4, <1>5, TypedFrame DEF Typed, Others
<1>7. lane # "loop" /\ profile.samples = 0
  <2>1. lane # "profile" /\ profile.samples \in Nat /\ producer.pc = "none"
    BY <1>1 DEF TakeLease, Typed, ProfileOK, LaneInv, Under, Running
  <2> QED
    BY <2>1 DEF LaneInv
<1>8. LaneInv'
  BY <1>1, <1>2, <1>4, <1>7 DEF LaneInv, Others, Under, Running
<1>9. LeaseInv'
  BY <1>1, <1>2, <1>3, <1>7 DEF LeaseInv, Kept, Others, Leasing, Under, Running
<1>10. SessionInv'
  BY <1>1, <1>2, <1>4, Constants DEF SessionInv, Kept, Under, Running
<1>11. FactsInv'
  <2>1. session'.observed = NoFrame
    BY <1>1, <1>2 DEF SessionInv, Kept
  <2>2. facts' = [queue |-> <<>>, ticker |-> "asleep", told |-> NoFrame]
    BY <1>1 DEF NoFacts
  <2>3. Queues' = {<<>>}
    BY <1>2, <2>2 DEF Queues
  <2> QED
    BY <1>2, <2>1, <2>2, <2>3, Constants DEF FactsInv, Running
<1>12. PreviewInv'
  BY <1>1, <1>2, PreviewFrame DEF Others, Under, Running
<1> QED
  BY <1>6, <1>8, <1>9, <1>10, <1>11, <1>12

LEMMA TakeFrameKeeps ==
    ASSUME IInv, TakeFrame
    PROVE  IInv'
<1> USE DEF IInv
<1>1. /\ UNCHANGED <<lease, facts, preview, leases, Others>>
      /\ producer' = [producer EXCEPT !.changed = FALSE]
      /\ session.pc = "wait" /\ observer' \in {observer, "busy"}
      /\ \/ session' = session
         \/ session' = [session EXCEPT !.consumed = producer.latest,
                           !.pc = IF observer = "busy" THEN "stop" ELSE "observing"]
  BY DEF TakeFrame
<1>2. /\ ProducerOK' /\ producer'.pc = producer.pc /\ producer'.sequence = producer.sequence
      /\ producer'.latest = producer.latest /\ producer.latest \in FrameOrNone
      /\ producer.pc # "none"
  BY <1>1 DEF Typed, ProducerOK, LaneInv, Under, Running
<1>3. /\ SessionOK' /\ session'.at = session.at /\ session'.late = session.late
      /\ session'.pc \in {"wait", "observing", "stop"}
      /\ session'.observed = session.observed /\ session'.captured = session.captured
      /\ session'.consumed \in {session.consumed, producer.latest}
  BY <1>1, <1>2 DEF Typed, SessionOK, Codes, Running
<1>4. OwnersOK'
  BY <1>1 DEF Typed, OwnersOK, Others
<1>5. Typed'
  BY <1>1, <1>2, <1>3, <1>4, TypedFrame DEF Typed, Others
<1>6. LaneInv'
  BY <1>1, <1>2, <1>3 DEF LaneInv, Others, Under, Running
<1>7. LeaseInv'
  BY <1>1, <1>3, LeaseFrame DEF Others, Leasing, Under, Running
<1>8. SessionInv'
  <2>1. /\ session.consumed \in Nat /\ session.observed \in Nat /\ producer.latest \in Nat
        /\ session.observed <= session.consumed /\ session.consumed <= producer.latest
        /\ session.captured = NoFrame
    BY <1>1, <1>2, SessionFields, Constants DEF SessionInv, Typed, Under, Running
  <2> QED
    BY <1>2, <1>3, <2>1 DEF SessionInv
<1>9. FactsInv' /\ PreviewInv'
  BY <1>1, <1>3, FactsFrame, PreviewFrame DEF Others, Under, Running
<1> QED
  BY <1>5, <1>6, <1>7, <1>8, <1>9

(* A capture takes the frame that was judged.                                 *)
LEMMA CaptureKeeps ==
    ASSUME IInv, CaptureByHand \/ CaptureHeld
    PROVE  IInv'
<1> USE DEF IInv
<1>1. /\ UNCHANGED <<lease, producer, facts, observer, preview, leases, Others>>
      /\ session.pc = "deciding"
  BY DEF CaptureByHand, CaptureHeld
<1>2. /\ session.eligible
      /\ session' = [session EXCEPT !.captured = session.consumed, !.pc = "stop"]
  BY DEF CaptureByHand, CaptureHeld, SessionInv
<1>3. /\ SessionOK' /\ session'.pc = "stop" /\ session'.captured = session.consumed
      /\ session'.at = session.at /\ session'.late = session.late
      /\ session'.observed = session.observed /\ session'.consumed = session.consumed
      /\ session'.eligible = session.eligible
  BY <1>2 DEF Typed, SessionOK, Codes
<1>4. Typed'
  BY <1>1, <1>3, TypedFrame DEF Typed, Others
<1>5. LaneInv' /\ LeaseInv'
  BY <1>1, <1>3, LaneFrame, LeaseFrame DEF Others, Leasing, Under, Running
<1>6. SessionInv'
  BY <1>1, <1>2, <1>3 DEF SessionInv, Under, Running
<1>7. FactsInv' /\ PreviewInv'
  BY <1>1, <1>3, FactsFrame, PreviewFrame DEF Others, Under, Running
<1> QED
  BY <1>4, <1>5, <1>6, <1>7

-----------------------------------------------------------------------------
(* Short queues.                                                              *)

LEMMA Pair ==
    ASSUME NEW x, NEW y
    PROVE  /\ Len(<<x, y>>) = 2 /\ Len(<<x>>) = 1 /\ <<x>> # <<>> /\ <<x, y>> # <<>>
           /\ <<x, y>>[1] = x /\ <<x, y>>[2] = y /\ <<x>>[1] = x
           /\ DOMAIN <<x, y>> = {1, 2} /\ DOMAIN <<x>> = {1}
OBVIOUS

LEMMA Appended ==
    ASSUME NEW x, NEW y
    PROVE  Append(<<>>, x) = <<x>> /\ Append(<<x>>, y) = <<x, y>>
<1> DEFINE s == Append(<<x>>, y)
<1>1. <<x>> \in Seq({x, y}) /\ <<x, y>> \in Seq({x, y}) /\ y \in {x, y} /\ Len(<<x>>) = 1
      /\ Len(<<x, y>>) = 2
  OBVIOUS
<1>2. s \in Seq({x, y}) /\ Len(s) = 2 /\ s[1] = x /\ s[2] = y
  BY <1>1, AppendProperties
<1> HIDE DEF s
<1>3. \A i \in 1..Len(s) : s[i] = <<x, y>>[i]
  BY <1>2, Pair
<1>4. s = <<x, y>>
  BY <1>1, <1>2, <1>3, SeqEqual, Zenon
<1>5. Append(<<>>, x) = <<x>>
  OBVIOUS
<1> QED
  BY <1>4, <1>5 DEF s

LEMMA Halves ==
    ASSUME NEW x, NEW y
    PROVE  SubSeq(<<x, y>>, 1, 1) = <<x>> /\ SubSeq(<<x, y>>, 2, 2) = <<y>>
<1> DEFINE s == SubSeq(<<x, y>>, 1, 1)
           t == SubSeq(<<x, y>>, 2, 2)
<1>1. /\ s \in Seq({x, y}) /\ Len(s) = 1 /\ s[1] = x
      /\ t \in Seq({x, y}) /\ Len(t) = 1 /\ t[1] = y
  BY SubSeqProperties
<1>2. /\ <<x>> \in Seq({x, y}) /\ Len(<<x>>) = 1 /\ <<x>>[1] = x
      /\ <<y>> \in Seq({x, y}) /\ Len(<<y>>) = 1 /\ <<y>>[1] = y
  OBVIOUS
<1> HIDE DEF s, t
<1>3. (\A i \in 1..Len(s) : s[i] = <<x>>[i]) /\ (\A i \in 1..Len(t) : t[i] = <<y>>[i])
  BY <1>1, <1>2
<1>4. s = <<x>>
  BY <1>1, <1>2, <1>3, SeqEqual, Zenon
<1>5. t = <<y>>
  BY <1>1, <1>2, <1>3, SeqEqual, Zenon
<1> QED
  BY <1>4, <1>5 DEF s, t

LEMMA Removed ==
    ASSUME NEW x, NEW y
    PROVE  /\ RemoveAt(<<x>>, 1) = <<>>
           /\ RemoveAt(<<x, y>>, 1) = <<y>> /\ RemoveAt(<<x, y>>, 2) = <<x>>
<1>1. RemoveAt(<<x>>, 1) = <<>>
  BY DEF RemoveAt
<1>2. /\ SubSeq(<<x, y>>, 1, 0) = <<>> /\ <<>> \o <<y>> = <<y>>
      /\ SubSeq(<<x, y>>, 3, 2) = <<>> /\ <<x>> \o <<>> = <<x>> /\ Len(<<x, y>>) = 2
      /\ 1 - 1 = 0 /\ 1 + 1 = 2 /\ 2 - 1 = 1 /\ 2 + 1 = 3
  OBVIOUS
<1>3. RemoveAt(<<x, y>>, 1) = SubSeq(<<x, y>>, 1, 1 - 1) \o SubSeq(<<x, y>>, 1 + 1, Len(<<x, y>>))
  BY Zenon DEF RemoveAt
<1>4. RemoveAt(<<x, y>>, 2) = SubSeq(<<x, y>>, 1, 2 - 1) \o SubSeq(<<x, y>>, 2 + 1, Len(<<x, y>>))
  BY Zenon DEF RemoveAt
<1>5. RemoveAt(<<x, y>>, 1) = <<y>>
  BY <1>2, <1>3, Halves, Zenon
<1>6. RemoveAt(<<x, y>>, 2) = <<x>>
  BY <1>2, <1>4, Halves, Zenon
<1> QED
  BY <1>1, <1>5, <1>6

LEMMA Tellers ==
    \A f : /\ Main(f).by = "main" /\ Main(f).fact = f
           /\ Ticker(f).by = "ticker" /\ Ticker(f).fact = f
BY DEF Main, Ticker

LEMMA FirstLeaves ==
    ASSUME NEW f, NEW g
    PROVE  /\ RemoveAt(<<Main(f)>>, 1) = <<>> /\ RemoveAt(<<Ticker(f)>>, 1) = <<>>
           /\ RemoveAt(<<Ticker(f), Main(g)>>, 1) = <<Main(g)>>
           /\ RemoveAt(<<Main(g), Ticker(f)>>, 1) = <<Ticker(f)>>
<1>1. RemoveAt(<<Main(f)>>, 1) = <<>> /\ RemoveAt(<<Ticker(f)>>, 1) = <<>>
  BY Removed, Zenon
<1>2. RemoveAt(<<Ticker(f), Main(g)>>, 1) = <<Main(g)>>
  BY Removed, Zenon
<1>3. RemoveAt(<<Main(g), Ticker(f)>>, 1) = <<Ticker(f)>>
  BY Removed, Zenon
<1> QED
  BY <1>1, <1>2, <1>3

LEMMA AtMostTwo ==
    ASSUME NEW f, NEW g
    PROVE  /\ Len(<<Main(f)>>) <= 2 /\ Len(<<Ticker(f)>>) <= 2
           /\ Len(<<Ticker(f), Main(g)>>) <= 2 /\ Len(<<Main(f), Ticker(g)>>) <= 2
<1>1. \A x, y : Len(<<x>>) <= 2 /\ Len(<<x, y>>) <= 2
  BY Pair
<1> QED
  BY <1>1, Zenon

LEMMA MainLeaves ==
    ASSUME NEW f, NEW g
    PROVE  /\ WithoutMain(<<Main(f)>>) = <<>>
           /\ WithoutMain(<<Main(f), Ticker(g)>>) = <<Ticker(g)>>
           /\ WithoutMain(<<Ticker(g), Main(f)>>) = <<Ticker(g)>>
<1> DEFINE Of(queue) == CHOOSE i \in DOMAIN queue : queue[i].by = "main"
<1>1. Of(<<Main(f)>>) = 1
  <2>1. \A i \in DOMAIN <<Main(f)>> : <<Main(f)>>[i].by = "main" <=> i = 1
    BY Pair, Tellers
  <2> QED
    BY <2>1, Pair
<1>2. Of(<<Main(f), Ticker(g)>>) = 1
  <2>1. \A i \in DOMAIN <<Main(f), Ticker(g)>> :
           <<Main(f), Ticker(g)>>[i].by = "main" <=> i = 1
    BY Pair, Tellers
  <2> QED
    BY <2>1, Pair
<1>3. Of(<<Ticker(g), Main(f)>>) = 2
  <2>1. \A i \in DOMAIN <<Ticker(g), Main(f)>> :
           <<Ticker(g), Main(f)>>[i].by = "main" <=> i = 2
    BY Pair, Tellers
  <2> QED
    BY <2>1, Pair
<1>4. \A queue : WithoutMain(queue) = RemoveAt(queue, Of(queue))
  BY Zenon DEF WithoutMain
<1> HIDE DEF Of
<1> QED
  BY <1>1, <1>2, <1>3, <1>4, Removed, Zenon

-----------------------------------------------------------------------------
(* The facts.  What may wait in the queue, by the place of the session and    *)
(* of the ticker.                                                             *)

LEMMA QueueCases ==
    ASSUME SessionOK, FactsInv
    PROVE  /\ facts = [queue |-> facts.queue, ticker |-> facts.ticker, told |-> facts.told]
           /\ facts.told \in 0..session.observed /\ session.observed \in FrameOrNone
           /\ facts.ticker \in {"none", "asleep", "queued"}
           /\ session.pc = "telling" /\ facts.ticker = "queued" =>
                 \/ \E f \in facts.told .. session.observed :
                       facts.queue = <<Ticker(f), Main(session.observed)>>
                 \/ facts.queue = <<Main(session.observed), Ticker(session.observed)>>
           /\ session.pc = "telling" /\ facts.ticker # "queued" =>
                 facts.queue = <<Main(session.observed)>>
           /\ session.pc # "telling" /\ facts.ticker = "queued" =>
                 \E f \in facts.told .. session.observed : facts.queue = <<Ticker(f)>>
           /\ session.pc # "telling" /\ facts.ticker # "queued" => facts.queue = <<>>
<1>1. facts \in [queue : Queues, ticker : {"none", "asleep", "queued"},
                 told : 0..session.observed]
  BY DEF FactsInv
<1>2. facts.queue \in Queues /\ session.observed \in FrameOrNone
  BY <1>1 DEF SessionOK
<1>3. session.pc = "telling" /\ facts.ticker = "queued" =>
         \/ \E f \in facts.told .. session.observed :
               facts.queue = <<Ticker(f), Main(session.observed)>>
         \/ facts.queue = <<Main(session.observed), Ticker(session.observed)>>
  BY <1>2, Zenon DEF Queues
<1>4. session.pc = "telling" /\ facts.ticker # "queued" =>
         facts.queue = <<Main(session.observed)>>
  BY <1>2, Zenon DEF Queues
<1>5. session.pc # "telling" /\ facts.ticker = "queued" =>
         \E f \in facts.told .. session.observed : facts.queue = <<Ticker(f)>>
  BY <1>2, Zenon DEF Queues
<1>6. session.pc # "telling" /\ facts.ticker # "queued" => facts.queue = <<>>
  BY <1>2, Zenon DEF Queues
<1> QED
  BY <1>1, <1>2, <1>3, <1>4, <1>5, <1>6

LEMMA FactsAre ==
    ASSUME NEW queue, NEW ticker \in {"none", "asleep", "queued"},
           NEW told \in 0..session'.observed,
           facts' = [queue |-> queue, ticker |-> ticker, told |-> told],
           session'.pc \in Running \cup {"stop"},
           session'.pc = "telling" /\ ticker = "queued" =>
              \/ \E f \in told .. session'.observed :
                    queue = <<Ticker(f), Main(session'.observed)>>
              \/ queue = <<Main(session'.observed), Ticker(session'.observed)>>,
           session'.pc = "telling" /\ ticker # "queued" =>
              queue = <<Main(session'.observed)>>,
           session'.pc # "telling" /\ ticker = "queued" =>
              \E f \in told .. session'.observed : queue = <<Ticker(f)>>,
           session'.pc # "telling" /\ ticker # "queued" => queue = <<>>
    PROVE  FactsInv'
<1>1. facts'.queue = queue /\ facts'.ticker = ticker /\ facts'.told = told
  OBVIOUS
<1>2. queue \in Queues'
  BY <1>1, Zenon DEF Queues, Main, Ticker
<1> QED
  BY <1>2 DEF FactsInv

LEMMA ObservedKeeps ==
    ASSUME IInv, NEW eligible \in BOOLEAN, NEW held \in BOOLEAN, Observed(eligible, held)
    PROVE  IInv'
<1> USE DEF IInv
<1>1. /\ UNCHANGED <<lease, producer, preview, leases, Others>> /\ observer' = "free"
      /\ session.pc = "observing"
      /\ facts' = [facts EXCEPT
            !.queue = Append(facts.queue, Main(session.consumed))]
  BY DEF Observed, Main
<1>2. PICK qualified \in {NoFrame, session.consumed}, stable \in {"off", "on", "held"} :
         /\ qualified # NoFrame => eligible
         /\ session' = [session EXCEPT !.eligible = eligible, !.observed = session.consumed,
                           !.qualified = qualified, !.stable = stable, !.pc = "telling"]
  BY DEF Observed
<1>3. /\ SessionOK' /\ session'.pc = "telling"
      /\ session'.at = session.at /\ session'.late = session.late
      /\ session'.consumed = session.consumed /\ session'.observed = session.consumed
      /\ session'.eligible = eligible /\ session'.captured = session.captured
      /\ session'.qualified = qualified
  BY <1>2, Constants DEF Typed, SessionOK, Codes, Running
<1>4. OwnersOK'
  BY <1>1 DEF Typed, OwnersOK, Others
<1>5. Typed'
  BY <1>1, <1>3, <1>4, TypedFrame DEF Typed, Others
<1>6. LaneInv' /\ LeaseInv'
  BY <1>1, <1>3, LaneFrame, LeaseFrame DEF Others, Leasing, Under, Running
<1>7. SessionInv'
  <2>1. session.consumed \in Nat
    BY SessionFields, Constants DEF Typed
  <2> QED
    BY <1>1, <1>2, <1>3, <2>1 DEF SessionInv, Under, Running
<1>8. FactsInv'
  <2> DEFINE o == session.consumed
  <2>1. /\ o \in Nat /\ session.observed \in Nat /\ session.observed <= o
        /\ facts.told \in 0..o
    BY SessionFields, QueueCases, Constants DEF Typed, SessionInv
  <2>2. CASE facts.ticker = "queued"
    <3>1. PICK f \in facts.told .. session.observed : facts.queue = <<Ticker(f)>>
      BY <1>1, <2>2, QueueCases DEF Typed
    <3>2. facts' = [queue |-> <<Ticker(f), Main(o)>>, ticker |-> "queued", told |-> facts.told]
      BY <1>1, <2>2, <3>1, QueueCases, Appended DEF Typed
    <3>3. f \in facts.told .. session'.observed
      BY <1>3, <2>1, <3>1
    <3> QED
      BY <1>3, <2>1, <3>2, <3>3, FactsAre DEF Running
  <2>3. CASE facts.ticker # "queued"
    <3>1. facts.queue = <<>>
      BY <1>1, <2>3, QueueCases DEF Typed
    <3>2. facts' = [queue |-> <<Main(o)>>, ticker |-> facts.ticker, told |-> facts.told]
      BY <1>1, <3>1, QueueCases, Appended DEF Typed
    <3> QED
      BY <1>3, <2>1, <2>3, <3>2, FactsAre, QueueCases DEF Typed, Running
  <2> QED
    BY <2>2, <2>3
<1>9. PreviewInv'
  BY <1>1, <1>3, PreviewFrame DEF Others, Under, Running
<1> QED
  BY <1>5, <1>6, <1>7, <1>8, <1>9

LEMMA TickerKeeps ==
    ASSUME IInv, TickerTicks
    PROVE  IInv'
<1> USE DEF IInv
<1>1. /\ UNCHANGED <<lease, lane, profile, session, producer, observer, preview, reader, leases>>
      /\ facts.ticker = "asleep" /\ session.pc \in Running
      /\ facts' = [facts EXCEPT !.ticker = "queued",
                      !.queue = Append(facts.queue, Ticker(session.observed))]
  BY DEF TickerTicks, Ticker
<1>2. LeftOK'
  BY SpendLeft DEF TickerTicks, Typed
<1>3. Typed'
  BY <1>1, <1>2, TypedFrame DEF Typed
<1>4. LaneInv' /\ SessionInv' /\ PreviewInv'
  BY <1>1, LaneFrame, SessionFrame, PreviewFrame
<1>5. LeaseInv'
  BY <1>1 DEF LeaseInv
<1>6. FactsInv'
  <2> DEFINE o == session.observed
  <2>1. o \in Nat /\ facts.told \in 0..o /\ o \in facts.told .. o
    BY QueueCases, Constants DEF Typed
  <2>2. CASE session.pc = "telling"
    <3>1. facts.queue = <<Main(o)>>
      BY <1>1, <2>2, QueueCases DEF Typed
    <3>2. facts' = [queue |-> <<Main(o), Ticker(o)>>, ticker |-> "queued", told |-> facts.told]
      BY ZenonT(40), <1>1, <3>1, QueueCases, Appended DEF Typed
    <3> QED
      BY <1>1, <2>1, <2>2, <3>2, FactsAre DEF Running
  <2>3. CASE session.pc # "telling"
    <3>1. facts.queue = <<>>
      BY <1>1, <2>3, QueueCases DEF Typed
    <3>2. facts' = [queue |-> <<Ticker(o)>>, ticker |-> "queued", told |-> facts.told]
      BY <1>1, <3>1, QueueCases, Appended DEF Typed
    <3> QED
      BY <1>1, <2>1, <2>3, <3>2, FactsAre
  <2> QED
    BY <2>2, <2>3
<1> QED
  BY <1>3, <1>4, <1>5, <1>6

(* A fact is told: never one older than the last.                             *)
LEMMA TellKeeps ==
    ASSUME IInv, TellFact
    PROVE  IInv' /\ facts'.told >= facts.told
<1> USE DEF IInv
<1> DEFINE o == session.observed
<1>1. /\ UNCHANGED <<lease, producer, observer, preview, leases, Others>>
      /\ facts.queue # <<>>
      /\ facts' = [queue |-> RemoveAt(facts.queue, 1), told |-> facts.queue[1].fact,
                   ticker |-> IF facts.queue[1].by = "ticker" THEN "asleep"
                                                              ELSE facts.ticker]
      /\ IF facts.queue[1].by = "main" THEN At("deciding") ELSE UNCHANGED session
  BY DEF TellFact, Tells
<1>2. /\ o \in Nat /\ facts.told \in 0..o
      /\ facts.ticker \in {"none", "asleep", "queued"}
  BY QueueCases, Constants DEF Typed
<1>3. session.pc \in Running \cup {"stop"}
  BY <1>1 DEF FactsInv, NoFacts
<1>4. /\ session.pc = "telling" => session'.pc \in {"telling", "deciding"}
      /\ session.pc # "telling" => session'.pc = session.pc
      /\ SessionOK' /\ Kept /\ FactsInv' /\ facts'.told >= facts.told
  <2>1. CASE \E f \in facts.told .. o : facts.queue = <<Ticker(f), Main(o)>>
             /\ session.pc = "telling"
    <3>1. PICK f \in facts.told .. o : facts.queue = <<Ticker(f), Main(o)>>
      BY <2>1
    <3>2. facts.queue[1].by = "ticker" /\ facts.queue[1].fact = f
      BY <3>1, Pair, Tellers
    <3>3. UNCHANGED session
      BY <1>1, <3>2
    <3>4. facts' = [queue |-> <<Main(o)>>, ticker |-> "asleep", told |-> f]
      <4>1. RemoveAt(facts.queue, 1) = <<Main(o)>>
        BY <3>1, FirstLeaves, Zenon
      <4> QED
        BY <1>1, <3>2, <4>1
    <3>5. f \in 0..o /\ f >= facts.told
      BY <1>2
    <3>6. FactsInv'
      BY <1>3, <2>1, <3>3, <3>4, <3>5, FactsAre
    <3>7. facts'.told = f
      BY <3>4
    <3>8. SessionOK' /\ Kept
      BY <3>3, TypedFrame DEF Kept
    <3> QED
      BY <2>1, <3>3, <3>5, <3>6, <3>7, <3>8
  <2>2. CASE /\ session.pc = "telling" /\ facts.ticker = "queued"
             /\ facts.queue = <<Main(o), Ticker(o)>>
    <3>1. facts.queue[1].by = "main" /\ facts.queue[1].fact = o
      BY <2>2, Pair, Tellers
    <3>2. SessionOK' /\ session'.pc = "deciding" /\ Kept
      BY <1>1, <3>1, AtIs DEF Typed, Codes, Running
    <3>3. facts' = [queue |-> <<Ticker(o)>>, ticker |-> "queued", told |-> o]
      <4>1. RemoveAt(facts.queue, 1) = <<Ticker(o)>>
        BY <2>2, FirstLeaves, Zenon
      <4> QED
        BY <1>1, <2>2, <3>1, <4>1
    <3>4. session'.observed = o /\ o \in 0..o /\ o \in o..o /\ o >= facts.told
      BY <1>2, <3>2 DEF Kept
    <3>5. FactsInv'
      BY <3>2, <3>3, <3>4, FactsAre DEF Running
    <3> QED
      BY <2>2, <3>2, <3>3, <3>4, <3>5
  <2>3. CASE /\ session.pc = "telling" /\ facts.ticker # "queued"
             /\ facts.queue = <<Main(o)>>
    <3>1. facts.queue[1].by = "main" /\ facts.queue[1].fact = o
      BY <2>3, Pair, Tellers
    <3>2. SessionOK' /\ session'.pc = "deciding" /\ Kept
      BY <1>1, <3>1, AtIs DEF Typed, Codes, Running
    <3>3. facts' = [queue |-> <<>>, ticker |-> facts.ticker, told |-> o]
      BY <1>1, <2>3, <3>1, FirstLeaves
    <3>4. session'.observed = o /\ o \in 0..o /\ o >= facts.told
      BY <1>2, <3>2 DEF Kept
    <3>5. FactsInv'
      BY <1>2, <2>3, <3>2, <3>3, <3>4, FactsAre DEF Running
    <3> QED
      BY <2>3, <3>2, <3>3, <3>4, <3>5
  <2>4. CASE session.pc # "telling"
    <3>1. PICK f \in facts.told .. o : facts.queue = <<Ticker(f)>>
      BY <1>1, <2>4, QueueCases DEF Typed
    <3>2. facts.queue[1].by = "ticker" /\ facts.queue[1].fact = f
      BY <3>1, Pair, Tellers
    <3>3. UNCHANGED session
      BY <1>1, <3>2
    <3>4. facts' = [queue |-> <<>>, ticker |-> "asleep", told |-> f]
      BY <1>1, <3>1, <3>2, FirstLeaves
    <3>5. f \in 0..o /\ f >= facts.told
      BY <1>2
    <3>6. FactsInv'
      BY <1>3, <2>4, <3>3, <3>4, <3>5, FactsAre
    <3>7. facts'.told = f
      BY <3>4
    <3>8. SessionOK' /\ Kept
      BY <3>3, TypedFrame DEF Kept
    <3> QED
      BY <2>4, <3>3, <3>5, <3>6, <3>7, <3>8
  <2> QED
    BY <2>1, <2>2, <2>3, <2>4, QueueCases DEF Typed
<1>5. Typed'
  BY <1>1, <1>4, TypedFrame DEF Typed, Others
<1>6. LaneInv' /\ LeaseInv'
  BY <1>1, <1>3, <1>4, LaneFrame, LeaseFrame DEF Kept, Others, Leasing, Under, Running
<1>7. SessionInv'
  BY <1>1, <1>4 DEF SessionInv, Kept, Under, Running
<1>8. PreviewInv'
  BY <1>1, <1>4, PreviewFrame DEF Kept, Others, Under, Running
<1> QED
  BY <1>4, <1>5, <1>6, <1>7, <1>8

(* The attempt's task is cancelled.                                           *)
LEMMA CancelRunning ==
    ASSUME IInv, Cancel, session.pc \in Running
    PROVE  SessionOK' /\ session'.pc = "stop" /\ Kept /\ FactsInv'
<1> USE DEF IInv
<1> DEFINE o == session.observed
<1>1. /\ At("stop")
      /\ facts' = IF session.pc = "telling"
                    THEN [facts EXCEPT !.queue = WithoutMain(facts.queue)] ELSE facts
  BY DEF Cancel, Fails, Running, Closing
<1>2. SessionOK' /\ session'.pc = "stop" /\ Kept
  BY <1>1, AtIs DEF Typed, Codes
<1>3. /\ o \in Nat /\ facts.told \in 0..o /\ session'.observed = o
      /\ facts.ticker \in {"none", "asleep", "queued"}
  BY <1>2, QueueCases, Constants DEF Typed, Kept
<1>4. CASE session.pc # "telling"
  BY <1>1, <1>2, <1>4, FactsFrame DEF Kept
<1>5. CASE session.pc = "telling" /\ facts.ticker # "queued"
  <2>1. facts' = [queue |-> <<>>, ticker |-> facts.ticker, told |-> facts.told]
    <3>1. facts.queue = <<Main(o)>>
      BY <1>5, QueueCases DEF Typed
    <3> QED
      BY <1>1, <1>5, <3>1, QueueCases, MainLeaves DEF Typed
  <2> QED
    BY <1>2, <1>3, <1>5, <2>1, FactsAre
<1>6. CASE session.pc = "telling" /\ facts.ticker = "queued"
  <2>1. PICK f \in facts.told .. o :
           facts.queue \in {<<Ticker(f), Main(o)>>, <<Main(o), Ticker(f)>>}
    <3>1. o \in facts.told .. o
      BY <1>3
    <3> QED
      BY <1>6, <3>1, QueueCases DEF Typed
  <2>2. facts' = [queue |-> <<Ticker(f)>>, ticker |-> "queued", told |-> facts.told]
    BY <1>1, <1>6, <2>1, QueueCases, MainLeaves DEF Typed
  <2> QED
    BY <1>2, <1>3, <1>6, <2>2, FactsAre
<1> QED
  BY <1>2, <1>4, <1>5, <1>6

LEMMA CancelKeeps ==
    ASSUME IInv, Cancel
    PROVE  IInv'
<1> USE DEF IInv
<1>1. UNCHANGED <<lease, lane, profile, producer, observer, preview, reader, leases>>
  BY DEF Cancel
<1>2. LeftOK'
  BY SpendLeft DEF Cancel, Typed
<1>3. CASE session.pc \in Running
  <2>1. SessionOK' /\ session'.pc = "stop" /\ Kept /\ FactsInv'
    BY <1>3, CancelRunning
  <2>2. Typed'
    BY <1>1, <1>2, <2>1, TypedFrame DEF Typed
  <2>3. LaneInv' /\ LeaseInv' /\ SessionInv'
    BY <1>1, <1>3, <2>1, GoesOn DEF Codes, Under, Leasing, Running
  <2>4. PreviewInv'
    BY <1>1, <2>1, <1>3, PreviewFrame DEF Kept, Under
  <2> QED
    BY <2>1, <2>2, <2>3, <2>4
<1>4. CASE session.pc \in {"lane", "quiet"} /\ At("revoke") /\ UNCHANGED facts
  <2>1. SessionOK' /\ session'.pc = "revoke" /\ Kept
    BY <1>4, AtIs DEF Typed, Codes
  <2>2. Typed'
    BY <1>1, <1>2, <2>1, TypedFrame DEF Typed
  <2>3. LaneInv' /\ LeaseInv' /\ SessionInv'
    BY <1>1, <1>4, <2>1, GoesOn DEF Codes, Under, Leasing, Running
  <2>4. FactsInv' /\ PreviewInv'
    BY <1>1, <1>4, <2>1, FactsFrame, PreviewFrame DEF Kept, Under, Running
  <2> QED
    BY <2>2, <2>3, <2>4
<1>5. CASE /\ session.pc \in {"stop", "join"} /\ UNCHANGED facts
           /\ session' = [session EXCEPT !.captured = NoFrame]
  <2>1. /\ SessionOK' /\ session'.pc = session.pc /\ session'.captured = NoFrame
        /\ session'.at = session.at /\ session'.late = session.late
        /\ session'.observed = session.observed /\ session'.consumed = session.consumed
        /\ session'.eligible = session.eligible /\ session'.qualified = session.qualified
    BY <1>5, Constants DEF Typed, SessionOK
  <2>2. Typed'
    BY <1>1, <1>2, <2>1, TypedFrame DEF Typed
  <2>3. LaneInv' /\ LeaseInv'
    BY <1>1, <1>5, <2>1, LaneFrame, LeaseFrame
  <2>4. SessionInv'
    BY <1>1, <2>1 DEF SessionInv
  <2>5. FactsInv' /\ PreviewInv'
    BY <1>1, <1>5, <2>1, FactsFrame, PreviewFrame
  <2> QED
    BY <2>2, <2>3, <2>4, <2>5
<1>6. CASE session.pc \in Closing /\ Closed(TRUE) /\ UNCHANGED facts
  BY <1>1, <1>2, <1>6, ClosedKeeps, TypedFrame DEF Typed
<1> QED
  BY <1>3, <1>4, <1>5, <1>6 DEF Cancel

-----------------------------------------------------------------------------
(* Every step.                                                                *)

LEMMA SessionMovesKeep ==
    ASSUME IInv, SessionMoves
    PROVE  IInv'
<1>1. CASE NoLease \/ NoMoreFrames \/ ObservationFails \/ NotYet
  BY <1>1, FailsOrWaits
<1>2. CASE \E eligible, held \in BOOLEAN : Observed(eligible, held)
  BY <1>2, ObservedKeeps
<1> QED
  BY <1>1, <1>2, TakeLeaseKeeps, TakeFrameKeeps, CaptureKeeps, StopKeeps, JoinedKeeps,
     RevokeKeeps, CloseEndsKeeps, CloseCancelsKeeps, ReleaseKeeps, QuietKeeps
     DEF SessionMoves, Observation

LEMMA StepKeeps == IInv /\ [Next]_vars => IInv'
<1> SUFFICES ASSUME IInv, [Next]_vars PROVE IInv'
  OBVIOUS
<1>1. CASE SessionMoves \/ Cancel \/ Deadline \/ SessionStarts
  BY <1>1, SessionMovesKeep, CancelKeeps, DeadlineKeeps, StartsKeep
<1>2. CASE LeaseExpires \/ Profiles \/ ProducerMoves \/ ObserverSettles
  BY <1>2, ExpiresKeeps, ProfilesKeep, ProducersKeep, SettlesKeeps
<1>3. CASE TickerTicks \/ TellFact
  BY <1>3, TickerKeeps, TellKeeps
<1>4. CASE \E r \in Readers : ReaderMoves(r)
  BY <1>4, ReadersKeep
<1>5. CASE UNCHANGED vars
  <2>1. Typed'
    BY <1>5, TypedFrame DEF IInv, Typed, vars
  <2>2. LaneInv' /\ SessionInv' /\ FactsInv' /\ PreviewInv'
    BY <1>5, LaneFrame, SessionFrame, FactsFrame, PreviewFrame DEF IInv, vars
  <2>3. LeaseInv'
    BY <1>5 DEF IInv, LeaseInv, vars
  <2> QED
    BY <2>1, <2>2, <2>3 DEF IInv
<1> QED
  BY <1>1, <1>2, <1>3, <1>4, <1>5 DEF Next

LEMMA Inductive == Spec => []IInv
BY InitHolds, StepKeeps, PTL DEF Spec

LEMMA TypesHold == IInv => TypeOK
<1> SUFFICES ASSUME IInv PROVE TypeOK
  OBVIOUS
<1>1. /\ facts.ticker \in {"none", "asleep", "queued"} /\ facts.told \in Frames \cup {NoFrame}
      /\ Len(facts.queue) <= 2
  <2>1. /\ facts.told \in 0..session.observed /\ session.observed \in FrameOrNone
        /\ facts.ticker \in {"none", "asleep", "queued"}
    BY QueueCases DEF IInv, Typed
  <2>2. facts.told \in FrameOrNone
    BY <2>1, AcquisitionAssumption DEF FrameOrNone, Frames, NoFrame
  <2>3. Len(facts.queue) <= 2
    <3>1. CASE session.pc = "telling" /\ facts.ticker = "queued"
      <4>1. PICK f, g : facts.queue \in {<<Ticker(f), Main(g)>>, <<Main(f), Ticker(g)>>}
        BY <3>1, QueueCases, Zenon DEF IInv, Typed
      <4> QED
        BY <4>1, AtMostTwo, Zenon
    <3>2. CASE session.pc = "telling" /\ facts.ticker # "queued"
      BY <3>2, QueueCases, AtMostTwo, Zenon DEF IInv, Typed
    <3>3. CASE session.pc # "telling" /\ facts.ticker = "queued"
      <4>1. PICK f : facts.queue = <<Ticker(f)>>
        BY <3>3, QueueCases, Zenon DEF IInv, Typed
      <4> QED
        BY <4>1, AtMostTwo, Zenon
    <3>4. CASE session.pc # "telling" /\ facts.ticker # "queued"
      <4>1. facts.queue = <<>>
        BY <3>4, QueueCases, Zenon DEF IInv, Typed
      <4> QED
        BY <4>1
    <3> QED
      BY <3>1, <3>2, <3>3, <3>4
  <2> QED
    BY <2>1, <2>2, <2>3 DEF FrameOrNone
<1> QED
  BY <1>1 DEF TypeOK, IInv, Typed, ProfileOK, SessionOK, ProducerOK, PreviewOK, ReaderOK,
     OwnersOK, Codes, FrameOrNone, AttemptOrNone

(* The camera (src/vision/camera_owner.py, src/vision/acquisition_session.py):  *)
(* whatever fails, is cancelled or runs late, an attempt reads only under its  *)
(* own lease, gives everything back when it is over, and its photograph is the *)
(* last frame the observer judged.                                             *)
THEOREM CameraInvHolds == Spec => []CameraInv
<1>1. IInv => CameraInv
  <2> SUFFICES ASSUME IInv PROVE CameraInv
    OBVIOUS
  <2>1. ReadsUnderOwnLease
    BY DEF ReadsUnderOwnLease, IInv, LaneInv, LeaseInv, Leasing
  <2>2. OverMeansReleased
    BY DEF OverMeansReleased, IInv, LaneInv, LeaseInv, PreviewInv, PreviewOfReader, Under,
       Leasing, Running
  <2>3. CapturedIsFinal
    BY DEF CapturedIsFinal, IInv, SessionInv
  <2> QED
    BY <2>1, <2>2, <2>3, TypesHold DEF CameraInv
<1> QED
  BY <1>1, Inductive, PTL

(* The preview (src/vision/acquisition_preview.py) shows one attempt, the one   *)
(* that reads, to one audience.  It is refused for held places only, and each   *)
(* belongs to a request under way or to one that left before its body began.    *)
THEOREM PreviewInvHolds == Spec => []PreviewInv
<1>1. IInv => PreviewInv
  BY DEF IInv
<1> QED
  BY <1>1, Inductive, PTL

(* The session's loop and the ticker tell facts in the order in which they were *)
(* observed (fact_lock of src/vision/acquisition_session.py).                   *)
THEOREM FactsInOrderHolds == Spec => FactsInOrder
<1>1. IInv /\ [Next]_vars => [facts'.told >= facts.told \/ facts' = NoFacts]_vars
  <2> SUFFICES ASSUME IInv, Next PROVE facts'.told >= facts.told \/ facts' = NoFacts
    OBVIOUS
  <2>1. facts.told \in Nat
    BY QueueCases DEF IInv, Typed
  <2>2. CASE TellFact
    BY <2>2, TellKeeps
  <2>3. CASE UNCHANGED facts \/ facts'.told = facts.told \/ facts' = NoFacts
    BY <2>1, <2>3
  <2>4. CASE LeaseExpires \/ Profiles \/ SessionStarts \/ Deadline \/ ObserverSettles
             \/ ProducerMoves \/ \E r \in Readers : ReaderMoves(r)
    <3>1. UNCHANGED facts
      BY <2>4 DEF LeaseExpires, SessionStarts, Deadline, ObserverSettles, OfSession, OfReaders,
         Profiles, ProfileStarts, ProfileOwns, ProfileGivesUp, ProfileEnters,
         ProfileSamples, ProfileLeaves, ProfileReleases,
         ProducerMoves, ProducerEnters, ProducerReads, ProducerFails, ProducerEnds,
         ProducerAborts, ProducerAborted, ReaderMoves, ReaderAsks, ReaderBegins, ReaderSent,
         ReaderWakes, ReaderDrops, ReaderNeverBegins, ReaderLeaves
    <3> QED
      BY <2>3, <3>1
  <2>5. CASE Cancel \/ TickerTicks \/ \E eligible, held \in BOOLEAN : Observed(eligible, held)
    <3>1. facts'.told = facts.told
      BY <2>5, QueueCases DEF Cancel, TickerTicks, Observed, IInv, Typed
    <3> QED
      BY <2>3, <3>1
  <2>6. CASE TakeLease
    <3>1. facts'.told = NoFrame /\ facts.told = NoFrame
      BY <2>6, QueueCases, Constants
         DEF TakeLease, NoFacts, IInv, Typed, FactsInv, Running
    <3> QED
      BY <2>3, <3>1
  <2>7. CASE SessionMoves /\ ~TakeLease
             /\ ~\E eligible, held \in BOOLEAN : Observed(eligible, held)
    <3>1. UNCHANGED facts \/ facts' = NoFacts
      BY <2>7 DEF SessionMoves, NoLease, TakeFrame, NoMoreFrames, Observation,
         ObservationFails, CaptureByHand, CaptureHeld, NotYet, Stop, Joined, Revoke,
         CloseEnds, CloseCancels, CloseGivesUp, ReleaseLease, Quiet
    <3> QED
      BY <2>3, <3>1
  <2> QED
    BY <2>2, <2>4, <2>5, <2>6, <2>7 DEF Next
<1> QED
  BY <1>1, Inductive, PTL DEF Spec, FactsInOrder

=============================================================================
