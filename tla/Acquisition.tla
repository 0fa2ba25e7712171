---------------------------- MODULE Acquisition ----------------------------
(***************************************************************************)
(* How a try-on attempt obtains its photograph: the lease of the front     *)
(* camera (src/vision/camera_owner.py), the session that reads frames,     *)
(* shows them and has them observed (src/vision/acquisition_session.py),   *)
(* the preview a screen streams meanwhile                                  *)
(* (src/vision/acquisition_preview.py) and the handlers of src/app.py      *)
(* which tie them together.  Against it runs the thread that samples the   *)
(* same camera for a profile (src/vision/profile_push.py).                 *)
(*                                                                         *)
(* Attempts are numbered in the order in which the registry starts them;   *)
(* TryOnAttempts shows that one has ended before the next begins.  A lease *)
(* stands for its owner and token: Vision, or the attempt in the token.    *)
(* A preview token and the attempt it was made for are one thing, tokens   *)
(* never being used twice.                                                 *)
(***************************************************************************)
EXTENDS Integers, Sequences, FiniteSets, FiniteSetsExt, SequencesExt

CONSTANTS
    Scenes,         \* who joins the attempts: sets of "profile", "readers", "ticker"
    MaxAttempts,    \* attempts that acquire, one after another
    MaxFrames,      \* frames a session reads
    Readers,        \* requests for the preview stream
    MaxReaders,     \* readers the preview admits at once
    MaxRequests,    \* preview requests in all
    MaxProfiles,    \* profile collections
    MaxSamples,     \* frames of a profile sequence
    MaxTicks,       \* turns of the ticker
    MaxCancels,     \* cancellations of the attempt's task
    MaxExpiries     \* leases that outlive their timeout

ASSUME AcquisitionAssumption ==
    /\ Scenes \subseteq SUBSET {"profile", "readers", "ticker"}
    /\ MaxTicks \in Nat
    /\ MaxAttempts \in Nat \ {0} /\ MaxFrames \in Nat \ {0}
    /\ MaxReaders \in Nat \ {0} /\ MaxRequests \in Nat /\ MaxProfiles \in Nat
    /\ MaxSamples \in Nat \ {0} /\ MaxCancels \in Nat /\ MaxExpiries \in Nat

VARIABLES
    lease,      \* FrontCameraOwner.owner with its lease_token
    lane,       \* the thread that holds _front_camera_io_lock
    profile,    \* the profile thread: where it is, frames sampled
    session,    \* AcquisitionSession.acquire of the attempt under way
    producer,   \* its producer task
    facts,      \* fact_lock's holder, then its waiters; the last fact told
    observer,   \* whether the observation worker has a request in hand
    preview,    \* AcquisitionPreviewStore: snapshot and _stubborn_closed
    reader,     \* the requests of read_acquisition_preview
    leases,     \* AcquisitionPreviewStore._readers
    left        \* what the bounds still allow

vars == <<lease, lane, profile, session, producer, facts, observer, preview,
          reader, leases, left>>

Attempts == 1..MaxAttempts
Frames == 1..MaxFrames
\* The lease's other owners, next to the attempts' numbers.
Idle == 0
Vision == -1
NoFrame == 0
NoAttempt == 0

IdleSession ==
    [at |-> NoAttempt, pc |-> "idle", late |-> FALSE, consumed |-> NoFrame,
     observed |-> NoFrame,     eligible |-> FALSE, stable |-> "off", qualified |-> NoFrame,
     captured |-> NoFrame, errors |-> FALSE]
NoProducer == [pc |-> "none", sequence |-> NoFrame, latest |-> NoFrame,
               changed |-> FALSE, opened |-> FALSE, failed |-> FALSE]
NoFacts == [queue |-> <<>>, ticker |-> "none", told |-> NoFrame]
NoPreview == [of |-> NoAttempt, jpeg |-> NoFrame]
NoRequest == [pc |-> "none", of |-> NoAttempt, jpeg |-> NoFrame, task |-> FALSE]

Init ==
    /\ lease = Idle /\ lane = "free"
    /\ profile = [pc |-> "idle", samples |-> 0]
    /\ session = IdleSession /\ producer = NoProducer /\ facts = NoFacts
    /\ observer = "free"
    /\ preview = [snapshot |-> NoPreview, stubborn |-> FALSE]
    /\ reader = [r \in Readers |-> NoRequest] /\ leases = {}
    /\ \E scene \in Scenes :
           left = [attempts |-> MaxAttempts, cancels |-> MaxCancels,
                   profiles |-> IF "profile" \in scene THEN MaxProfiles ELSE 0,
                   expiries |-> IF "profile" \in scene THEN MaxExpiries ELSE 0,
                   requests |-> IF "readers" \in scene THEN MaxRequests ELSE 0,
                   ticks |-> IF "ticker" \in scene THEN MaxTicks ELSE 0]

Spend(what) == left[what] > 0 /\ left' = [left EXCEPT ![what] = @ - 1]

-----------------------------------------------------------------------------
(* The lease.  Every call of FrontCameraOwner first drops a lease that is   *)
(* past its timeout, so the drop may as well happen by itself.  An attempt  *)
(* keeps a lease for the 30 seconds of its deadline and the timeout is 120: *)
(* its lease only runs out while its clean-up is late.  The age is read     *)
(* from the wall clock (time.time()): the clock is taken not to be set      *)
(* ahead by a minute and a half while an attempt reads.                     *)

LeaseExpires ==
    /\ lease = Vision \/ (lease \in Attempts /\ session.late)
    /\ lease' = Idle /\ Spend("expiries")
    /\ UNCHANGED <<lane, profile, session, producer, facts, observer, preview,
                   reader, leases>>

Granted(owner) ==
    IF owner = Vision THEN lease \in {Idle, Vision}
                        ELSE lease \in {Idle, Vision, owner}

Released(owner) == lease' = IF lease = owner THEN Idle ELSE lease

-----------------------------------------------------------------------------
(* The profile thread.                                                      *)

OfSession == <<session, producer, facts, observer, preview, reader, leases>>

ProfileStarts ==
    /\ profile.pc = "idle"
    /\ profile' = [pc |-> "owner", samples |-> 0] /\ Spend("profiles")
    /\ UNCHANGED <<lease, lane, OfSession>>

ProfileOwns ==
    /\ profile.pc = "owner" /\ Granted(Vision)
    /\ lease' = Vision /\ profile' = [profile EXCEPT !.pc = "lane"]
    /\ UNCHANGED <<lane, left, OfSession>>

ProfileGivesUp ==
    /\ profile.pc = "owner" /\ ~Granted(Vision)
    /\ profile' = [profile EXCEPT !.pc = "idle"]
    /\ UNCHANGED <<lease, lane, left, OfSession>>

ProfileEnters ==
    /\ profile.pc = "lane" /\ lane = "free"
    /\ lane' = "profile" /\ profile' = [profile EXCEPT !.pc = "sequence"]
    /\ UNCHANGED <<lease, left, OfSession>>

ProfileSamples ==
    /\ profile.pc = "sequence" /\ profile.samples < MaxSamples
    /\ lease = Vision
    /\ profile' = [profile EXCEPT !.samples = @ + 1]
    /\ UNCHANGED <<lease, lane, left, OfSession>>

\* The sequence is complete, is cancelled, or finds that the lease has gone.
ProfileLeaves ==
    /\ profile.pc = "sequence"
    /\ lane' = "free" /\ profile' = [pc |-> "release", samples |-> 0]
    /\ UNCHANGED <<lease, left, OfSession>>

ProfileReleases ==
    /\ profile.pc = "release"
    /\ Released(Vision) /\ profile' = [profile EXCEPT !.pc = "idle"]
    /\ UNCHANGED <<lane, left, OfSession>>

-----------------------------------------------------------------------------
(* The session.  Its task goes from "lane" (waiting for the I/O lane to     *)
(* take the lease) over "wait", "observing", "telling" and "deciding" back  *)
(* to "wait"; then "stop", "join" (the producer and the ticker), "close"    *)
(* (the preview), "release" and "quiet" (the observer).  An attempt that    *)
(* did not obtain its frame closes the preview once more.                   *)

Running == {"wait", "observing", "telling", "deciding"}
Closing == {"natural", "draining", "revoke natural", "revoke draining"}

At(pc) == session' = [session EXCEPT !.pc = pc]
Fails == At("stop")
Others == <<lane, profile, reader, left>>

SessionStarts ==
    /\ session.pc = "idle"
    /\ session' = [IdleSession EXCEPT !.at = MaxAttempts - left.attempts + 1, !.pc = "lane"]
    /\ Spend("attempts")
    /\ UNCHANGED <<lease, lane, profile, producer, facts, observer, preview,
                   reader, leases>>

Deadline ==
    /\ session.pc \in Running \cup {"lane", "join"} /\ ~session.late
    /\ session' = [session EXCEPT !.late = TRUE]
    /\ UNCHANGED <<lease, producer, facts, observer, preview, leases, Others>>

\* The lane is a re-entrant lock: only the other thread keeps it taken.
TakeLease ==
    /\ session.pc = "lane" /\ lane # "profile" /\ ~session.late
    /\ Granted(session.at)
    /\ lease' = session.at /\ At("wait")
    /\ producer' = [NoProducer EXCEPT !.pc = "loop"]
    /\ facts' = [NoFacts EXCEPT !.ticker = "asleep"]
    /\ UNCHANGED <<observer, preview, leases, Others>>

\* Refused or out of time: nothing was taken, the attempt only revokes.
NoLease ==
    /\ session.pc = "lane"
    /\ session.late \/ (lane # "profile" /\ ~Granted(session.at))
    /\ At("revoke")
    /\ UNCHANGED <<lease, producer, facts, observer, preview, leases, Others>>

\* The newest frame only: those in between were overwritten.  The worker
\* refuses a frame while it still has one of an earlier attempt in hand.
TakeFrame ==
    /\ session.pc = "wait" /\ ~session.late
    /\ producer.changed /\ ~producer.failed
    /\ producer' = [producer EXCEPT !.changed = FALSE]
    /\ IF producer.latest \in {NoFrame, session.consumed}
       THEN UNCHANGED <<session, observer>>
       ELSE /\ session' = [session EXCEPT
                    !.consumed = producer.latest,
                    !.pc = IF observer = "busy" THEN "stop" ELSE "observing"]
            /\ observer' = "busy"
    /\ UNCHANGED <<lease, facts, preview, leases, Others>>

\* The producer failed or the deadline passed.
NoMoreFrames ==
    /\ session.pc = "wait"
    /\ session.late \/ producer.failed
    /\ Fails
    /\ UNCHANGED <<lease, producer, facts, observer, preview, leases, Others>>

\* The observer answers; the fact is queued behind those already told.
Observed(eligible, held) ==
    /\ session.pc = "observing"
    /\ held => eligible /\ session.stable # "off"
    /\ session' = [session EXCEPT
            !.eligible = eligible, !.observed = session.consumed,
            !.qualified = IF eligible THEN session.consumed ELSE NoFrame,
            !.stable = IF ~eligible THEN "off" ELSE IF held THEN "held" ELSE "on",
            !.pc = "telling"]
    /\ facts' = [facts EXCEPT
            !.queue = Append(@, [by |-> "main", fact |-> session.consumed])]
    /\ observer' = "free"
    /\ UNCHANGED <<lease, producer, preview, leases, Others>>

ObservationFails ==
    /\ session.pc = "observing"
    /\ Fails /\ observer' = "free"
    /\ UNCHANGED <<lease, producer, facts, preview, leases, Others>>

CaptureByHand ==
    /\ session.pc = "deciding" /\ session.eligible
    /\ session' = [session EXCEPT !.captured = session.consumed, !.pc = "stop"]
    /\ UNCHANGED <<lease, producer, facts, observer, preview, leases, Others>>

CaptureHeld ==
    /\ session.pc = "deciding" /\ session.stable = "held"
    /\ session.qualified # NoFrame
    /\ session' = [session EXCEPT !.captured = session.qualified, !.pc = "stop"]
    /\ UNCHANGED <<lease, producer, facts, observer, preview, leases, Others>>

NotYet ==
    /\ session.pc = "deciding" /\ session.stable # "held"
    /\ At("wait")
    /\ UNCHANGED <<lease, producer, facts, observer, preview, leases, Others>>

Stop ==
    /\ session.pc = "stop"
    /\ At("join") /\ facts' = NoFacts
    /\ UNCHANGED <<lease, producer, observer, preview, leases, Others>>

ClosesPreview ==
    preview' = IF preview.snapshot.of = session.at
               THEN [preview EXCEPT !.snapshot = NoPreview] ELSE preview

Joined ==
    /\ session.pc = "join" /\ producer.pc = "ended"
    /\ producer' = NoProducer
    /\ ClosesPreview /\ At("natural")
    /\ UNCHANGED <<lease, facts, observer, leases, Others>>

Revoke ==
    /\ session.pc = "revoke"
    /\ ClosesPreview /\ At("revoke natural")
    /\ UNCHANGED <<lease, producer, facts, observer, leases, Others>>

\* Slip: an error of the preview's clean-up skips the camera's.
ClosedOrAbandoned(error) ==
    session' = IF session.pc \in {"revoke natural", "revoke draining"}
               THEN IdleSession
               ELSE [session EXCEPT !.pc = IF error THEN "quiet" ELSE "release",
                                    !.errors = error]

\* The end of AcquisitionPreviewStore.close: in revoke it only logs an error.
Closed(error) ==
    session' = IF session.pc \in {"revoke natural", "revoke draining"}
               THEN IdleSession
               ELSE [session EXCEPT !.pc = "release", !.errors = error]

CloseEnds ==
    /\ session.pc \in Closing /\ leases = {}
    /\ Closed(FALSE)
    /\ UNCHANGED <<lease, producer, facts, observer, preview, leases, Others>>

CloseCancels ==
    /\ session.pc \in {"natural", "revoke natural"} /\ leases # {}
    /\ At(IF session.pc = "natural" THEN "draining" ELSE "revoke draining")
    /\ reader' = [r \in Readers |-> IF reader[r].task
                    THEN [reader[r] EXCEPT !.pc = "cancelled"] ELSE reader[r]]
    /\ UNCHANGED <<lease, lane, profile, producer, facts, observer, preview,
                   leases, left>>

\* Slip: close waits for a stream that has not registered its task.
CloseWaitsForTasks ==
    /\ session.pc \in {"draining", "revoke draining"} /\ leases # {}
    /\ \A r \in leases : reader[r].task
    /\ preview' = [preview EXCEPT !.stubborn = TRUE] /\ Closed(TRUE)
    /\ UNCHANGED <<lease, producer, facts, observer, leases, Others>>

\* A cancelled reader needs one turn of the loop, close waits for a second.
CloseGivesUp ==
    /\ session.pc \in {"draining", "revoke draining"} /\ leases # {}
    /\ \A r \in leases : reader[r].pc # "cancelled"
    /\ preview' = [preview EXCEPT !.stubborn = TRUE] /\ Closed(TRUE)
    /\ UNCHANGED <<lease, producer, facts, observer, leases, Others>>

\* A lease that is no longer this attempt's is an error, but no obstacle.
ReleaseLease ==
    /\ session.pc = "release"
    /\ Released(session.at)
    /\ session' = [session EXCEPT !.pc = "quiet",
                                  !.errors = @ \/ lease # session.at]
    /\ UNCHANGED <<producer, facts, observer, preview, leases, Others>>

\* With its frame the attempt leaves this module; without it, it revokes.
Quiet ==
    /\ session.pc = "quiet" /\ observer = "free"
    /\ session' = IF session.captured # NoFrame /\ ~session.errors
                  THEN IdleSession ELSE [session EXCEPT !.pc = "revoke"]
    /\ UNCHANGED <<lease, producer, facts, observer, preview, leases, Others>>

\* The session's fact leaves the queue with its task.
WithoutMain(queue) ==
    RemoveAt(queue, CHOOSE i \in DOMAIN queue : queue[i].by = "main")

\* The attempt's task is cancelled where it awaits.  gather() still waits for
\* its tasks, and each part of the clean-up is interrupted on its own.
Cancel ==
    /\ Spend("cancels")
    /\ \/ session.pc = "lane" /\ At("revoke") /\ UNCHANGED facts
       \/ /\ session.pc \in Running /\ Fails
          /\ facts' = IF session.pc = "telling"
                       THEN [facts EXCEPT !.queue = WithoutMain(@)] ELSE facts
       \/ /\ session.pc \in {"stop", "join"}
          /\ session' = [session EXCEPT !.captured = NoFrame] /\ UNCHANGED facts
       \/ session.pc \in Closing /\ Closed(TRUE) /\ UNCHANGED facts
       \/ session.pc = "quiet" /\ At("revoke") /\ UNCHANGED facts
    /\ UNCHANGED <<lease, lane, profile, producer, observer, preview, reader,
                   leases>>

\* The request of a cancelled observation is over once its child is dead.
ObserverSettles ==
    /\ observer = "busy" /\ session.pc # "observing"
    /\ observer' = "free"
    /\ UNCHANGED <<lease, session, producer, facts, preview, leases, Others>>

-----------------------------------------------------------------------------
(* The producer reads through _read_attempt_front_frame, which keeps the    *)
(* I/O lane until the read is over, or until the broker of a cancelled read *)
(* is dead and started anew.                                                *)

Cancelled == session.pc = "join"

ProducerEnters ==
    /\ producer.pc = "loop" /\ ~session.late /\ ~Cancelled
    /\ producer.sequence < MaxFrames
    /\ lane = "free"
    /\ lane' = "loop" /\ producer' = [producer EXCEPT !.pc = "reading"]
    /\ UNCHANGED <<lease, profile, session, facts, observer, preview, reader,
                   leases, left>>

\* Slip: the preview opens while streams of an earlier attempt go on.
ProducerReadsAndOpens ==
    /\ producer.pc = "reading" /\ ~Cancelled
    /\ lane' = "free"
    /\ producer' = [producer EXCEPT !.pc = "loop", !.sequence = @ + 1,
                     !.latest = producer.sequence + 1, !.changed = TRUE,
                     !.opened = TRUE]
    /\ preview' = [preview EXCEPT
           !.snapshot = [of |-> session.at, jpeg |-> producer.sequence + 1]]
    /\ UNCHANGED <<lease, profile, session, facts, observer, reader, leases,
                   left>>

\* A frame is shown, opening the preview if it is the first, then handed over.
ProducerReads ==
    /\ producer.pc = "reading" /\ ~Cancelled
    /\ lane' = "free"
    /\ LET frame == producer.sequence + 1 IN
       IF ~producer.opened /\ (preview.stubborn \/ leases # {})
       THEN /\ producer' = [producer EXCEPT !.pc = "ended", !.failed = TRUE]
            /\ UNCHANGED preview
       ELSE /\ producer' = [producer EXCEPT !.pc = "loop", !.sequence = frame,
                              !.latest = frame, !.changed = TRUE, !.opened = TRUE]
            /\ preview' = IF producer.opened /\ preview.snapshot.of # session.at
                          THEN preview
                          ELSE [preview EXCEPT
                                  !.snapshot = [of |-> session.at, jpeg |-> frame]]
    /\ UNCHANGED <<lease, profile, session, facts, observer, reader, leases,
                   left>>

ProducerFails ==
    /\ producer.pc = "reading" /\ ~Cancelled
    /\ lane' = "free"
    /\ producer' = [producer EXCEPT !.pc = "ended", !.failed = TRUE]
    /\ UNCHANGED <<lease, profile, session, facts, observer, preview, reader,
                   leases, left>>

\* At the deadline, or without the lane until then, it ends by itself.
ProducerEnds ==
    /\ producer.pc = "loop" /\ (session.late \/ Cancelled)
    /\ producer' = [producer EXCEPT !.pc = "ended"]
    /\ UNCHANGED <<lease, session, facts, observer, preview, leases, Others>>

ProducerAborts ==
    /\ producer.pc = "reading" /\ Cancelled
    /\ producer' = [producer EXCEPT !.pc = "aborting"]
    /\ UNCHANGED <<lease, session, facts, observer, preview, leases, Others>>

ProducerAborted ==
    /\ producer.pc = "aborting"
    /\ lane' = "free" /\ producer' = [producer EXCEPT !.pc = "ended"]
    /\ UNCHANGED <<lease, profile, session, facts, observer, preview, reader,
                   leases, left>>

\* The ticker computes the fact before it queues for the lock.
TickerTicks ==
    /\ facts.ticker = "asleep" /\ session.pc \in Running /\ ~session.late
    /\ session.observed # NoFrame
    /\ facts' = [facts EXCEPT !.ticker = "queued",
            !.queue = Append(@, [by |-> "ticker", fact |-> session.observed])]
    /\ Spend("ticks")
    /\ UNCHANGED <<lease, lane, profile, session, producer, observer, preview,
                   reader, leases>>

\* The i-th in the queue tells its fact; an asyncio lock serves them in turn.
Tells(i) ==
    /\ facts' = [queue |-> RemoveAt(facts.queue, i),
                 told |-> facts.queue[i].fact,
                 ticker |-> IF facts.queue[i].by = "ticker" THEN "asleep"
                                                            ELSE facts.ticker]
    /\ IF facts.queue[i].by = "main" THEN At("deciding") ELSE UNCHANGED session
    /\ UNCHANGED <<lease, producer, observer, preview, leases, Others>>

\* Slip: no lock orders the two tellers.
TellAnyFact == \E i \in 1..Len(facts.queue) : Tells(i)

TellFact == facts.queue # <<>> /\ Tells(1)

-----------------------------------------------------------------------------
(* The requests for the stream.                                             *)

OfReaders == <<lease, lane, profile, session, producer, facts, observer>>

\* get, then acquire: the token is the current one and a place is free.
ReaderAsks(r) ==
    /\ reader[r].pc = "none"
    /\ preview.snapshot.of # NoAttempt /\ Cardinality(leases) < MaxReaders
    /\ leases' = leases \cup {r} /\ Spend("requests")
    /\ reader' = [reader EXCEPT ![r] = [pc |-> "leased", task |-> FALSE,
                    of |-> preview.snapshot.of, jpeg |-> preview.snapshot.jpeg]]
    /\ UNCHANGED <<OfReaders, preview>>

\* The body of the response begins: register_task.
ReaderBegins(r) ==
    /\ reader[r].pc = "leased"
    /\ reader' = [reader EXCEPT ![r].pc = "sending", ![r].task = r \in leases]
    /\ UNCHANGED <<OfReaders, preview, leases, left>>

ReaderSent(r) ==
    /\ reader[r].pc = "sending"
    /\ reader' = [reader EXCEPT ![r].pc = "waiting"]
    /\ UNCHANGED <<OfReaders, preview, leases, left>>

\* wait_for_change, then the finally clause when the token is closed.
ReaderLeaves(r) ==
    /\ reader' = [reader EXCEPT ![r] = NoRequest]
    /\ leases' = leases \ {r}
    /\ preview' = [preview EXCEPT !.stubborn = @ /\ leases' # {}]
    /\ UNCHANGED <<OfReaders, left>>

ReaderWakes(r) ==
    /\ reader[r].pc = "waiting"
    /\ IF preview.snapshot.of # reader[r].of
       THEN ReaderLeaves(r)
       ELSE /\ preview.snapshot.jpeg # reader[r].jpeg
            /\ reader' = [reader EXCEPT ![r].pc = "sending",
                                        ![r].jpeg = preview.snapshot.jpeg]
            /\ UNCHANGED <<OfReaders, preview, leases, left>>

\* The client leaves in mid-stream, or close has cancelled the stream.
ReaderDrops(r) ==
    reader[r].pc \in {"sending", "waiting", "cancelled"} /\ ReaderLeaves(r)

\* The client leaves before the body: a generator that was never entered has
\* no finally clause to run.
ReaderNeverBegins(r) ==
    /\ reader[r].pc = "leased"
    /\ reader' = [reader EXCEPT ![r].pc = "gone"]
    /\ UNCHANGED <<OfReaders, preview, leases, left>>

-----------------------------------------------------------------------------
Profiles ==
    \/ ProfileStarts \/ ProfileOwns \/ ProfileGivesUp \/ ProfileEnters
    \/ ProfileSamples \/ ProfileLeaves \/ ProfileReleases

Observation ==
    \/ \E eligible, held \in BOOLEAN : Observed(eligible, held)
    \/ ObservationFails

SessionMoves ==
    \/ TakeLease \/ NoLease \/ TakeFrame \/ NoMoreFrames \/ Observation
    \/ CaptureByHand \/ CaptureHeld \/ NotYet
    \/ Stop \/ Joined \/ Revoke \/ CloseEnds \/ CloseCancels \/ CloseGivesUp
    \/ ReleaseLease \/ Quiet

ProducerMoves ==
    \/ ProducerEnters \/ ProducerReads \/ ProducerFails \/ ProducerEnds
    \/ ProducerAborts \/ ProducerAborted

ReaderMoves(r) ==
    \/ ReaderAsks(r) \/ ReaderBegins(r) \/ ReaderSent(r) \/ ReaderWakes(r)
    \/ ReaderDrops(r) \/ ReaderNeverBegins(r)

Next ==
    \/ LeaseExpires \/ Profiles \/ SessionStarts \/ Deadline \/ SessionMoves
    \/ Cancel \/ ObserverSettles \/ ProducerMoves \/ TickerTicks \/ TellFact
    \/ \E r \in Readers : ReaderMoves(r)

Spec == Init /\ [][Next]_vars

\* The event loop serves every task, the clock reaches every deadline, a
\* cancelled stream ends and a dead observer is noticed.  Nothing is assumed
\* of clients, of the profile thread or of the frames.
FairSpec ==
    /\ Spec
    /\ WF_vars(SessionMoves) /\ WF_vars(Deadline) /\ WF_vars(ObserverSettles)
    /\ WF_vars(ProducerMoves) /\ WF_vars(TellFact)
    /\ \A r \in Readers : WF_vars(reader[r].pc = "cancelled" /\ ReaderDrops(r))

-----------------------------------------------------------------------------
TypeOK ==
    /\ lease \in Attempts \cup {Idle, Vision}
    /\ lane \in {"free", "loop", "profile"}
    /\ profile \in [pc : {"idle", "owner", "lane", "sequence", "release"},
                    samples : 0..MaxSamples]
    /\ session \in [at : Attempts \cup {NoAttempt},
            pc : Running \cup Closing \cup
                 {"idle", "lane", "stop", "join", "release", "quiet", "revoke"},
            late : BOOLEAN, consumed : Frames \cup {NoFrame},
            observed : Frames \cup {NoFrame}, eligible : BOOLEAN,
            stable : {"off", "on", "held"}, qualified : Frames \cup {NoFrame},
            captured : Frames \cup {NoFrame}, errors : BOOLEAN]
    /\ producer \in [pc : {"none", "loop", "reading", "aborting", "ended"},
            sequence : Frames \cup {NoFrame}, latest : Frames \cup {NoFrame},
            changed : BOOLEAN, opened : BOOLEAN, failed : BOOLEAN]
    /\ facts.ticker \in {"none", "asleep", "queued"}
    /\ facts.told \in Frames \cup {NoFrame} /\ Len(facts.queue) <= 2
    /\ observer \in {"free", "busy"}
    /\ preview \in [snapshot : [of : Attempts \cup {NoAttempt},
                                jpeg : Frames \cup {NoFrame}], stubborn : BOOLEAN]
    /\ reader \in [Readers ->
            [pc : {"none", "leased", "sending", "waiting", "cancelled", "gone"},
             of : Attempts \cup {NoAttempt}, jpeg : Frames \cup {NoFrame},
             task : BOOLEAN]]
    /\ leases \subseteq Readers

\* The photograph is the last frame the observer has seen, and it was judged
\* single and aligned ("only the final single-and-aligned inference frame").
CapturedIsFinal ==
    session.captured # NoFrame =>
        session.eligible /\ session.captured = session.consumed

\* Whatever fails or is cancelled on the way, an attempt that is over holds no
\* lease, so that none refuses the next one; and neither its producer nor its
\* preview outlives it.
OverMeansReleased ==
    session.pc = "idle" => /\ lease \notin Attempts
                           /\ producer.pc \in {"none", "ended"}
                           /\ preview.snapshot = NoPreview

\* An attempt reads, and aborts reads, under its own lease until its deadline;
\* a profile sequence that has begun is not preempted.
ReadsUnderOwnLease ==
    /\ producer.pc \in {"reading", "aborting"} /\ ~session.late =>
           lease = session.at
    /\ profile.samples > 0 => lease \notin Attempts

\* The camera is read under a lease by one at a time, is given back whatever
\* happens, and the photograph taken with it is the frame that was judged.
CameraInv == TypeOK /\ ReadsUnderOwnLease /\ OverMeansReleased /\ CapturedIsFinal

\* The preview shows frames of the attempt that reads, and is closed before
\* its lease is given back.
PreviewOfReader ==
    preview.snapshot # NoPreview =>
        /\ session.at = preview.snapshot.of
        /\ session.pc \in Running \cup {"stop", "join"}

\* The streams of two attempts never overlap: every stream that holds a place
\* was opened for one token, the current one if there is one.
OneAudience ==
    \A r, s \in leases : /\ reader[r].of = reader[s].of
                         /\ preview.snapshot.of \in {NoAttempt, reader[r].of}

\* The next attempt's preview is refused for places that are held, by the mark
\* or without it, and a place is held by a request under way or by one whose
\* client left before its body began; that one keeps it, and the preview is
\* refused from then on (PlacesAreReturned).  The mark goes with the last place,
\* and a stream that close cannot see (no task) has sent nothing.
RefusedForPlaces ==
    /\ preview.stubborn => leases # {}
    /\ \A r \in Readers :
          /\ r \in leases <=> reader[r].pc # "none"
          /\ reader[r].task <=> reader[r].pc \in {"sending", "waiting", "cancelled"}

\* The preview belongs to one attempt and one audience at a time, and nothing
\* but a place that is held keeps it from the next attempt.
PreviewInv == PreviewOfReader /\ OneAudience /\ RefusedForPlaces

\* Every place taken in the preview belongs to a request in progress ("the
\* generator finalizer, returning the bounded lease even when the client
\* drops", src/app.py:587).
PlacesAreReturned == \A r \in leases : reader[r].pc # "gone"

\* Main loop and ticker tell the screen their facts in the order in which they
\* were observed, though both await while they tell them.
FactsInOrder == [][facts'.told >= facts.told \/ facts' = NoFacts]_vars

\* Every attempt's acquisition ends, its clean-up included.
SessionsEnd == session.pc # "idle" ~> session.pc = "idle"
=============================================================================
