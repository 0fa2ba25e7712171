---------------------------- MODULE TopOccupancy ----------------------------
(***************************************************************************)
(* From one frame of the top camera to what a poll reports: the proximity  *)
(* check (src/vision/proximity.py), the tracks and the vote of             *)
(* src/vision/top_occupancy_detector.py, the protocol occupancy, its       *)
(* debounce and the profile's track of src/vision/profile_state.py.        *)
(* PresenceProfile takes what a poll observes from a set; here it is       *)
(* computed.                                                               *)
(*                                                                         *)
(* A frame is what the detectors report of it.  A box is its place on a    *)
(* line and its size; boxes overlap the more the nearer they are.          *)
(***************************************************************************)
EXTENDS Integers, Sequences, SequencesExt

CONSTANTS
    Places,         \* places of a person's box, Nat
    Spots,          \* places of the box of a face or of a pose, Nat
    Centre,         \* the middle of the picture, one of each
    MaxBoxes,       \* boxes in one frame
    Reach,          \* greatest distance with an overlap of track_iou_threshold
    HistorySize,    \* history_size
    NoneMin,        \* present_min_frames, of the vote and of the debounce
    SingleMin,      \* single_min_frames
    MultipleMin,    \* multiple_min_frames
    AbsentTicks,    \* absent_min_seconds
    MaxMissed,      \* track_max_missed_frames
    MaxMissing,     \* PROFILE_TRACK_MAX_MISSING_FRAMES
    MaxShift,       \* PROFILE_TRACK_MAX_CENTER_SHIFT
    MinMatchScore,  \* PROFILE_TRACK_MIN_MATCH_SCORE, in percent
    CloseFrames     \* PROXIMITY_CLOSE_CONSECUTIVE_FRAMES

ASSUME OccupancyAssumption ==
    /\ Places \cup Spots \subseteq Nat /\ Centre \in Places \cap Spots
    /\ {MaxBoxes, HistorySize, NoneMin, SingleMin, MultipleMin, AbsentTicks,
        MaxShift, CloseFrames} \subseteq Nat \ {0}
    /\ {Reach, MaxMissed, MaxMissing} \subseteq Nat /\ MinMatchScore \in 0..100

VARIABLES
    tracks,      \* TopOccupancyDetector.tracks, oldest first
    history,     \* its votes
    quiet,       \* time since last_present_at, up to AbsentTicks
    stable,      \* last_stable_occupancy
    closeStreak, \* ProximityMonitor.close_streak, up to CloseFrames
    filter,      \* ResponsiveOccupancyFilter
    occupancy,   \* what the last poll reported
    track,       \* _active_track
    recent,      \* the last frames, for the properties
    found        \* where the last poll found somebody, for the properties

vars == <<tracks, history, quiet, stable, closeStreak, filter, occupancy, track,
          recent, found>>

Occupied == {"single", "multiple"}
Occupancies == Occupied \cup {"none", "unknown"}
Nowhere == -1
NoSignature == [kind |-> "none", at |-> Centre, size |-> 0]
NoTrack == [sig |-> NoSignature, missing |-> 0, active |-> FALSE, started |-> FALSE]

\* Of a box: too small to be somebody, somebody, somebody who is close.
Sizes == 0..2
NoBox == [at |-> Centre, size |-> 0]
Spotted == {b \in [at : Spots, size : Sizes] : b.size = 0 => b = NoBox}

\* What the person model reports of a frame: the boxes, the largest first and of
\* that size.  A model that is not ready reports none.
Frames ==
    {f \in [ready : BOOLEAN, boxes : BoundedSeq(Places, MaxBoxes), size : Sizes] :
        /\ ~f.ready => f.boxes = <<>>
        /\ f.boxes = <<>> => f.size = 0}

\* What faces and pose add to it: the number of faces and the largest, and the
\* pose, where one too small counts for none.
Glimpses ==
    {g \in [faces : 0..2, face : Spotted, body : Spotted] :
        g.faces = 0 => g.face = NoBox}

Init ==
    /\ tracks = <<>> /\ history = <<>> /\ quiet = AbsentTicks /\ stable = "none"
    /\ closeStreak = 0 /\ filter = [streak |-> 0, last |-> "none"]
    /\ occupancy = "none" /\ track = NoTrack
    /\ recent = <<>> /\ found = Nowhere

LastOf(s, n) == IF Len(s) <= n THEN s ELSE SubSeq(s, Len(s) - n + 1, Len(s))
Capped(n, bound) == IF n < bound THEN n ELSE bound
Distance(p, q) == IF p < q THEN q - p ELSE p - q

-----------------------------------------------------------------------------
(* Tracks: each takes, oldest first, the free box it overlaps most.         *)

Candidates(t, boxes, free) == {b \in free : Distance(t.at, boxes[b]) <= Reach}

Best(t, boxes, free) ==
    CHOOSE b \in Candidates(t, boxes, free) :
        \A c \in Candidates(t, boxes, free) :
            \/ Distance(t.at, boxes[b]) < Distance(t.at, boxes[c])
            \/ Distance(t.at, boxes[b]) = Distance(t.at, boxes[c]) /\ b <= c

Matched(boxes) ==
    FoldLeft(LAMBDA acc, t :
                 IF Candidates(t, boxes, acc.free) = {}
                 THEN [acc EXCEPT !.now = Append(@, [t EXCEPT !.missed = @ + 1])]
                 ELSE LET b == Best(t, boxes, acc.free)
                      IN  [free |-> acc.free \ {b},
                           now |-> Append(acc.now, [at |-> boxes[b], missed |-> 0])],
             [free |-> DOMAIN boxes, now |-> <<>>], tracks)

\* Slip: a box that one track takes stays free for the others.
TracksOfShared(boxes) ==
    LET all == [free |-> DOMAIN boxes, now |-> <<>>]
        now == [i \in DOMAIN tracks |->
                   IF Candidates(tracks[i], boxes, all.free) = {}
                   THEN [tracks[i] EXCEPT !.missed = @ + 1]
                   ELSE [at |-> boxes[Best(tracks[i], boxes, all.free)],
                         missed |-> 0]]
    IN  SelectSeq(now \o SelectSeq([i \in DOMAIN boxes |->
                                       [at |-> boxes[i], missed |-> 0]],
                                   LAMBDA n : \A i \in DOMAIN now : now[i].at # n.at),
                  LAMBDA t : t.missed <= MaxMissed)

\* Boxes that no track takes start tracks of their own; lost ones go.
TracksOf(boxes) ==
    LET result == Matched(boxes)
        fresh == SelectSeq([i \in DOMAIN boxes |-> i], LAMBDA i : i \in result.free)
        started == [i \in DOMAIN fresh |-> [at |-> boxes[fresh[i]], missed |-> 0]]
    IN  SelectSeq(result.now \o started, LAMBDA t : t.missed <= MaxMissed)

-----------------------------------------------------------------------------
(* The vote over the last frames.                                           *)

Kind(n) == IF n = 0 THEN "none" ELSE IF n = 1 THEN "single" ELSE "multiple"

\* Tracks never prolong an occupancy: only the boxes of the frame count.
FrameKind(f) == Kind(Len(f.boxes))

Votes(f) == LastOf(Append(history, FrameKind(f)), HistorySize)

\* How long nobody has been seen, when a poll comes soon or late.
QuietAfter(f, late) ==
    IF f.boxes # <<>> THEN 0
    ELSE IF late THEN AbsentTicks ELSE Capped(quiet + 1, AbsentTicks)

Required(kind) ==
    CASE kind = "none" -> NoneMin [] kind = "single" -> SingleMin
      [] kind = "multiple" -> MultipleMin

Carries(votes, kind) ==
    Len(SelectSeq(votes, LAMBDA v : v = kind)) >= Required(kind)

\* Whoever was just seen stays; else many before one before none.
Vote(f, late) ==
    LET votes == Votes(f)
        just == QuietAfter(f, late) < AbsentTicks /\ Last(votes) = "none"
    IN  IF ~f.ready THEN "unknown"
        ELSE IF just THEN stable
        ELSE IF Carries(votes, "multiple") THEN "multiple"
        ELSE IF Carries(votes, "single") THEN "single"
        ELSE IF Carries(votes, "none") THEN "none" ELSE "unknown"

\* Only a vote that carries changes it.
Stable(f, late) ==
    IF Vote(f, late) = "unknown" THEN stable ELSE Vote(f, late)

-----------------------------------------------------------------------------
(* The proximity check: person, then face; the pose only if neither holds.  *)

\* A box that is large enough, or no box but a vote, which the frame may outlive.
PersonPresent(f, top) == f.ready /\ (f.size >= 1 \/ top \in Occupied)

\* The pose is only asked for where neither a person nor a close face is found.
\* Where the signature is another's, the place of a face or of a pose is as good
\* as any.
Glimpsed(f, top) ==
    {g \in Glimpses :
        /\ PersonPresent(f, top) \/ g.face.size = 2 => g.body = NoBox
        /\ PersonPresent(f, top) /\ f.boxes # <<>> => g.face.at = Centre
        /\ g.face.size >= 1 => g.body.at = Centre}

\* target_signature_from_proximity: the largest box, else the face, the pose;
\* without any, as in a frame that the vote bridges, the middle of the picture.
Signature(f, g, person) ==
    IF person /\ f.boxes # <<>>
    THEN [kind |-> "person", at |-> f.boxes[1], size |-> f.size]
    ELSE IF g.face.size >= 1
    THEN [kind |-> "face", at |-> g.face.at, size |-> g.face.size]
    ELSE IF g.body.size >= 1
    THEN [kind |-> "body", at |-> g.body.at, size |-> g.body.size]
    ELSE IF person THEN [kind |-> "unknown", at |-> Centre, size |-> 0]
    ELSE NoSignature

\* What ProximityMonitor.check_image returns of a frame on which the vote is top.
Proximity(f, g, top) ==
    LET person == PersonPresent(f, top)
        face == g.face.size >= 1
        body == g.body.size >= 1
    IN  [top |-> top, count |-> Len(f.boxes), faces |-> g.faces,
         face |-> face, body |-> body, present |-> person \/ face \/ body,
         closeNow |-> 2 \in {f.size, g.face.size, g.body.size},
         sig |-> Signature(f, g, person)]

\* The number of close frames in a row.
StreakAfter(p) == IF p.closeNow THEN Capped(closeStreak + 1, CloseFrames) ELSE 0

\* protocol_occupancy_snapshot
Protocol(p) ==
    IF p.top = "multiple" \/ p.count > 1 \/ p.faces > 1 THEN "multiple"
    ELSE IF p.top = "single" \/ p.present THEN "single"
    ELSE IF p.top = "unknown" THEN "unknown" ELSE "none"

\* has_current_evidence
Evidence(p) == p.count > 0 \/ p.faces > 0 \/ p.body

\* Slip: a frame with evidence does not end the streak of those without.
FilterKeepingStreak(p) ==
    IF Evidence(p)
    THEN [filter EXCEPT !.last = IF Protocol(p) \in Occupied THEN Protocol(p) ELSE @]
    ELSE LET streak == Capped(filter.streak + 1, NoneMin)
         IN  [streak |-> streak,
              last |-> IF streak >= NoneMin THEN "none" ELSE filter.last]

\* ResponsiveOccupancyFilter.update
FilterAfter(p) ==
    IF Evidence(p)
    THEN [streak |-> 0,
          last |-> IF Protocol(p) \in Occupied THEN Protocol(p) ELSE filter.last]
    ELSE LET streak == Capped(filter.streak + 1, NoneMin)
         IN  [streak |-> streak,
              last |-> IF streak >= NoneMin THEN "none" ELSE filter.last]

Reported(p) ==
    IF Evidence(p) THEN Protocol(p)
    ELSE IF FilterAfter(p).streak >= NoneMin THEN "none"
    ELSE IF filter.last # "none" THEN filter.last ELSE Protocol(p)

-----------------------------------------------------------------------------
(* The track of the person whose profile is taken.                          *)

\* An area of each size, in parts of ten thousand of the picture, between the
\* bounds the configuration has for it.
Area(sig) ==
    CASE sig.kind = "person" -> <<100, 300, 900>>[sig.size + 1]
      [] sig.kind = "face" -> <<10, 30, 80>>[sig.size + 1]
      [] sig.kind = "body" -> <<100, 500, 900>>[sig.size + 1]
      [] OTHER -> 1

\* signature_match_score, in percent: the distance counts 65, the source 20 and
\* the size 15, and of a crowd one is less sure.
MatchScore(old, new, crowd) ==
    LET centre == 100 - Capped((100 * Distance(old.at, new.at)) \div MaxShift, 100)
        source == IF old.kind = new.kind THEN 100
                  ELSE IF {old.kind, new.kind} \subseteq {"person", "body"} THEN 75
                  ELSE 60
        less == Capped(Area(old), Area(new))
        change == (100 * Distance(Area(old), Area(new))) \div less
        size == 100 - Capped(change, 400) \div 4
    IN  ((65 * centre + 20 * source + 15 * size) * (IF crowd THEN 85 ELSE 100))
           \div 10000

\* Of those who are counted where the signature was taken there are several.
Crowd(p) ==
    \/ p.sig.kind = "person" /\ p.count > 1
    \/ p.sig.kind = "face" /\ p.faces > 1

\* The track that is active is taken to be of who is found now.
Continues(p) ==
    /\ track.active /\ "none" \notin {track.sig.kind, p.sig.kind}
    /\ MatchScore(track.sig, p.sig, Crowd(p)) >= MinMatchScore

\* mark_active_track_missing
TrackMissing ==
    IF ~track.active \/ track.missing >= MaxMissing THEN NoTrack
    ELSE [track EXCEPT !.missing = @ + 1, !.started = FALSE]

\* Slip: a track goes on looking for its first signature.
TrackOfFirstSignature(p) ==
    IF Reported(p) = "none" THEN TrackMissing
    ELSE [sig |-> IF Continues(p) THEN track.sig ELSE p.sig, missing |-> 0,
          active |-> TRUE, started |-> ~Continues(p)]

\* ensure_active_track, unless nobody is reported.
TrackAfter(p) ==
    IF Reported(p) = "none" THEN TrackMissing
    ELSE [sig |-> p.sig, missing |-> 0, active |-> TRUE, started |-> ~Continues(p)]

-----------------------------------------------------------------------------
Remembered(f, p) ==
    [ready |-> f.ready, count |-> p.count, faces |-> p.faces > 0,
     seen |-> p.count > 0 \/ p.face \/ p.body]

\* TopOccupancyDetector.detect.  A frame whose person model is not ready leaves
\* the detector as it is.
Detect(f, late) ==
    /\ IF f.ready
       THEN /\ tracks' = TracksOf(f.boxes) /\ history' = Votes(f)
            /\ stable' = Stable(f, late)
       ELSE UNCHANGED <<tracks, history, stable>>
    /\ quiet' = QuietAfter(f, late)

\* What follows from the frame, whether or not the person model was ready.
Conclude(f, p) ==
    /\ closeStreak' = StreakAfter(p)
    /\ filter' = FilterAfter(p) /\ occupancy' = Reported(p)
    /\ track' = TrackAfter(p)
    /\ recent' = LastOf(Append(recent, Remembered(f, p)), HistorySize)
    /\ found' = IF p.present /\ Reported(p) # "none" THEN p.sig.at ELSE Nowhere

\* One poll, which comes soon or late.
Poll(f, late) ==
    /\ late => f.boxes = <<>>
    /\ Detect(f, late)
    /\ LET top == Vote(f, late) IN
       \E g \in Glimpsed(f, top) : Conclude(f, Proximity(f, g, top))

\* reset_active_track, when a profile has been pushed.
ProfilePushed ==
    /\ track.active /\ track' = NoTrack /\ found' = Nowhere
    /\ UNCHANGED <<tracks, history, quiet, stable, closeStreak, filter, occupancy,
                   recent>>

Next ==
    \/ \E f \in Frames, late \in BOOLEAN : Poll(f, late)
    \/ ProfilePushed

Spec == Init /\ [][Next]_vars

-----------------------------------------------------------------------------
Signatures == [kind : {"none", "person", "face", "body", "unknown"},
               at : Places \cup Spots, size : Sizes]

TypeOK ==
    /\ \A t \in Range(tracks) : t \in [at : Places, missed : 0..MaxMissed]
    /\ Len(history) <= HistorySize /\ Range(history) \subseteq Occupancies
    /\ quiet \in 0..AbsentTicks /\ stable \in Occupancies \ {"unknown"}
    /\ closeStreak \in 0..CloseFrames /\ occupancy \in Occupancies
    /\ filter \in [streak : 0..NoneMin, last : Occupied \cup {"none"}]
    /\ track \in [sig : Signatures, missing : 0..MaxMissing, active : BOOLEAN,
                  started : BOOLEAN]
    /\ found \in Places \cup Spots \cup {Nowhere}

\* Of the tracks those of the last frame with a person model are its boxes, one
\* for one: no two tracks follow the same box.
TracksCoverFrame ==
    recent # <<>> /\ Last(recent).ready =>
        Len(SelectSeq(tracks, LAMBDA t : t.missed = 0)) = Last(recent).count

\* When the last frames agree, the report is what they show, whatever tracks,
\* votes and streaks are left from before.
SettlesOnFrames ==
    /\ Len(recent) = HistorySize
    /\ \A i \in DOMAIN recent : /\ recent[i].ready /\ ~recent[i].faces
                               /\ recent[i].count = Last(recent).count
                               /\ recent[i].seen = (recent[i].count > 0)
    /\ quiet \in {0, AbsentTicks}
    => occupancy = Kind(Last(recent).count)

\* One frame in which nobody is detected does not end a customer's session.
MissIsBridged ==
    /\ Len(recent) >= 2 /\ recent[Len(recent) - 1].seen
    /\ ~Last(recent).seen /\ ~Last(recent).faces
    => occupancy \in Occupied

\* Somebody who is close is always reported, by whichever detector sees them.
CloseMeansSomebody == closeStreak > 0 => occupancy \in Occupied

\* Detector, tracks, votes and streaks agree on what the frames showed.
ReportInv ==
    TypeOK /\ TracksCoverFrame /\ SettlesOnFrames /\ MissIsBridged /\ CloseMeansSomebody

\* A customer is only reported gone after NoneMin frames without anybody, or with
\* a face too small to be one.
GoneIsConfirmed ==
    [][(/\ occupancy \in Occupied /\ occupancy' = "none"
        /\ ~Last(recent').faces)
        => \A i \in DOMAIN LastOf(recent', NoneMin) :
               ~LastOf(recent', NoneMin)[i].seen]_vars

\* Somebody whom two polls in a row find at one place keeps the track and the
\* samples it holds, whichever detector finds them, however large and in whatever
\* company, unless the profile is pushed in between.  (A frame that the vote
\* bridges finds its somebody in the middle of the picture.)
StillCustomerKeepsTrack ==
    [][found # Nowhere /\ found' = found => ~track'.started]_vars

\* Neither the report nor the samples of a customer go without a cause.
ChangesForCause == GoneIsConfirmed /\ StillCustomerKeepsTrack

=============================================================================
