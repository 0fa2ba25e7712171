---------------------------- MODULE TryOnStores ----------------------------
(***************************************************************************)
(* What is retained of past attempts, in the sizes and times the stores    *)
(* count: the results (src/vision/try_on_result_store.py) with the         *)
(* terminals of the registry that grant them, the photographs              *)
(* (CapturedFrameStore in src/vision/acquisition_session.py) and the       *)
(* sources for an adjustment (src/vision/try_on_adjustment_store.py).      *)
(*                                                                         *)
(* Each store is an ordered dictionary, here a sequence, oldest first.     *)
(* TryOnRegistry knows results by identity only; this module is about the  *)
(* arithmetic below it.  A gate section of the registry is one step.       *)
(***************************************************************************)
EXTENDS Integers, Sequences, SequencesExt

CONSTANTS
    Attempts,
    NoAttempt,
    Sizes,           \* encoded sizes of rendered images
    SingleMax,       \* _TRY_ON_RESULT_MAX_BYTES
    MaxBytes,        \* result_max_bytes
    MaxResults,      \* result_max_count
    TerminalMax,     \* terminal_max_count
    MaxSnapshots,    \* max_count of the adjustment store
    MaxPhotographs,  \* max_count of the captured-frame store
    TTL              \* the one retention time of all stores, in ticks

ASSUME StoresAssumption ==
    /\ Sizes \subseteq Nat \ {0} /\ NoAttempt \notin Attempts
    /\ {SingleMax, MaxBytes, MaxResults, TerminalMax, MaxSnapshots,
        MaxPhotographs, TTL} \subseteq Nat \ {0}
    /\ SingleMax <= MaxBytes

VARIABLES
    terminals,    \* _terminals, with the time each has left
    results,      \* _entries of the result store
    total,        \* _total_bytes
    photographs,  \* _entries of the captured-frame store
    snapshots,    \* _snapshots of the adjustment store
    current,      \* the attempt that runs, and how far it is
    adjusting     \* the attempt whose result is rendered anew

vars == <<terminals, results, total, photographs, snapshots, current, adjusting>>
history == <<terminals, results, total>>
media == <<photographs, snapshots>>

NoCurrent == [id |-> NoAttempt, stage |-> "none"]

Init ==
    /\ terminals = <<>> /\ results = <<>> /\ total = 0
    /\ photographs = <<>> /\ snapshots = <<>>
    /\ current = NoCurrent /\ adjusting = NoAttempt

-----------------------------------------------------------------------------
(* Ordered dictionaries.                                                    *)

Ids(store) == {store[i].id : i \in DOMAIN store}

\* The entries that are kept, in their order.  This and Bytes are recursive
\* functions, not SelectSeq and a fold, for the proofs about them.
Part(store, kept) ==
    LET part[n \in 0..Len(store)] ==
            IF n = 0 THEN <<>>
            ELSE IF store[n] \in kept THEN Append(part[n - 1], store[n])
            ELSE part[n - 1]
    IN  part[Len(store)]

Without(store, ids) == Part(store, {e \in Range(store) : e.id \notin ids})
Alive(store) == Part(store, {e \in Range(store) : e.left > 0})
Newest(store, n) == SubSeq(store, Len(store) - n + 1, Len(store))
AtMost(store, n) == IF Len(store) <= n THEN store ELSE Newest(store, n)
Bytes(store) ==
    LET sum[n \in 0..Len(store)] ==
            IF n = 0 THEN 0 ELSE sum[n - 1] + store[n].size
    IN  sum[Len(store)]

MoveToEnd(store, e) == Append(Without(store, {e.id}), e)

\* Assigning to a key that is there keeps its place.
Assign(store, e) ==
    IF e.id \in Ids(store)
    THEN [i \in DOMAIN store |-> IF store[i].id = e.id THEN e ELSE store[i]]
    ELSE Append(store, e)

\* All that is left of a time runs down together; at 0 it has expired.
Aged(store) ==
    [i \in DOMAIN store |->
        [store[i] EXCEPT !.left = IF @ = 0 THEN 0 ELSE @ - 1]]

-----------------------------------------------------------------------------
(* Terminals and results, as one value.                                     *)

Now == [terminals |-> terminals, results |-> results, total |-> total]

\* _remove_unlocked takes each entry off the counter too.
Keep(h, kept) ==
    [h EXCEPT !.results = kept, !.total = @ - (Bytes(h.results) - Bytes(kept))]

\* _prune_unlocked of the registry: expired terminals, the oldest beyond the
\* bound, then expired results with the terminals that grant them.
Prune(h) ==
    LET kept == AtMost(Alive(h.terminals), TerminalMax)
        held == Without(h.results, Ids(h.terminals) \ Ids(kept))
        gone == Ids(held) \ Ids(Alive(held))
    IN  [Keep(h, Alive(held)) EXCEPT
            !.terminals =
                Part(kept, {t \in Range(kept) : ~(t.granted /\ t.id \in gone)})]

Fits(kept, size) ==
    Len(kept) + 1 <= MaxResults /\ Bytes(kept) + size <= MaxBytes

\* Slip: the newest results make room.
PlanFromTheEnd(others, size) ==
    LET least == CHOOSE n \in 0..Len(others) :
            /\ Fits(SubSeq(others, 1, Len(others) - n), size)
            /\ \A m \in 0..n - 1 :
                   ~Fits(SubSeq(others, 1, Len(others) - m), size)
    IN  SubSeq(others, 1, Len(others) - least)

\* The oldest go, one by one, until both bounds hold.
Plan(others, size) ==
    LET least == CHOOSE n \in 0..Len(others) :
            /\ Fits(SubSeq(others, n + 1, Len(others)), size)
            /\ \A m \in 0..n - 1 : ~Fits(SubSeq(others, m + 1, Len(others)), size)
    IN  SubSeq(others, least + 1, Len(others))

\* Slip: the terminals of displaced results stay.
AdmittedUnretired(h, a, size) ==
    LET kept == Plan(Without(Alive(h.results), {a}), size)
        room == Keep(h, kept)
    IN  [room EXCEPT
            !.results = Append(@, [id |-> a, size |-> size, left |-> TTL]),
            !.total = @ + size]

\* _admit_unlocked of the result store, and the registry's retirement of the
\* terminals whose results are displaced.
Admitted(h, a, size) ==
    LET kept == Plan(Without(Alive(h.results), {a}), size)
        room == Keep(h, kept)
        evicted == Ids(h.results) \ (Ids(kept) \cup {a})
    IN  [terminals |-> Without(h.terminals, evicted),
         results |-> Append(room.results,
                            [id |-> a, size |-> size, left |-> TTL]),
         total |-> room.total + size]

\* _commit_terminal_unlocked, without and with a result.
Concluded(h, a, completed, left) ==
    Prune([h EXCEPT !.terminals =
        MoveToEnd(@, [id |-> a, completed |-> completed, granted |-> completed,
                      left |-> left])])

\* _revoke_completed_result_unlocked
Revoked(h, ids) ==
    [Keep(h, Without(h.results, ids)) EXCEPT !.terminals =
        [i \in DOMAIN @ |-> IF @[i].id \in ids
                            THEN [@[i] EXCEPT !.granted = FALSE] ELSE @[i]]]

CompletedIn(h) == {t.id : t \in {u \in Range(h.terminals) : u.completed}}

Becomes(h) ==
    terminals' = h.terminals /\ results' = h.results /\ total' = h.total

-----------------------------------------------------------------------------
(* The course of an attempt.                                                *)

\* prepare_admission; an attempt that is retained is replayed.
Start(a) ==
    /\ current = NoCurrent
    /\ Becomes(Prune(Now))
    /\ current' = IF a \in Ids(Prune(Now).terminals) THEN current
                  ELSE [id |-> a, stage |-> "acquiring"]
    /\ UNCHANGED <<media, adjusting>>

Stored(a) ==
    AtMost(Assign(AtMost(Alive(photographs), MaxPhotographs),
                  [id |-> a, left |-> TTL]), MaxPhotographs)

Photograph ==
    /\ current.stage = "acquiring"
    /\ photographs' = Stored(current.id)
    /\ current' = [current EXCEPT !.stage = "generating"]
    /\ UNCHANGED <<history, snapshots, adjusting>>

\* The image is rendered and small enough: its source is retained first.
Retain ==
    /\ current.stage = "generating"
    /\ snapshots' = AtMost(MoveToEnd(Alive(snapshots),
                                     [id |-> current.id, left |-> TTL]),
                           MaxSnapshots)
    /\ current' = [current EXCEPT !.stage = "rendered"]
    /\ UNCHANGED <<history, photographs, adjusting>>

\* The clock is read for the result, and again for its terminal.
Complete(size, late) ==
    /\ current.stage = "rendered" /\ size <= SingleMax
    /\ Becomes(Concluded(Admitted(Now, current.id, size), current.id, TRUE,
                         TTL + late))
    /\ current' = NoCurrent
    /\ UNCHANGED <<media, adjusting>>

\* Any other end takes the attempt's media with it.
Fail ==
    /\ current.stage # "none"
    /\ Becomes(Concluded(Now, current.id, FALSE, TTL))
    /\ photographs' = Without(photographs, {current.id})
    /\ snapshots' = Without(snapshots, {current.id})
    /\ current' = NoCurrent
    /\ UNCHANGED adjusting

-----------------------------------------------------------------------------
(* What is asked of the past.                                               *)

\* get of the adjustment store
LookedUp(a) == Alive(snapshots)

BeginAdjust(a) ==
    /\ adjusting = NoAttempt
    /\ snapshots' = LookedUp(a)
    /\ adjusting' = IF a \in Ids(Alive(snapshots)) THEN a ELSE NoAttempt
    /\ UNCHANGED <<history, photographs, current>>

\* replace_completed_result, if the terminal is still there.
EndAdjust(size, late) ==
    /\ adjusting # NoAttempt /\ adjusting' = NoAttempt
    /\ LET h == Prune(Now)
           room == Admitted(h, adjusting, size)
       IN  IF size <= SingleMax /\ adjusting \in CompletedIn(h)
           THEN Becomes([room EXCEPT !.terminals =
                    MoveToEnd(@, [id |-> adjusting, completed |-> TRUE,
                                  granted |-> TRUE, left |-> TTL + late])])
           ELSE Becomes(IF size <= SingleMax THEN h ELSE Now)
    /\ UNCHANGED <<media, current>>

\* get_result
Fetch == Becomes(Prune(Now)) /\ UNCHANGED <<media, current, adjusting>>

\* get of the captured-frame store
ReadPhotograph ==
    /\ photographs' = AtMost(Alive(photographs), MaxPhotographs)
    /\ UNCHANGED <<history, snapshots, current, adjusting>>

\* The grants that are there, and the media of these attempts.
Leave(ids) ==
    /\ Becomes(Revoked(Prune(Now), ids \cap CompletedIn(Prune(Now))))
    /\ photographs' = Without(photographs, ids)
    /\ snapshots' = Without(snapshots, ids)
    /\ UNCHANGED <<current, adjusting>>

\* cancel with route_leave, of an attempt that does not run
RouteLeave(a) == current.id # a /\ Leave({a})

\* The end of a disconnect, after its attempt was joined.
Disconnect == current = NoCurrent /\ Leave(CompletedIn(Prune(Now)))

Tick ==
    /\ terminals' = Aged(terminals) /\ results' = Aged(results)
    /\ photographs' = Aged(photographs) /\ snapshots' = Aged(snapshots)
    /\ UNCHANGED <<total, current, adjusting>>

Next ==
    \/ Photograph \/ Retain \/ Fail \/ Fetch \/ ReadPhotograph \/ Disconnect
    \/ Tick
    \/ \E a \in Attempts : Start(a) \/ BeginAdjust(a) \/ RouteLeave(a)
    \/ \E size \in Sizes, late \in {0, 1} :
           Complete(size, late) \/ EndAdjust(size, late)

Spec == Init /\ [][Next]_vars

-----------------------------------------------------------------------------
Timed == [id : Attempts, left : 0..TTL]

Sound(store, entries) ==
    /\ store \in Seq(entries)
    /\ \A i, j \in DOMAIN store : store[i].id = store[j].id => i = j

\* Each store holds one entry of an attempt.
TypeOK ==
    /\ Sound(terminals, [id : Attempts, completed : BOOLEAN,
                         granted : BOOLEAN, left : 0..TTL + 1])
    /\ Sound(results, [id : Attempts, size : Sizes, left : 0..TTL])
    /\ Sound(photographs, Timed) /\ Sound(snapshots, Timed)
    /\ total \in 0..MaxBytes /\ adjusting \in Attempts \cup {NoAttempt}
    /\ current \in [id : Attempts, stage : {"acquiring", "generating", "rendered"}]
                  \cup {NoCurrent}

\* The counter is the sum of what is held, and both bounds of the results hold
\* together, whatever expires, is displaced, replaced or revoked.
WithinBounds ==
    /\ total = Bytes(results) /\ total <= MaxBytes
    /\ Len(results) <= MaxResults /\ Len(terminals) <= TerminalMax

\* Terminals and results go by different rules, the ones by number, the others
\* by number, bytes and a time of their own, and yet a result is held exactly
\* for the terminals that grant one.
GrantsMatch ==
    Ids(results) = {t.id : t \in {u \in Range(terminals) : u.granted}}

\* A duplicate start never hands out a reference to a result that is gone.
ReplaysCanBeFetched ==
    LET h == Prune(Now)
    IN  \A t \in Range(h.terminals) : t.granted =>
            \E e \in Range(h.results) : e.id = t.id /\ e.left > 0

\* The photograph behind a result is not kept for longer than the result,
\* however often it is rendered anew from it.
SourceExpiresFirst ==
    \A s \in Range(snapshots), e \in Range(results) :
        s.id = e.id => s.left <= e.left

\* The four stores stay consistent with each other and within their bounds,
\* though each has rules of its own.
StoreInv ==
    TypeOK /\ WithinBounds /\ GrantsMatch /\ ReplaysCanBeFetched /\ SourceExpiresFirst

LiveIn(store, a) == \E e \in Range(store) : e.id = a /\ e.left > 0

\* The entries a step displaces, though neither expired nor revoked.
DisplacedAt ==
    {i \in DOMAIN results :
        /\ results[i].left > 0 /\ LiveIn(terminals, results[i].id)
        /\ results[i].id \notin Ids(results') \cup Ids(terminals')}

\* A result of a customer only makes room for another if it is the oldest and
\* the other would not fit beside it.
DisplacedForRoom ==
    [][\A i \in DisplacedAt :
         /\ \A j \in 1..i - 1 : results[j].id \notin Ids(Front(results'))
         /\ \E j \in DisplacedAt : j >= i /\
              \/ Len(results') = MaxResults \/ Len(terminals) = TerminalMax
              \/ total' + results[j].size > MaxBytes]_vars

\* The attempt that runs keeps its photograph and its source until they expire:
\* no other attempt's media displaces them.
MediaOfCurrent ==
    [][/\ /\ current'.stage = "generating"
          /\ current.stage = "acquiring" \/ LiveIn(photographs, current.id)
          => current'.id \in Ids(photographs')
       /\ /\ current'.stage = "rendered"
          /\ current.stage = "generating" \/ LiveIn(snapshots, current.id)
          => current'.id \in Ids(snapshots')]_vars

\* Nothing a customer may still use is taken away without a cause.
DisplacedForCause == DisplacedForRoom /\ MediaOfCurrent

=============================================================================
