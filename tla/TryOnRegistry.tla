--------------------------- MODULE TryOnRegistry ---------------------------
(* TryOnAttemptRegistry (vision/try_on_attempt_registry.py): the process-wide  *)
(* owner of the Try-On attempt.  Its state is one active attempt, one pending  *)
(* admission, one cleanup reservation and a bounded history of terminals with  *)
(* the result grants they carry.  Every `async with self._gate` body of the    *)
(* code contains no await, so a gate section is one atomic step; the operators *)
(* here are those sections, and TryOnAttempts puts them into the coroutines    *)
(* that call them.                                                             *)
EXTENDS Naturals, FiniteSets

CONSTANTS
    Attempts,       \* attempt identifiers
    Sockets,        \* websocket connections, each used for one session
    Tasks,          \* asyncio tasks that run one start message each
    None,           \* Python's None
    TerminalMax,    \* terminal_max_count
    ResultMax,      \* results of the largest size the result store holds
    SubscriberMax   \* subscriber_max_count

ASSUME BoundsAssumption ==
    /\ TerminalMax \in Nat \ {0}
    /\ ResultMax \in Nat \ {0}
    /\ SubscriberMax \in Nat \ {0}

ASSUME NoneAssumption ==
    /\ None \notin Attempts \cup Sockets \cup Tasks
    /\ None \notin [id : Attempts, task : Tasks, owner : Sockets,
                    subs : SUBSET Sockets, latest : BOOLEAN]
    /\ None \notin [id : Attempts, task : Tasks, owner : Sockets,
                    subs : SUBSET Sockets, prior : Tasks \cup {None}]
    /\ None \notin [kind : {"completed", "failed", "canceled"},
                    granted : BOOLEAN, owner : Sockets \cup {None},
                    stale : BOOLEAN]

VARIABLES
    active,       \* _active, or None
    pending,      \* _pending, or None
    cleanup,      \* the prior task of _cleanup, or None
    pendingDone,  \* tasks whose PendingAdmission.done event is set
    cleanupDone,  \* tasks whose CleanupReservation.done event is set
    receipts,     \* per connection, the receipts (named by task) it owns
    history       \* _terminals and the result store, with insertion order

registryVars ==
    <<active, pending, cleanup, pendingDone, cleanupDone, receipts, history>>

(* A receipt (attempt id, random token, generation) is minted once per task,   *)
(* so the task stands for it.  `latest` says that a non-terminal observation   *)
(* has replaced the bare `accepted` in the replay.                             *)
ActiveAttempt ==
    [id : Attempts, task : Tasks, owner : Sockets, subs : SUBSET Sockets,
     latest : BOOLEAN]

PendingAdmission ==
    [id : Attempts, task : Tasks, owner : Sockets, subs : SUBSET Sockets,
     prior : Tasks \cup {None}]

(* `granted` is TerminalAttempt.result being set; `stale` is its expires_at    *)
(* lying in the past.                                                          *)
TerminalAttempt ==
    [kind : {"completed", "failed", "canceled"}, granted : BOOLEAN,
     owner : Sockets \cup {None}, stale : BOOLEAN]

History ==
    [term : [Attempts -> TerminalAttempt \cup {None}],
     older : SUBSET (Attempts \X Attempts),
     results : SUBSET Attempts]

-----------------------------------------------------------------------------
(* The retained history.  `older` orders _terminals by insertion; the result   *)
(* store keeps the same order, because both move an entry to the end together. *)

Retained(h) == {a \in Attempts : h.term[a] # None}

(* Slip: terminals are dropped without their results.                          *)
ForgetKeepingResults(h, ids) ==
    [h EXCEPT !.term = [a \in Attempts |-> IF a \in ids THEN None ELSE @[a]],
              !.older = {p \in @ : p[1] \notin ids /\ p[2] \notin ids}]

Forget(h, ids) ==
    [term |-> [a \in Attempts |-> IF a \in ids THEN None ELSE h.term[a]],
     older |-> {p \in h.older : p[1] \notin ids /\ p[2] \notin ids},
     results |-> h.results \ ids]

Expired(h) == {a \in Retained(h) : h.term[a].stale}

NewerThan(h, a, among) == {b \in among : <<a, b>> \in h.older}

Live(h) == Retained(h) \ Expired(h)

Overflow(h) == {a \in Live(h) : Cardinality(NewerThan(h, a, Live(h))) >= TerminalMax}

(* _prune_unlocked: expired terminals go with their results, then the oldest   *)
(* live ones beyond the bound.                                                 *)
Prune(h) == Forget(h, Expired(h) \cup Overflow(h))

(* `_terminals[id] = ...` followed by move_to_end.                             *)
Put(h, a, t) ==
    [h EXCEPT !.term[a] = t,
              !.older = {p \in @ : p[1] # a /\ p[2] # a}
                            \cup ((Retained(h) \ {a}) \X {a})]

(* _admit_unlocked of the result store as the registry uses it: expired and    *)
(* then the oldest other grants make room, and the terminals they displaced    *)
(* are retired in the same gate section.                                       *)
Displaced(h, a) ==
    LET others == (h.results \ Expired(h)) \ {a}
    IN  (h.results \cap Expired(h)) \cup
        {b \in others : Cardinality(NewerThan(h, b, others)) >= ResultMax - 1}

Grant(h, a) ==
    LET room == Forget(h, Displaced(h, a) \ {a})
    IN  [room EXCEPT !.results = @ \cup {a}]

Terminal(kind, owner) ==
    [kind |-> kind, granted |-> kind = "completed", owner |-> owner,
     stale |-> FALSE]

(* _commit_terminal_unlocked on the retained history: a grant is admitted only *)
(* for completed.                                                              *)
Concluded(h, a, kind, owner) ==
    LET room == IF kind = "completed" THEN Grant(h, a) ELSE h
    IN  Prune(Put(room, a, Terminal(kind, owner)))

(* _revoke_completed_result_unlocked: the grant goes, the terminal stays.      *)
Completed(h, a) == a \in Retained(h) /\ h.term[a].kind = "completed"

Revoke(h, ids) ==
    [h EXCEPT !.results = @ \ ids,
              !.term = [a \in Attempts |->
                            IF a \in ids /\ h.term[a] # None
                              THEN [h.term[a] EXCEPT !.granted = FALSE]
                              ELSE h.term[a]]]

OwnedCompleted(h, s) == {a \in Attempts : Completed(h, a) /\ h.term[a].owner = s}

(* replace_completed_result: new bytes and a new token for a completed         *)
(* terminal, whose retention starts again.                                     *)
Replace(h, a) ==
    LET room == Grant(h, a)
    IN  Put(room, a, [h.term[a] EXCEPT !.granted = TRUE, !.stale = FALSE])

-----------------------------------------------------------------------------
(* Subscribers.  Attaching a new key to a full table drops a subscriber other  *)
(* than the owner (the code takes the first in insertion order), or attaches   *)
(* nothing when only the owner is left.                                        *)
(* Slip: a full table drops any subscriber, the owner included.                *)
AttachedOverAny(x, s) ==
    IF s \in x.subs \/ Cardinality(x.subs) < SubscriberMax
      THEN {[x EXCEPT !.subs = @ \cup {s}]}
      ELSE {[x EXCEPT !.subs = (@ \ {o}) \cup {s}] : o \in x.subs}

Attached(x, s) ==
    IF s \in x.subs \/ Cardinality(x.subs) < SubscriberMax
      THEN {[x EXCEPT !.subs = @ \cup {s}]}
      ELSE IF x.subs \subseteq {x.owner}
             THEN {x}
             ELSE {[x EXCEPT !.subs = (@ \ {o}) \cup {s}] :
                      o \in x.subs \ {x.owner}}

Detached(x, gone) == IF x = None THEN None ELSE [x EXCEPT !.subs = @ \ gone]

-----------------------------------------------------------------------------
(* Gate sections shared by several coroutines.                                 *)

IsActive(a) == active # None /\ active.id = a

IsPending(a) == pending # None /\ pending.id = a

IsCurrent(t) == active # None /\ active.task = t

DiscardReceipt(x) == [receipts EXCEPT ![x.owner] = @ \ {x.task}]

(* _reserve_cleanup_unlocked: the single slot is taken only when free.         *)
ReserveCleanup(t) == IF t # None /\ cleanup = None THEN t ELSE cleanup

(* Slip: the reservation is released without setting its done event.           *)
FinishCleanupSilently(finished) ==
    /\ cleanup # None
    /\ cleanup \in finished
    /\ cleanup' = None
    /\ UNCHANGED <<active, pending, pendingDone, cleanupDone, receipts, history>>

(* finalize() inside _finish_cleanup_uncancelled, once the prior task is done. *)
FinishCleanup(finished) ==
    /\ cleanup # None
    /\ cleanup \in finished
    /\ cleanup' = None
    /\ cleanupDone' = cleanupDone \cup {cleanup}
    /\ UNCHANGED <<active, pending, pendingDone, receipts, history>>

=============================================================================
