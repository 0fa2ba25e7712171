-------------------------- MODULE AttemptLifecycle --------------------------
(* What the service promises about Try-On attempts (docs/PROTOCOL.md, "one     *)
(* machine-wide non-terminal attempt" and its identity fencing): attempts      *)
(* begin one at a time, only when the work of the previous one is over; each   *)
(* ends with one verdict, which stands until the attempt is forgotten.  How    *)
(* admissions wait for each other, who cancels whom, and when records are      *)
(* dropped is left open.                                                       *)
CONSTANTS Attempts, None

Verdicts == {"completed", "failed", "canceled"}

VARIABLES
    stage,      \* "unknown", "live" or the verdict of each attempt
    worker      \* the attempt whose task may hold camera and renderer, or None

TypeOK ==
    /\ stage \in [Attempts -> {"unknown", "live"} \cup Verdicts]
    /\ worker \in Attempts \cup {None}

Init ==
    /\ stage = [a \in Attempts |-> "unknown"]
    /\ worker = None

Concluded == {a \in Attempts : stage[a] \in Verdicts}

Idle == \A a \in Attempts : stage[a] # "live"

(* Attempt a moves to stage x while older concluded attempts may be forgotten. *)
Enter(a, x) ==
    \E gone \in SUBSET Concluded :
        stage' = [b \in Attempts |-> IF b = a THEN x
                                     ELSE IF b \in gone THEN "unknown"
                                     ELSE stage[b]]

Unresolved(a) == stage[a] = "unknown"

Begin(a) ==
    /\ Idle /\ worker = None
    /\ Unresolved(a)
    /\ Enter(a, "live")
    /\ worker' = a

(* The verdict is in; the work may be over already or still winding down.      *)
Finish(a, verdict) ==
    /\ stage[a] = "live"
    /\ Enter(a, verdict)
    /\ worker' \in {worker, None}

(* An attempt that never worked is answered with a verdict.                    *)
Refuse(a, verdict) ==
    /\ Unresolved(a)
    /\ verdict # "completed"
    /\ Enter(a, verdict)
    /\ UNCHANGED worker

WorkEnds ==
    /\ Idle /\ worker # None
    /\ worker' = None
    /\ UNCHANGED stage

ForgetSome ==
    /\ \E gone \in SUBSET Concluded :
          stage' = [b \in Attempts |-> IF b \in gone THEN "unknown" ELSE stage[b]]
    /\ UNCHANGED worker

Next ==
    \/ \E a \in Attempts :
          \/ Begin(a)
          \/ \E v \in Verdicts : Finish(a, v) \/ Refuse(a, v)
    \/ WorkEnds
    \/ ForgetSome

Spec == Init /\ [][Next]_<<stage, worker>>

=============================================================================
