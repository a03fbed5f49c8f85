---------------------------- MODULE GatedResult -----------------------------
(***************************************************************************)
(* What the task lifecycle promises about the results of a task, with the  *)
(* handlers, the environments and the executions left out.                 *)
(*                                                                         *)
(* A task is open until somebody delivers a result.  The result then       *)
(* passes the gates the task has, the review before the tests, and is      *)
(* complete once each of them has been approved.  Anything may be taken    *)
(* back: ended by an operator, or opened again.  An approval is given to   *)
(* one result; the next result, or the next attempt, starts without any.   *)
(***************************************************************************)
CONSTANTS Task, Reviewed, Tested   \* the tasks with a review, with a test gate

VARIABLES
    stage,      \* how far the result of each task has come
    approved    \* the gates that have been approved for it

Stage == {"absent", "open", "review", "tests", "complete", "ended"}
Approval == {"review", "test_validation"}

Types ==
    /\ stage \in [Task -> Stage]
    /\ approved \in [Task -> SUBSET Approval]

Init ==
    /\ stage = [t \in Task |-> "absent"]
    /\ approved = [t \in Task |-> {}]

Moves(t, s) == stage' = [stage EXCEPT ![t] = s]
Approves(t, set) == approved' = [approved EXCEPT ![t] = set]

Accept(t) ==
    /\ stage[t] = "absent"
    /\ Moves(t, "open")
    /\ UNCHANGED approved

\* A result: to the first gate it has to pass.  Also one that arrives after
\* the task has been ended.
Deliver(t) ==
    /\ stage[t] \in {"open", "ended"}
    /\ Moves(t, IF t \in Reviewed THEN "review"
                ELSE IF t \in Tested THEN "tests" ELSE "complete")
    /\ Approves(t, {})

ApproveReview(t) ==
    /\ stage[t] = "review"
    /\ Moves(t, IF t \in Tested THEN "tests" ELSE "complete")
    /\ Approves(t, approved[t] \cup {"review"})

ApproveTests(t) ==
    /\ stage[t] = "tests"
    /\ Moves(t, "complete")
    /\ Approves(t, approved[t] \cup {"test_validation"})

\* Failed or cancelled, with or without a result.
End(t) ==
    /\ stage[t] # "absent"
    /\ Moves(t, "ended")
    /\ Approves(t, approved[t]) \/ Approves(t, {})

\* Opened again: by a retry, which forgets the approvals, by a blocker, by a
\* start under way, or by a result that asks for more.
Open(t) ==
    /\ stage[t] # "absent"
    /\ Moves(t, "open")
    /\ Approves(t, approved[t]) \/ Approves(t, {})

Next ==
    \E t \in Task : \/ Accept(t) \/ Deliver(t) \/ End(t) \/ Open(t)
                    \/ ApproveReview(t) \/ ApproveTests(t)

Spec == Init /\ [][Next]_<<stage, approved>>
=============================================================================
