------------------------------ MODULE Approval ------------------------------
(***************************************************************************)
(* The approval gate of a delegated task:                                  *)
(* crates/gestura-core/src/orchestrator/approval.rs, TaskApprovalRecord.   *)
(*                                                                         *)
(* A gate record is abstracted to its `state` and to the scope of its      *)
(* active request ("none" when there is none; the code's `scope` and       *)
(* `active_request` are always set and cleared together).  The audit lists *)
(* `requests` and `decisions` only grow and are read by nobody who changes *)
(* state; the Orchestrator module keeps what its properties need of them   *)
(* in a history variable.                                                  *)
(***************************************************************************)

Scope == {"pre_execution", "review", "test_validation"}

ApprovalState ==
    {"not_required", "pending", "approved", "rejected", "needs_revision"}

ActorKind == {"user", "supervisor", "reviewer", "tester", "system"}

Gate == [state : ApprovalState, scope : Scope \cup {"none"}]

\* not_required: no gate is pending.  reset_for_task brings a record back to it.
NoGate == [state |-> "not_required", scope |-> "none"]

\* request: queue a request for scope s, replacing whatever was active.
Requested(s) == [state |-> "pending", scope |-> s]

\* ApprovalPolicy::for_task: who may decide which scope.
AllowedDeciders(s) ==
    CASE s = "pre_execution"   -> {"supervisor", "user"}
      [] s = "review"          -> {"reviewer", "supervisor"}
      [] s = "test_validation" -> {"tester", "supervisor"}

\* authorize and the checks of record_decision: the scope is required by the
\* task's policy, the actor may decide it, and the active request is for it.
MayDecide(gate, s, actor, required) ==
    /\ required
    /\ actor \in AllowedDeciders(s)
    /\ gate.scope = s

\* record_decision: the request is closed with the decision's outcome.
Decided(outcome) == [state |-> outcome, scope |-> "none"]
=============================================================================
