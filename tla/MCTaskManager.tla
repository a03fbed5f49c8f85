---------------------------- MODULE MCTaskManager ---------------------------
(* Instances of TaskManager for TLC. *)
EXTENDS TaskManager, TLC

CONSTANTS root, child, other

\* A tracked request with one subtask, and a task beside it.
OneChild == root :> NoTask @@ child :> root @@ other :> NoTask

\* A request, a subtask and a subtask of that.
Chain == root :> NoTask @@ child :> root @@ other :> child

Callers == Permutations(Caller)
=============================================================================
