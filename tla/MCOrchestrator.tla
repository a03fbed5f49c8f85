--------------------------- MODULE MCOrchestrator ---------------------------
(***************************************************************************)
(* Instances of Orchestrator for TLC: the values its configurations give   *)
(* to the constants that are not sets of model values.                     *)
(***************************************************************************)
EXTENDS Orchestrator, TLC

CONSTANTS a, b, c      \* tasks

\* DependsOn
Single == a :> {}
Apart  == a :> {} @@ b :> {}
Beside == a :> {} @@ b :> {} @@ c :> {}
Chain  == a :> {} @@ b :> {a}
Join   == a :> {} @@ b :> {} @@ c :> {a, b}

\* Sets of tasks
None  == {}
OnlyA == {a}
OnlyC == {c}

\* Commands
NoCommand       == {}
OnlyApprove     == {"approve"}
OnlyPause       == {"pause"}
OnlyRetry       == {"retry"}
ApproveAndRetry == {"approve", "retry"}
Interventions   == {"cancel", "pause", "retry"}
FirstAttempt    == {"approve", "reject", "cancel"}
Decisions       == {"approve", "reject"}

\* Slots and clients are interchangeable: no definition names one.
Interchangeable == Permutations(Exec) \cup Permutations(Client)
=============================================================================
