------------------------------- MODULE MCA2A --------------------------------
(* Instances of A2A for TLC. *)
EXTENDS A2A

CONSTANTS oneKey

\* Two executions of one attempt, as after a replayed request.
SameKey == [c \in Client |-> oneKey]
=============================================================================
