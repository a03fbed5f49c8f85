-------------------------- MODULE ToolConfirmation --------------------------
(***************************************************************************)
(* Asking the user before a tool runs:                                     *)
(* crates/gestura-core-tools/src/tool_confirmation.rs.                     *)
(*                                                                         *)
(* ToolConfirmationManager keeps three maps behind three locks: the        *)
(* confirmations that wait for an answer, the tools allowed for a session  *)
(* and the tools blocked for it.  One session and one tool are modelled,   *)
(* so each of the last two is a Boolean; a caller (a pipeline that wants   *)
(* to run the tool) has at most one confirmation at a time and names it.   *)
(* Two callers of one session may apply their answers at the same time,    *)
(* hence one step per lock.                                                *)
(***************************************************************************)
CONSTANTS
    Stream        \* the callers: one pipeline each

VARIABLES
    pending,      \* callers with an entry in `pending`
    answer,       \* what the oneshot channel of each caller holds
    allowed,      \* session_confirmed contains the tool
    blocked,      \* session_blocked contains the tool
    persisted     \* a Global grant of the tool (permissions.rs)

confirmationVars == <<pending, answer, allowed, blocked, persisted>>

Decision == {"allow_once", "allow_session", "allow_always", "deny_once",
             "deny_session"}
Allowing == {"allow_once", "allow_session", "allow_always"}

\* "dropped": the sender is gone without an answer.
Answer == Decision \cup {"none", "dropped"}

ConfirmationTypeOK ==
    /\ pending \subseteq Stream
    /\ answer \in [Stream -> Answer]
    /\ allowed \in BOOLEAN
    /\ blocked \in BOOLEAN
    /\ persisted \in BOOLEAN

ConfirmationInit ==
    /\ pending = {}
    /\ answer = [s \in Stream |-> "none"]
    /\ allowed = FALSE
    /\ blocked = FALSE
    /\ persisted = FALSE

\* register: a new entry and a fresh channel.
Register(s) ==
    /\ pending' = pending \cup {s}
    /\ answer' = [answer EXCEPT ![s] = "none"]
    /\ UNCHANGED <<allowed, blocked, persisted>>

\* abandon: the waiter goes away, on a time-out or an interruption, and its
\* end of the channel with it.
Abandon(s) ==
    /\ pending' = pending \ {s}
    /\ answer' = [answer EXCEPT ![s] = "none"]
    /\ UNCHANGED <<allowed, blocked, persisted>>

\* resolve_decision from the session of the request.
Resolve(s, d) ==
    /\ s \in pending
    /\ pending' = pending \ {s}
    /\ answer' = [answer EXCEPT ![s] = d]
    /\ UNCHANGED <<allowed, blocked, persisted>>

\* resolve_decision from another session: refused, but the entry has been
\* taken out of the map by then and its sender is dropped with it.
ResolveElsewhere(s) ==
    /\ s \in pending
    /\ pending' = pending \ {s}
    /\ answer' = [answer EXCEPT ![s] = "dropped"]
    /\ UNCHANGED <<allowed, blocked, persisted>>

\* What the waiter takes for its decision: the default is deny_once.
Received(s) == IF answer[s] \in Decision THEN answer[s] ELSE "deny_once"

Receive(s) ==
    /\ answer' = [answer EXCEPT ![s] = "none"]
    /\ UNCHANGED <<pending, allowed, blocked, persisted>>

\* apply_session_policy_decision: first the map the decision adds to ...
ApplyFirst(d) ==
    /\ allowed' = (allowed \/ d \in {"allow_session", "allow_always"})
    /\ blocked' = (blocked \/ d = "deny_session")
    /\ UNCHANGED <<pending, answer, persisted>>

\* Variant for the mutants of PROJECT.json: a decision overrides nothing.
ApplySecondOnly(d) ==
    /\ persisted' = (persisted \/ d = "allow_always")
    /\ UNCHANGED <<pending, answer, allowed, blocked>>

\* ... then the map it overrides; an allow_always is granted as well (the
\* grant is the caller's, tool_dispatch.rs).
ApplySecond(d) ==
    /\ allowed' = (allowed /\ d # "deny_session")
    /\ blocked' = (blocked /\ d \notin {"allow_session", "allow_always"})
    /\ persisted' = (persisted \/ d = "allow_always")
    /\ UNCHANGED <<pending, answer>>

=============================================================================
