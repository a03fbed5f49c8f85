---------------------------- MODULE Orchestrator ----------------------------
(***************************************************************************)
(* The task lifecycle of one supervisor run:                               *)
(* crates/gestura-core/src/orchestrator.rs, AgentOrchestrator.             *)
(*                                                                         *)
(* Every handler of the orchestrator is async.  It holds a lock only for a *)
(* block, then awaits disk writes, messages and other handlers with no     *)
(* lock held.  One action of this module is one such block (or one effect  *)
(* made between two awaits), and a handler in flight is a record whose     *)
(* field `at` names the block it will run next:                            *)
(*   execs[e]  a start_task_execution call, the execution it spawns and    *)
(*             the complete_task_execution call that ends it;              *)
(*   calls[c]  the operator command (delegate, approve, reject, retry,     *)
(*             cancel) that client c has in flight.                        *)
(* Files are not modelled here; DiskFaults lets a write fail, so that the  *)
(* `?` after it ends the handler where it stands.                          *)
(***************************************************************************)
EXTENDS Approval, Naturals, FiniteSets

CONSTANTS
    Task,              \* ids of the tasks delegated to the run
    Client,            \* operator surfaces (GUI window, CLI), one call at a time each
    Exec,              \* slots for handlers of an execution
    NoTask, NoExec,    \* "no task", "no execution"
    DependsOn,         \* DelegatedTask.depends_on
    ApprovalRequired, ReviewerRequired, TestRequired,  \* the gate flags
    Remote,            \* tasks with AgentExecutionMode::Remote; others are local
    Isolated,          \* tasks in an isolated workspace or git worktree
    Escalating,        \* tasks on which a blocker thread may be opened
    Commands,          \* operator commands the instance issues
    MaxAttempts,       \* bound on `attempts`: no retry beyond it
    ResultCapacity,    \* capacity of the result channel (100 in the code)
    Polled,            \* whether somebody calls poll_result
    EnvFaults,         \* whether preparing or cleaning an environment may fail
    DiskFaults         \* whether persisting a record may fail

Command == {"cancel", "pause", "retry", "approve", "reject"}

ASSUME TasksAssumption ==
    /\ NoTask \notin Task
    /\ NoExec \notin Exec
    /\ DependsOn \in [Task -> SUBSET Task]
    /\ ApprovalRequired \subseteq Task
    /\ ReviewerRequired \subseteq Task
    /\ TestRequired \subseteq Task
    /\ Remote \subseteq Task
    /\ Isolated \subseteq Task
    /\ Escalating \subseteq Task
ASSUME BoundsAssumption ==
    /\ Commands \subseteq Command
    /\ MaxAttempts \in Nat
    /\ ResultCapacity \in Nat \ {0}
    /\ Polled \in BOOLEAN
    /\ EnvFaults \in BOOLEAN
    /\ DiskFaults \in BOOLEAN

VARIABLES
    tasks,     \* supervisor_runs: the record of each task
    active,    \* active_tasks: the control of the execution of each task
    envs,      \* environments: state and lease of each task's environment
    execs,     \* executions, from their start to the end of their completion
    calls,     \* operator commands in flight
    results,   \* number of results waiting in the result channel
    granted,   \* history: gates approved for the task's current result
    succeeded  \* history: tasks that have been completed

vars == <<tasks, active, envs, execs, calls, results, granted, succeeded>>

-----------------------------------------------------------------------------
(* Types *)

State == {"undelegated", "queued", "blocked", "pending_approval", "running",
          "review_pending", "test_pending", "completed", "failed", "cancelled"}

Terminal == {"completed", "failed", "cancelled"}

Reason == {"dependency", "environment", "output", "remote", "blocker", "handoff"}

Thread == {"none", "open", "closed"}

EnvState == {"requested", "ready", "in_use", "cleaning", "archived", "removed",
             "failed"}

Env == [state : EnvState, leased : BOOLEAN]
NoEnv == [state |-> "requested", leased |-> FALSE]

Record == [state    : State,
           attempts : Nat,
           gate     : Gate,
           reasons  : SUBSET Reason,
           result   : BOOLEAN,      \* result.is_some()
           finished : BOOLEAN,      \* completed_at.is_some()
           thread   : Thread]       \* the task's blocker thread
Undelegated == [state |-> "undelegated", attempts |-> 0, gate |-> NoGate,
                reasons |-> {}, result |-> FALSE, finished |-> FALSE,
                thread |-> "none"]

Control == [exec : Exec, attempt : Nat]
           \cup [exec : {NoExec}, attempt : {0}]
NotActive == [exec |-> NoExec, attempt |-> 0]

\* Disposition of the execution's cancellation token.
Token == {"running", "cancelled", "paused"}

ExecAt == {"idle", "acquire", "store_lease", "launch", "spawn", "running",
           "remote_blocked", "cleanup", "store_cleanup", "handoff", "publish",
           "schedule"}
Execution == [at : ExecAt, task : Task \cup {NoTask}, attempt : Nat,
              token : Token, final : State, ready : SUBSET Task, env : Env]
NoExecution == [at |-> "idle", task |-> NoTask, attempt |-> 0,
                token |-> "running", final |-> "undelegated", ready |-> {},
                env |-> NoEnv]

CallAt == {"idle", "cancel_remove", "cancel_mark", "cleanup", "store",
           "prepare", "prepared"}
Call == [at : CallAt, task : Task \cup {NoTask}, success : BOOLEAN,
         start : BOOLEAN, env : Env]
NoCall == [at |-> "idle", task |-> NoTask, success |-> FALSE, start |-> FALSE,
           env |-> NoEnv]

TypeOK ==
    /\ tasks \in [Task -> Record]
    /\ active \in [Task -> Control]
    /\ envs \in [Task -> Env]
    /\ execs \in [Exec -> Execution]
    /\ \A e \in Exec : execs[e].at \notin {"idle", "schedule"} => execs[e].task \in Task
    /\ calls \in [Client -> Call]
    /\ \A c \in Client : calls[c].at # "idle" => calls[c].task \in Task
    /\ results \in 0..ResultCapacity
    /\ granted \in [Task -> SUBSET Scope]
    /\ succeeded \in SUBSET Task

-----------------------------------------------------------------------------
(* Helpers *)

\* Variant: a dependency that failed or was cancelled no longer blocks.
DependenciesEnded(ts, t) == \A d \in DependsOn[t] : ts[d].state \in Terminal

\* dependency_reasons_from_states is empty.
DependenciesMet(ts, t) == \A d \in DependsOn[t] : ts[d].state = "completed"

\* approval_scope_for_state.
ScopeOf(state) ==
    CASE state = "pending_approval" -> "pre_execution"
      [] state = "review_pending"   -> "review"
      [] state = "test_pending"     -> "test_validation"
      [] OTHER                      -> "none"

Required(t, s) ==
    CASE s = "pre_execution"   -> t \in ApprovalRequired
      [] s = "review"          -> t \in ReviewerRequired
      [] s = "test_validation" -> t \in TestRequired
      [] OTHER                 -> FALSE

\* Variant: only tasks whose gate has been approved are collected.
ApprovedReadyTasks(ts, skip) ==
    {t \in Task \ skip : /\ ts[t].state = "blocked"
                         /\ ts[t].gate.state = "approved"
                         /\ DependenciesMet(ts, t)}

\* Variant: the gate of a blocked task is not looked at.
ReadyTasksPastGate(ts, skip) ==
    {t \in Task \ skip : ts[t].state = "blocked" /\ DependenciesMet(ts, t)}

\* Variant: a task that is queued already is collected again.
ReadyTasksAgain(ts, skip) ==
    {t \in Task \ skip : /\ ts[t].state \in {"blocked", "queued"}
                         /\ ts[t].gate.state # "pending"
                         /\ DependenciesMet(ts, t)}

\* collect_ready_tasks_except: blocked tasks with no pending gate and every
\* dependency completed; `skip` is the task of a preserved checkpoint.
ReadyTasks(ts, skip) ==
    {t \in Task \ skip : /\ ts[t].state = "blocked"
                         /\ ts[t].gate.state # "pending"
                         /\ DependenciesMet(ts, t)}

Requeued(ts, ready) ==
    [t \in Task |->
        IF t \in ready THEN [ts[t] EXCEPT !.state = "queued", !.reasons = {}]
                       ELSE ts[t]]

\* A slot is reusable once no active control holds its token.
FreeExecs == {e \in Exec : /\ execs[e].at = "idle"
                           /\ \A t \in Task : active[t].exec # e}

Starting(t) == [NoExecution EXCEPT !.at = "acquire", !.task = t]

\* The clean-up policies: shared and remote environments are always kept,
\* isolated ones removed when clean and archived otherwise, and archived
\* always on the failure path (force_archive_dirty).
CleanedStates(t, success) ==
    IF t \notin Isolated THEN {"ready"}
    ELSE IF success THEN {"removed", "archived"} ELSE {"archived"}

\* Variant: the clean-up forgets to set released_at.
FinalizedUnderLease(t, success) ==
    {[state |-> s, leased |-> TRUE] : s \in CleanedStates(t, success)}

\* finalize_environment_for_task: the lease is released, then the policy
\* applied; a failing policy leaves the record in "cleaning".
Finalized(t, success) ==
    {[state |-> s, leased |-> FALSE] : s \in CleanedStates(t, success)}

\* release_environment_lease.
Released(env) ==
    [state  |-> IF env.state \in {"archived", "removed", "failed"}
                THEN env.state ELSE "ready",
     leased |-> FALSE]

\* prepare_environment builds a fresh record and stores it.
Prepared == {[state |-> s, leased |-> FALSE] :
                s \in IF EnvFaults THEN {"ready", "failed"} ELSE {"ready"}}

-----------------------------------------------------------------------------
(* Actions of the operator commands *)

Init ==
    /\ tasks = [t \in Task |-> Undelegated]
    /\ active = [t \in Task |-> NotActive]
    /\ envs = [t \in Task |-> NoEnv]
    /\ execs = [e \in Exec |-> NoExecution]
    /\ calls = [c \in Client |-> NoCall]
    /\ results = 0
    /\ granted = [t \in Task |-> {}]
    /\ succeeded = {}

Idle(c) == calls[c].at = "idle"

\* The run is persisted before start_task_execution is called: a failing write
\* ends the handler with the task queued and nothing started.
Start(t) ==
    \/ \E e \in FreeExecs : execs' = [execs EXCEPT ![e] = Starting(t)]
    \/ DiskFaults /\ UNCHANGED execs

StartIf(condition, t) == IF condition THEN Start(t) ELSE UNCHANGED execs

\* delegate_task: the environment is prepared, the record inserted, and a task
\* that waits for nothing is started.
Delegate(c, t) ==
    /\ Idle(c)
    /\ tasks[t].state = "undelegated"
    /\ \E env \in Prepared :
        LET failed  == env.state = "failed"
            waiting == ~DependenciesMet(tasks, t)
            state   == IF failed THEN "blocked"
                       ELSE IF t \in ApprovalRequired THEN "pending_approval"
                       ELSE IF waiting THEN "blocked" ELSE "queued"
            reasons == (IF waiting THEN {"dependency"} ELSE {})
                       \cup (IF failed THEN {"environment"} ELSE {})
            gate    == IF t \in ApprovalRequired THEN Requested("pre_execution")
                                                 ELSE NoGate
        IN  /\ envs' = [envs EXCEPT ![t] = env]
            /\ tasks' = [tasks EXCEPT ![t].state = state, ![t].gate = gate,
                                      ![t].reasons = reasons]
            /\ StartIf(state = "queued", t)
    /\ UNCHANGED <<active, calls, results, granted, succeeded>>

\* The task is queued, or blocked again while a dependency is not completed.
QueuedOrBlocked(record, t) ==
    IF DependenciesMet(tasks, t)
    THEN [record EXCEPT !.state = "queued", !.reasons = {}]
    ELSE [record EXCEPT !.state = "blocked", !.reasons = {"dependency"}]

\* Variant: an approved review completes the task, tests or not.
ApprovedRecordWithoutTests(t, decided) ==
    IF tasks[t].state = "pending_approval" THEN QueuedOrBlocked(decided, t)
    ELSE [decided EXCEPT !.state = "completed", !.finished = TRUE]

\* Variant: the task moves to its test gate and no request is made.
ApprovedRecordWithoutRequest(t, decided) ==
    CASE tasks[t].state = "pending_approval" -> QueuedOrBlocked(decided, t)
      [] tasks[t].state = "review_pending" /\ t \in TestRequired ->
            [decided EXCEPT !.state = "test_pending"]
      [] OTHER -> [decided EXCEPT !.state = "completed", !.finished = TRUE]

\* approve_task, by the state that fixes the scope of the decision.
ApprovedRecord(t, decided) ==
    CASE tasks[t].state = "pending_approval" -> QueuedOrBlocked(decided, t)
      [] tasks[t].state = "review_pending" /\ t \in TestRequired ->
            [decided EXCEPT !.state = "test_pending",
                            !.gate = Requested("test_validation")]
      [] OTHER -> [decided EXCEPT !.state = "completed", !.finished = TRUE]

Approve(c, t, actor) ==
    LET scope  == ScopeOf(tasks[t].state)
        record == ApprovedRecord(t, [tasks[t] EXCEPT !.gate = Decided("approved")])
    IN  /\ "approve" \in Commands
        /\ Idle(c)
        /\ scope # "none"
        /\ MayDecide(tasks[t].gate, scope, actor, Required(t, scope))
        /\ tasks' = [tasks EXCEPT ![t] = record]
        /\ granted' = [granted EXCEPT ![t] = @ \cup {scope}]
        /\ StartIf(record.state = "queued", t)
        /\ IF record.state = "completed"
           THEN /\ succeeded' = succeeded \cup {t}
                /\ calls' = [calls EXCEPT ![c] = [NoCall EXCEPT
                                !.at = "cleanup", !.task = t, !.success = TRUE]]
           ELSE UNCHANGED <<succeeded, calls>>
        /\ UNCHANGED <<active, envs, results>>

\* reject_task: a revision request at any gate fails the task.
Reject(c, t, actor) ==
    LET scope == ScopeOf(tasks[t].state)
    IN  /\ "reject" \in Commands
        /\ Idle(c)
        /\ scope # "none"
        /\ MayDecide(tasks[t].gate, scope, actor, Required(t, scope))
        /\ tasks' = [tasks EXCEPT ![t].state = "failed",
                                  ![t].gate = Decided("needs_revision")]
        /\ calls' = [calls EXCEPT ![c] =
                        [NoCall EXCEPT !.at = "cleanup", !.task = t]]
        /\ UNCHANGED <<active, envs, execs, results, granted, succeeded>>

Reset(record) ==
    [record EXCEPT !.attempts = @ + 1, !.result = FALSE, !.finished = FALSE,
                   !.reasons = {}, !.gate = NoGate]

\* The record that retry_task writes.
Retried(t) ==
    IF t \in ApprovalRequired
    THEN [Reset(tasks[t]) EXCEPT !.state = "pending_approval",
                                 !.gate = Requested("pre_execution")]
    ELSE QueuedOrBlocked(Reset(tasks[t]), t)

Retryable == {"failed", "cancelled", "blocked"}

\* retry_task, first block: the record is reset for a new attempt.
Retry(c, t) ==
    /\ "retry" \in Commands
    /\ Idle(c)
    /\ tasks[t].state \in Retryable
    /\ tasks[t].attempts < MaxAttempts
    /\ tasks' = [tasks EXCEPT ![t] = Retried(t)]
    /\ granted' = [granted EXCEPT ![t] = {}]
    /\ calls' = [calls EXCEPT ![c] = [NoCall EXCEPT !.at = "prepare",
                    !.task = t, !.start = Retried(t).state = "queued"]]
    /\ UNCHANGED <<active, envs, execs, results, succeeded>>

\* retry_environment_preparation: a fresh environment record is stored.
RetryPrepare(c) ==
    /\ calls[c].at = "prepare"
    /\ \E env \in Prepared :
        /\ envs' = [envs EXCEPT ![calls[c].task] = env]
        /\ calls' = [calls EXCEPT ![c].at = "prepared", ![c].env = env]
    /\ UNCHANGED <<tasks, active, execs, results, granted, succeeded>>

\* retry_task, last block: a failed environment blocks the task, else it starts.
RetryFinish(c) ==
    LET t      == calls[c].task
        failed == calls[c].env.state = "failed"
    IN  /\ calls[c].at = "prepared"
        /\ tasks' = IF failed
                    THEN [tasks EXCEPT ![t].state = "blocked",
                                       ![t].reasons = {"environment"}]
                    ELSE tasks
        /\ StartIf(calls[c].start /\ ~failed, t)
        /\ calls' = [calls EXCEPT ![c] = NoCall]
        /\ UNCHANGED <<active, envs, results, granted, succeeded>>

\* cancel_task copies the control.  A local execution is signalled through it.
CancelRequest(c, t) ==
    /\ "cancel" \in Commands
    /\ Idle(c)
    /\ active[t] # NotActive
    /\ \/ /\ t \in Remote
          /\ calls' = [calls EXCEPT ![c] =
                          [NoCall EXCEPT !.at = "cancel_remove", !.task = t]]
          /\ UNCHANGED execs
       \/ /\ t \notin Remote
          /\ execs' = [execs EXCEPT ![active[t].exec].token = "cancelled"]
          /\ calls' = [calls EXCEPT ![c] =
                          [NoCall EXCEPT !.at = "cancel_mark", !.task = t]]
    /\ UNCHANGED <<tasks, active, envs, results, granted, succeeded>>

\* cancel_task of a remote task takes the lock again and removes the control
\* that is there by then.
CancelRemove(c) ==
    /\ calls[c].at = "cancel_remove"
    /\ active' = [active EXCEPT ![calls[c].task] = NotActive]
    /\ calls' = [calls EXCEPT ![c].at = "cancel_mark"]
    /\ UNCHANGED <<tasks, envs, execs, results, granted, succeeded>>

\* cancel_task, after the awaits: the record is marked whatever its state is.
CancelMark(c) ==
    LET t == calls[c].task
    IN  /\ calls[c].at = "cancel_mark"
        /\ tasks' = [tasks EXCEPT ![t].state = "cancelled", ![t].finished = TRUE]
        /\ calls' = [calls EXCEPT ![c].at = "cleanup"]
        /\ UNCHANGED <<active, envs, execs, results, granted, succeeded>>

\* finalize_environment_for_task, called by approve, reject and cancel.  The
\* policy of an isolated environment looks at its files: when that fails the
\* handler ends and the record stays in "cleaning".
CallCleanUp(c) ==
    LET t == calls[c].task
    IN  /\ calls[c].at = "cleanup"
        /\ \/ \E env \in Finalized(t, calls[c].success) :
                /\ envs' = [envs EXCEPT ![t] = env]
                /\ calls' = [calls EXCEPT ![c].at = "store", ![c].env = env]
           \/ /\ EnvFaults /\ t \in Isolated
              /\ envs' = [envs EXCEPT ![t] = [state |-> "cleaning", leased |-> FALSE]]
              /\ calls' = [calls EXCEPT ![c] = NoCall]
        /\ UNCHANGED <<tasks, active, execs, results, granted, succeeded>>

\* persist_environment_record: once written, the snapshot replaces the record.
CallStore(c) ==
    /\ calls[c].at = "store"
    /\ envs' = [envs EXCEPT ![calls[c].task] = calls[c].env]
    /\ calls' = [calls EXCEPT ![c] = NoCall]
    /\ UNCHANGED <<tasks, active, execs, results, granted, succeeded>>

\* pause_task: only a token that is still running becomes paused.
Pause(t) ==
    /\ "pause" \in Commands
    /\ active[t] # NotActive
    /\ t \notin Remote
    /\ execs[active[t].exec].token = "running"
    /\ execs' = [execs EXCEPT ![active[t].exec].token = "paused"]
    /\ UNCHANGED <<tasks, active, envs, calls, results, granted, succeeded>>

\* insert_team_message of a blocker that the record does not hold yet: a reason
\* is added, and the task blocked unless it has ended.
WithBlocker(record, reason) ==
    [record EXCEPT !.reasons = @ \cup {reason},
                   !.state = IF @ \in Terminal THEN @ ELSE "blocked"]

\* A blocker thread is opened on the task (send_team_message_draft).
PostBlocker(t) ==
    /\ t \in Escalating
    /\ tasks[t].state # "undelegated"
    /\ tasks[t].thread = "none"
    /\ tasks' = [tasks EXCEPT ![t] =
                    [WithBlocker(@, "blocker") EXCEPT !.thread = "open"]]
    /\ UNCHANGED <<active, envs, execs, calls, results, granted, succeeded>>

\* The thread is resolved (resolve_team_thread_action_request).
ResolveBlocker(t) ==
    LET reasons == tasks[t].reasons \ {"blocker"}
    IN  /\ tasks[t].thread = "open"
        /\ tasks' = [tasks EXCEPT
                ![t].thread = "closed",
                ![t].reasons = reasons,
                ![t].state = IF @ = "blocked" /\ reasons = {} THEN "queued" ELSE @]
        /\ UNCHANGED <<active, envs, execs, calls, results, granted, succeeded>>

-----------------------------------------------------------------------------
(* Actions of an execution: start_task_execution *)

\* acquire_environment_lease.  Nobody else leases a task's environment, so the
\* test of the lease's owner never fails here.
AcquireLease(e) ==
    LET env == [state |-> "in_use", leased |-> TRUE]
    IN  /\ execs[e].at = "acquire"
        /\ envs' = [envs EXCEPT ![execs[e].task] = env]
        /\ execs' = [execs EXCEPT ![e].at = "store_lease", ![e].env = env]
        /\ UNCHANGED <<tasks, active, calls, results, granted, succeeded>>

StoreLease(e) ==
    /\ execs[e].at = "store_lease"
    /\ envs' = [envs EXCEPT ![execs[e].task] = execs[e].env]
    /\ execs' = [execs EXCEPT ![e].at = "launch"]
    /\ UNCHANGED <<tasks, active, calls, results, granted, succeeded>>

\* The attempt an execution works for is read from the record at its launch.
LaunchedAttempt(e) == tasks[execs[e].task].attempts

\* The block under active_tasks and supervisor_runs: the task is running,
\* whatever it was.
Launch(e) ==
    LET t == execs[e].task
    IN  /\ execs[e].at = "launch"
        /\ tasks' = [tasks EXCEPT ![t].state = "running", ![t].reasons = {}]
        /\ active' = [active EXCEPT ![t] =
                        [exec |-> e, attempt |-> LaunchedAttempt(e)]]
        /\ execs' = [execs EXCEPT ![e].at = "spawn",
                                  ![e].attempt = LaunchedAttempt(e)]
        /\ UNCHANGED <<envs, calls, results, granted, succeeded>>

\* The run and the start checkpoint are on disk: the execution is spawned.
Spawn(e) ==
    /\ execs[e].at = "spawn"
    /\ execs' = [execs EXCEPT ![e].at = "running"]
    /\ UNCHANGED <<tasks, active, envs, calls, results, granted, succeeded>>

-----------------------------------------------------------------------------
(* Actions of an execution: its end and complete_task_execution *)

\* execute_remote_task polls a peer that reports the task blocked.
RemoteBlocked(e) ==
    LET t == execs[e].task
    IN  /\ execs[e].at = "running"
        /\ t \in Remote
        /\ tasks' = [tasks EXCEPT ![t].state = "blocked", ![t].reasons = {"remote"}]
        /\ execs' = [execs EXCEPT ![e].at = "remote_blocked"]
        /\ UNCHANGED <<active, envs, calls, results, granted, succeeded>>

Outcome == {"success", "failed", "cancelled", "blocked", "paused"}

\* What execute_remote_task or execute_delegated_task may return.  A local
\* execution is cancelled or paused only once its token says so; it may still
\* end by itself before it notices.
Outcomes(e) ==
    CASE execs[e].at = "remote_blocked" -> {"blocked"}
      [] execs[e].task \in Remote -> {"success", "failed", "cancelled", "blocked"}
      [] execs[e].token = "cancelled" -> {"success", "failed", "cancelled"}
      [] execs[e].token = "paused" -> {"success", "failed", "paused"}
      [] OTHER -> {"success", "failed"}

\* The completion belongs to an attempt that has been superseded.
Stale(e) ==
    LET t == execs[e].task
    IN  \/ tasks[t].attempts # execs[e].attempt
        \/ active[t] # NotActive /\ active[t].attempt # execs[e].attempt

\* Variant: a result is tested against the final states only.
DuplicateOfFinal(t) ==
    /\ tasks[t].result
    /\ tasks[t].finished
    /\ tasks[t].state \in Terminal \cup {"blocked"}

\* The record already holds the result of an execution that has ended.
Duplicate(t) ==
    /\ tasks[t].result
    /\ tasks[t].finished
    /\ tasks[t].state \in Terminal \cup {"blocked", "review_pending", "test_pending"}

ClearedGate(gate) == IF gate.state = "pending" THEN NoGate ELSE gate

\* The record after a result: a gate to pass, or a final state.
CompletedRecord(t, outcome) ==
    LET record == [tasks[t] EXCEPT !.result = TRUE, !.finished = TRUE]
        cleared == [record EXCEPT !.gate = ClearedGate(@)]
    IN  CASE outcome = "success" /\ t \in ReviewerRequired ->
                [record EXCEPT !.state = "review_pending",
                               !.gate = Requested("review")]
          [] outcome = "success" /\ t \in TestRequired \ ReviewerRequired ->
                [record EXCEPT !.state = "test_pending",
                               !.gate = Requested("test_validation")]
          [] outcome = "success" /\ t \notin TestRequired \cup ReviewerRequired ->
                [cleared EXCEPT !.state = "completed"]
          [] outcome \in {"blocked", "paused"} ->
                [cleared EXCEPT !.state = "blocked", !.reasons = {"output"}]
          [] OTHER -> [cleared EXCEPT !.state = outcome, !.reasons = {}]

Ended == {"running", "remote_blocked"}

\* Variant: the control is dropped before the tests for a stale completion.
ControlDropped(e) == [active EXCEPT ![execs[e].task] = NotActive]

\* A stale completion leaves the control alone; a duplicate one drops it.
ControlAfterIgnored(e) ==
    IF Stale(e) THEN active ELSE [active EXCEPT ![execs[e].task] = NotActive]

Ignore(e) ==
    /\ execs[e].at \in Ended
    /\ Stale(e) \/ Duplicate(execs[e].task)
    /\ active' = ControlAfterIgnored(e)
    /\ execs' = [execs EXCEPT ![e] = NoExecution]
    /\ UNCHANGED <<tasks, envs, calls, results, granted, succeeded>>

\* The result is recorded and every blocked task that has become ready is
\* queued, in the same block; the handler will start those it queued.  Of the
\* approvals only the one to execute was not given to the former result.
Complete(e, outcome) ==
    LET t      == execs[e].task
        record == CompletedRecord(t, outcome)
        ts     == [tasks EXCEPT ![t] = record]
        ready  == ReadyTasks(ts, IF outcome = "paused" THEN {t} ELSE {})
    IN  /\ execs[e].at \in Ended
        /\ ~Stale(e)
        /\ ~Duplicate(t)
        /\ active' = [active EXCEPT ![t] = NotActive]
        /\ tasks' = Requeued(ts, ready)
        /\ execs' = [execs EXCEPT ![e] = [NoExecution EXCEPT !.at = "cleanup",
                        !.task = t, !.attempt = execs[e].attempt,
                        !.final = record.state, !.ready = ready]]
        /\ granted' = [granted EXCEPT ![t] = @ \cap {"pre_execution"}]
        /\ succeeded' = IF record.state = "completed" THEN succeeded \cup {t}
                                                      ELSE succeeded
        /\ UNCHANGED <<envs, calls, results>>

\* The environment is finalized when the task ended, released otherwise.
CleanUp(e) ==
    LET t     == execs[e].task
        final == execs[e].final
    IN  /\ execs[e].at = "cleanup"
        /\ \/ \E env \in IF final \in Terminal
                          THEN Finalized(t, final = "completed")
                          ELSE {Released(envs[t])} :
                /\ envs' = [envs EXCEPT ![t] = env]
                /\ execs' = [execs EXCEPT ![e].at = "store_cleanup", ![e].env = env]
           \/ /\ EnvFaults /\ t \in Isolated
              /\ final \in Terminal
              /\ envs' = [envs EXCEPT ![t] = [state |-> "cleaning", leased |-> FALSE]]
              /\ execs' = [execs EXCEPT ![e] = NoExecution]
        /\ UNCHANGED <<tasks, active, calls, results, granted, succeeded>>

HandedOffAsBlocker == {"failed", "cancelled", "blocked"}

StoreCleanUp(e) ==
    /\ execs[e].at = "store_cleanup"
    /\ envs' = [envs EXCEPT ![execs[e].task] = execs[e].env]
    /\ execs' = [execs EXCEPT ![e].at =
                    IF execs[e].final \in HandedOffAsBlocker THEN "handoff"
                                                             ELSE "publish"]
    /\ UNCHANGED <<tasks, active, calls, results, granted, succeeded>>

\* publish_delegated_task_memory_handoff: an execution that did not succeed
\* sends its output as a blocker, to the record as it is by now.  The output of
\* an earlier one may read the same, and is not added twice.
PublishHandoff(e) ==
    /\ execs[e].at = "handoff"
    /\ \/ tasks' = [tasks EXCEPT ![execs[e].task] = WithBlocker(@, "handoff")]
       \/ "handoff" \in tasks[execs[e].task].reasons /\ UNCHANGED tasks
    /\ execs' = [execs EXCEPT ![e].at = "publish"]
    /\ UNCHANGED <<active, envs, calls, results, granted, succeeded>>

AfterSend(e) ==
    IF execs[e].ready = {} THEN NoExecution
    ELSE [NoExecution EXCEPT !.at = "schedule", !.ready = execs[e].ready]

\* Variant: the channel is unbounded.
SendResultUnbounded(e) ==
    /\ execs[e].at = "publish"
    /\ results' = results + 1
    /\ execs' = [execs EXCEPT ![e] = AfterSend(e)]
    /\ UNCHANGED <<tasks, active, envs, calls, granted, succeeded>>

\* Variant: the handler gives up when the channel is full (try_send with `?`).
SendResultOrFail(e) ==
    /\ execs[e].at = "publish"
    /\ IF results < ResultCapacity
       THEN /\ results' = results + 1
            /\ execs' = [execs EXCEPT ![e] = AfterSend(e)]
       ELSE /\ execs' = [execs EXCEPT ![e] = NoExecution]
            /\ UNCHANGED results
    /\ UNCHANGED <<tasks, active, envs, calls, granted, succeeded>>

\* The result is sent; the handler waits while the channel is full.
SendResult(e) ==
    /\ execs[e].at = "publish"
    /\ results < ResultCapacity
    /\ results' = results + 1
    /\ execs' = [execs EXCEPT ![e] = AfterSend(e)]
    /\ UNCHANGED <<tasks, active, envs, calls, granted, succeeded>>

AfterStart(e, t) ==
    IF execs[e].ready = {t} THEN NoExecution
    ELSE [execs[e] EXCEPT !.ready = @ \ {t}]

\* schedule_task_execution for one of the tasks the completion queued.
Schedule(e) ==
    /\ execs[e].at = "schedule"
    /\ \E t \in execs[e].ready, f \in FreeExecs :
        execs' = [execs EXCEPT ![f] = Starting(t), ![e] = AfterStart(e, t)]
    /\ UNCHANGED <<tasks, active, envs, calls, results, granted, succeeded>>

\* A write fails: the handler returns early, its remaining steps are lost.
Abort(e) ==
    /\ DiskFaults
    /\ execs[e].at \in {"store_lease", "spawn", "store_cleanup", "handoff", "publish"}
    /\ execs' = [execs EXCEPT ![e] = NoExecution]
    /\ UNCHANGED <<tasks, active, envs, calls, results, granted, succeeded>>

AbortCall(c) ==
    /\ DiskFaults
    /\ calls[c].at \in {"cleanup", "store", "prepare", "prepared"}
    /\ calls' = [calls EXCEPT ![c] = NoCall]
    /\ UNCHANGED <<tasks, active, envs, execs, results, granted, succeeded>>

\* poll_result takes a result from the channel.
PollResult ==
    /\ Polled
    /\ results > 0
    /\ results' = results - 1
    /\ UNCHANGED <<tasks, active, envs, execs, calls, granted, succeeded>>

-----------------------------------------------------------------------------
(* The specification *)

ExecStep(e) ==
    \/ AcquireLease(e) \/ StoreLease(e) \/ Launch(e) \/ Spawn(e)
    \/ Ignore(e)
    \/ \E outcome \in Outcomes(e) : Complete(e, outcome)
    \/ CleanUp(e) \/ StoreCleanUp(e) \/ PublishHandoff(e)
    \/ SendResult(e) \/ Schedule(e)

CallStep(c) ==
    \/ CancelRemove(c) \/ CancelMark(c) \/ RetryPrepare(c) \/ RetryFinish(c)
    \/ CallCleanUp(c) \/ CallStore(c)

Operator(c) ==
    \E t \in Task :
        \/ Delegate(c, t)
        \/ \E actor \in ActorKind : Approve(c, t, actor) \/ Reject(c, t, actor)
        \/ Retry(c, t)
        \/ CancelRequest(c, t)

Next ==
    \/ \E c \in Client : Operator(c) \/ CallStep(c) \/ AbortCall(c)
    \/ \E e \in Exec : ExecStep(e) \/ RemoteBlocked(e) \/ Abort(e)
    \/ \E t \in Task : Pause(t) \/ PostBlocker(t) \/ ResolveBlocker(t)
    \/ PollResult

Spec == Init /\ [][Next]_vars

\* A handler that was spawned keeps running, and an execution ends.  Operators
\* and peers owe nothing, and nobody has to poll a result: the repository has no
\* caller of poll_result.
Fairness ==
    /\ \A e \in Exec : WF_vars(ExecStep(e))
    /\ \A c \in Client : WF_vars(CallStep(c))

FairSpec == Spec /\ Fairness

-----------------------------------------------------------------------------
(* Properties *)

\* A task is completed only when every gate its result has to pass has been
\* approved for that very result, not for one that a later execution replaced.
GatesBeforeCompletion ==
    \A t \in Task : tasks[t].state = "completed" =>
        \A s \in {"review", "test_validation"} : Required(t, s) => s \in granted[t]

\* A task at a gate has an open request for that gate: approve_task and
\* reject_task, the only ways out, would otherwise refuse it for ever.
GatedTaskIsDecidable ==
    \A t \in Task : ScopeOf(tasks[t].state) # "none" =>
        tasks[t].gate = Requested(ScopeOf(tasks[t].state))

\* How far the result of a task has come, whatever its handlers are at.
StageOf(state) ==
    CASE state = "undelegated"            -> "absent"
      [] state = "review_pending"         -> "review"
      [] state = "test_pending"           -> "tests"
      [] state = "completed"              -> "complete"
      [] state \in {"failed", "cancelled"} -> "ended"
      [] OTHER                            -> "open"

Result == INSTANCE GatedResult WITH
    Reviewed <- ReviewerRequired,
    Tested   <- TestRequired,
    stage    <- [t \in Task |-> StageOf(tasks[t].state)],
    approved <- [t \in Task |-> granted[t] \cap {"review", "test_validation"}]

\* The lifecycle implements GatedResult: however its handlers interleave, a
\* result passes its gates one after the other, and no approval outlives the
\* result it was given to.
ImplementsGatedResult == Result!Spec

Executing(e) == execs[e].at \in {"spawn"} \cup Ended

\* A task shown as running has an execution for its current attempt.
RunningIsBacked ==
    \A t \in Task : tasks[t].state = "running" =>
        \E e \in Exec : /\ Executing(e)
                        /\ execs[e].task = t
                        /\ execs[e].attempt = tasks[t].attempts

\* A running local task can be cancelled: its control is that of an execution
\* of the current attempt.
RunningIsCancellable ==
    \A t \in Task \ Remote : tasks[t].state = "running" =>
        /\ active[t] # NotActive
        /\ active[t].attempt = tasks[t].attempts
        /\ Executing(active[t].exec)

\* No attempt of a task is executed twice at the same time.
OneExecutionPerAttempt ==
    \A e, f \in Exec :
        /\ Executing(e) /\ Executing(f)
        /\ execs[e].task = execs[f].task
        /\ execs[e].attempt = execs[f].attempt
        => e = f

StartInFlight(t) ==
    \/ \E e \in Exec : \/ /\ execs[e].at \in {"acquire", "store_lease", "launch"}
                          /\ execs[e].task = t
                       \/ t \in execs[e].ready
    \/ \E c \in Client : calls[c].task = t /\ calls[c].start

\* A queued task is one that some handler is about to start.
QueuedIsBeingStarted ==
    \A t \in Task : tasks[t].state = "queued" => StartInFlight(t)

\* A task executes only after each of its dependencies has been completed.
DependenciesFirst ==
    \A e \in Exec : Executing(e) => DependsOn[execs[e].task] \subseteq succeeded

\* Not so in the code (sibling_unblocks.cfg): a blocker keeps its task from
\* being queued until its thread is resolved.
BlockerHoldsTask ==
    [][\A t \in Task :
        /\ tasks[t].state = "blocked" /\ "blocker" \in tasks[t].reasons
        /\ tasks'[t].state = "queued"
        => tasks'[t].thread = "closed" \/ tasks'[t].attempts > tasks[t].attempts]_vars

\* Not so in the code (gated_unblock.cfg): a task is queued only once its
\* pre-execution approval is no longer pending.  It holds as long as nobody
\* opens a blocker thread.
QueuedNeedsNoApproval ==
    \A t \in Task : tasks[t].state = "queued" => tasks[t].gate.state # "pending"

\* No execution is launched for an attempt whose approval is not granted.
ApprovedBeforeExecution ==
    \A e \in Exec :
        LET t == execs[e].task
        IN  execs[e].at = "spawn" /\ t \in ApprovalRequired
            /\ execs[e].attempt = tasks[t].attempts
            => "pre_execution" \in granted[t]

\* Not so in the code (lost_environment.cfg): the environment of a task whose
\* current attempt executes stays leased to it.
ExecutionHoldsEnvironment ==
    \A e \in Exec :
        LET t == execs[e].task
        IN  /\ execs[e].at = "running"
            /\ tasks[t].state = "running"
            /\ execs[e].token # "cancelled"
            /\ execs[e].attempt = tasks[t].attempts
            => envs[t].state = "in_use" /\ envs[t].leased

\* A leased environment belongs to a handler that will give it back.
LeaseHasOwner ==
    \A t \in Task : envs[t].leased =>
        \/ \E e \in Exec : /\ execs[e].task = t
                          /\ execs[e].at \notin {"acquire", "handoff", "publish"}
        \/ \E d \in Client : /\ calls[d].task = t
                            /\ calls[d].at \notin {"idle", "prepared"}

ChannelIsFull == results = ResultCapacity

\* Not so in the code (the instance of progress.cfg): a queued task eventually executes.
QueuedTaskAlwaysRuns ==
    \A t \in Task : tasks[t].state = "queued" ~> tasks[t].state = "running"

\* A queued task eventually executes, unless the channel of the results stays
\* full for ever: the handler that queued it sends its own result first, and
\* forgets nothing of what it queued while it waits for room.
QueuedTaskRuns ==
    \A t \in Task : tasks[t].state = "queued"
                        ~> tasks[t].state = "running" \/ []ChannelIsFull

OnlyWaits(t) == tasks[t].state = "blocked" /\ tasks[t].reasons = {"dependency"}

\* A task that only waits for its dependencies is woken once they complete.
ReadyTaskWakes ==
    \A t \in Task : OnlyWaits(t) /\ DependenciesMet(tasks, t) ~> ~OnlyWaits(t)

\* Every lease is given back.
LeaseIsReleased ==
    \A t \in Task : envs[t].leased ~> ~envs[t].leased
=============================================================================
