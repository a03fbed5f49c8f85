------------------------------ MODULE Recovery ------------------------------
(***************************************************************************)
(* Local delegated tasks across crashes and restarts of the application:   *)
(*   crates/gestura-core/src/orchestrator/persistence.rs   the three files *)
(*   crates/gestura-core/src/orchestrator/recovery.rs      the restart     *)
(*   crates/gestura-core/src/orchestrator.rs               who writes what *)
(*                                                                         *)
(* One run is modelled.  Its tasks are in one file (`runFile`); each task  *)
(* has an environment file and a checkpoint file.  A handler changes the   *)
(* records in memory under a lock, takes a snapshot, and writes it after   *)
(* the lock is released: every write is a step of its own, and a crash may *)
(* come before it, after it or in its middle, which leaves a file that     *)
(* does not parse and is skipped when it is loaded.                        *)
(*                                                                         *)
(* Gates, dependencies and remote tasks are those of Orchestrator and left *)
(* out here; so are failing writes.                                        *)
(***************************************************************************)
EXTENDS Naturals, FiniteSets

CONSTANTS
    Task,         \* tasks of the run
    Job,          \* slots for starts, executions and completions (bound)
    NoJob, NoTask,
    EndedJob,     \* in active_tasks: an execution that ended, see Ignore
    Isolated,     \* tasks with an environment of their own
    Commands,     \* commands the operator gives, besides delegating
    MaxAttempts,  \* retries of a task (bound)
    MaxCrashes,   \* crashes (bound)
    MaxReconciles, \* reconciliations of live tasks (bound)
    TornWrites    \* whether a crash may cut a write in two

Command == {"resume", "restart", "retry", "pause", "cancel", "acknowledge",
            "reconcile"}

ASSUME RecoveryAssumption ==
    /\ {NoJob, EndedJob} \cap Job = {}
    /\ NoJob # EndedJob
    /\ NoTask \notin Task
    /\ Isolated \subseteq Task
    /\ Commands \subseteq Command
    /\ MaxAttempts \in Nat
    /\ MaxCrashes \in Nat
    /\ MaxReconciles \in Nat
    /\ TornWrites \in BOOLEAN

VARIABLES
    record,       \* supervisor_runs: the SupervisorTaskRecord of each task
    env,          \* environments: whether the lease is open
    active,       \* active_tasks: the execution that is controlled
    jobs,         \* starts, executions and completions under way
    op,           \* the operator's command, or the restart, under way
    runFile,      \* the run as it was written last
    envFile,      \* the environment of each task as it was written last
    checkpoint,   \* the checkpoint file of each task
    gone,         \* tasks whose working directory has been removed
    crashes, reconciles,
    sent,         \* history: attempts whose final result has been sent
    disturbed,    \* history: tasks started again by an operator or by the
                  \* completion of another task, or changed by a
                  \* reconciliation while they were live
    held          \* history: tasks a restart has found at a gated boundary,
                  \* not started again since

memory  == <<record, env, active, jobs, op>>
disk    == <<runFile, envFile, checkpoint, gone>>
history == <<sent, disturbed, held>>
vars    == <<memory, disk, crashes, reconciles, history>>

State == {"none", "queued", "running", "blocked", "completed", "failed",
          "cancelled"}
Terminal == {"completed", "failed", "cancelled"}

\* A DelegatedTaskCheckpoint, by the boundary it stands for: "start" of an
\* execution, before a tool that may be "readonly" or is "gated" (operator
\* gated or not replayable), "after" a tool, "paused", "scratch" when the
\* operator has cleared it, "result" when the result is out.
Checkpoint == {"none", "start", "readonly", "gated", "after", "paused",
               "scratch", "result"}

\* Blocked reasons: that the restart found this checkpoint, or another.
Reason == Checkpoint \cup {"environment", "pause", "handoff"}
Record == [state : State, attempts : 0..MaxAttempts, reasons : SUBSET Reason,
           result : BOOLEAN, finished : BOOLEAN]
NoRecord == [state |-> "none", attempts |-> 0, reasons |-> {},
             result |-> FALSE, finished |-> FALSE]
Environment == {"none", "free", "leased"}

Starting  == {"lease", "store_lease", "launch"}
Executing == {"store_start", "checkpoint", "run", "store_progress", "ended"}
Completing == {"cleanup", "store_cleanup", "store_env", "store_result",
               "handoff", "store_handoff", "terminal", "send", "schedule"}
Outcome == {"none", "success", "failure", "paused", "cancelled"}
JobRecord ==
    [at : {"free"} \cup Starting \cup Executing \cup Completing,
     task : Task \cup {NoTask}, attempt : 0..MaxAttempts,
     token : {"running", "paused", "cancelled"}, outcome : Outcome,
     snap : [Task -> Record], ready : SUBSET Task]

Snapshots == [Task -> Record]
NoSnapshot == [t \in Task |-> NoRecord]
Free == [at |-> "free", task |-> NoTask, attempt |-> 0, token |-> "running", outcome |-> "none", snap |-> NoSnapshot,
         ready |-> {}]

Handling == {"store_delegate", "retry", "prepare", "store_retry", "resume",
            "resume_checkpoint", "store_resume", "cancel", "cancel_cleanup",
            "cancel_store", "store_cancel", "acknowledge",
            "acknowledge_checkpoint", "store_acknowledged", "reconcile",
            "store_reconciled", "reconciled_envs", "reconciled_checkpoints"}
Boot == {"down", "boot_runs", "boot_envs", "boot_checkpoints", "boot_resume",
         "boot_resumed", "boot_resumed_checkpoints", "boot_schedule"}

\* Where the operator's command is about a task.
OfTask == {"store_delegate", "retry", "prepare", "store_retry", "resume",
           "resume_checkpoint", "store_resume", "cancel", "cancel_cleanup",
           "cancel_store", "store_cancel", "acknowledge",
           "acknowledge_checkpoint", "store_acknowledged"}
NoEnvironments == [t \in Task |-> "none"]
NoCheckpoints  == [t \in Task |-> "none"]
OpRecord == [at : {"idle"} \cup Handling \cup Boot, task : Task \cup {NoTask},
             snap : Snapshots, kept : [Task -> Checkpoint],
             envs : [Task -> Environment], ready : SUBSET Task]
Idle == [at |-> "idle", task |-> NoTask, snap |-> NoSnapshot,
         kept |-> NoCheckpoints, envs |-> NoEnvironments, ready |-> {}]

Typed ==
    /\ record \in Snapshots
    /\ env \in [Task -> Environment]
    /\ active \in [Task -> Job \cup {NoJob, EndedJob}]
    /\ jobs \in [Job -> JobRecord]
    /\ op \in OpRecord
    /\ runFile \in Snapshots
    /\ envFile \in [Task -> Environment]
    /\ checkpoint \in [Task -> Checkpoint]
    /\ gone \subseteq Task
    /\ crashes \in 0..MaxCrashes
    /\ reconciles \in 0..MaxReconciles
    /\ sent \in [Task -> SUBSET (0..MaxAttempts)]
    /\ disturbed \subseteq Task
    /\ held \subseteq Task

Init ==
    /\ record = NoSnapshot
    /\ env = NoEnvironments
    /\ active = [t \in Task |-> NoJob]
    /\ jobs = [j \in Job |-> Free]
    /\ op = Idle
    /\ runFile = NoSnapshot
    /\ envFile = NoEnvironments
    /\ checkpoint = NoCheckpoints
    /\ gone = {}
    /\ crashes = 0
    /\ reconciles = 0
    /\ sent = [t \in Task |-> {}]
    /\ disturbed = {}
    /\ held = {}

-----------------------------------------------------------------------------
(* Checkpoints and records *)

\* Variant: a gated boundary may be resumed like any other.
UngatedDisposition(k) ==
    CASE k \in {"start", "after", "paused", "gated"} -> "resume"
      [] k \in {"readonly", "scratch"}               -> "boundary"
      [] OTHER                                       -> "not_applicable"

\* restart_resume_disposition, and what each checkpoint is written with.
\* checkpoint_for_restart_recovery derives the same again.
Disposition(k) ==
    CASE k \in {"start", "after", "paused"} -> "resume"
      [] k \in {"readonly", "scratch"}      -> "boundary"
      [] k = "gated"                        -> "operator"
      [] OTHER                              -> "not_applicable"

HasResumeState(k) == k \in {"readonly", "gated", "after", "paused"}
Published(k) == k = "result"
Resumable(k) == /\ ~Published(k)
                /\ HasResumeState(k)
                /\ Disposition(k) = "resume"

\* Variant: an interrupted task keeps its state.
KeptAfterRestart(r, k, lost) ==
    IF lost THEN [r EXCEPT !.reasons = @ \cup {"environment"}] ELSE r

\* What reconciliation makes of a record: a task that was running is blocked,
\* and so is every task, a completed one included, whose environment had an
\* open lease or is gone (reconcile_environment_record).
Reconciled(r, k, lost) ==
    [r EXCEPT
        !.state = IF lost \/ @ = "running" THEN "blocked" ELSE @,
        !.reasons = @ \cup (IF r.state = "running" THEN {k} ELSE {})
                     \cup (IF lost THEN {"environment"} ELSE {})]

Known(run) == {t \in Task : run[t].state # "none"}
Lost(t, envs) == envs[t] = "leased" \/ (envs[t] # "none" /\ t \in gone)

ReconciledRun(run, envs, kept) ==
    [t \in Task |-> IF t \in Known(run)
                    THEN Reconciled(run[t], kept[t], Lost(t, envs))
                    ELSE run[t]]

\* Variant: reconciliation leaves the leases alone.
LeasesKept(run, envs) == envs

\* An environment without a task is only marked as an orphan.
LeasesReleased(run, envs) ==
    [t \in Task |-> IF t \in Known(run) /\ envs[t] = "leased" THEN "free"
                                                            ELSE envs[t]]

\* collect_ready_tasks_except, without dependencies.
Ready(run, except) == {t \in Task \ except : run[t].state = "blocked"}
Requeued(run, ready) ==
    [t \in Task |-> IF t \in ready
                    THEN [run[t] EXCEPT !.state = "queued", !.reasons = {}]
                    ELSE run[t]]

Going(j, at) == jobs' = [jobs EXCEPT ![j].at = at]
Ends(j) == jobs' = [jobs EXCEPT ![j] = Free]

\* schedule_task_execution
Scheduled(t) == [Free EXCEPT !.at = "lease", !.task = t]

\* The operator's command ends with the start of its task.
Started(t) ==
    \E j \in Job : /\ jobs[j] = Free
                   /\ jobs' = [jobs EXCEPT ![j] = Scheduled(t)]

-----------------------------------------------------------------------------
(* start_task_execution *)

JobFrame == UNCHANGED <<op, crashes, reconciles, gone, disturbed, held>>

\* acquire_environment_lease: without a record the start ends.
AcquireLease(j) ==
    LET t == jobs[j].task
    IN  /\ jobs[j].at = "lease"
        /\ IF env[t] = "none"
           THEN Ends(j) /\ UNCHANGED env
           ELSE Going(j, "store_lease") /\ env' = [env EXCEPT ![t] = "leased"]
        /\ JobFrame
        /\ UNCHANGED <<record, active, runFile, envFile, checkpoint, sent>>

\* persist_environment_record writes the snapshot back into the map as well.
StoreEnvironment(t, e) ==
    /\ envFile' = [envFile EXCEPT ![t] = e]
    /\ env' = [env EXCEPT ![t] = e]

StoreLease(j) ==
    /\ jobs[j].at = "store_lease"
    /\ StoreEnvironment(jobs[j].task, "leased")
    /\ Going(j, "launch")
    /\ JobFrame
    /\ UNCHANGED <<record, active, runFile, checkpoint, sent>>

Launch(j) ==
    LET t == jobs[j].task
        running == [record EXCEPT ![t].state = "running", ![t].reasons = {}]
    IN  /\ jobs[j].at = "launch"
        /\ record' = running
        /\ active' = [active EXCEPT ![t] = j]
        /\ jobs' = [jobs EXCEPT ![j].at = "store_start",
                                ![j].attempt = record[t].attempts,
                                ![j].snap = running]
        /\ JobFrame
        /\ UNCHANGED <<env, runFile, envFile, checkpoint, sent>>

\* The snapshot of a run reaches its file.
StoreRun(j, from, to) ==
    /\ jobs[j].at = from
    /\ runFile' = jobs[j].snap
    /\ jobs' = [jobs EXCEPT ![j].at = to, ![j].snap = NoSnapshot]
    /\ JobFrame
    /\ UNCHANGED <<record, env, active, envFile, checkpoint, sent>>

WriteCheckpoint(j, k) ==
    /\ checkpoint' = [checkpoint EXCEPT ![jobs[j].task] = k]
    /\ JobFrame
    /\ UNCHANGED <<record, env, active, runFile, envFile, sent>>

\* The start checkpoint holds no resume state, and takes the place of one that
\* did: the execution loads it right after and begins from scratch.
StartCheckpoint(j) ==
    /\ jobs[j].at = "checkpoint"
    /\ WriteCheckpoint(j, "start")
    /\ Going(j, "run")

-----------------------------------------------------------------------------
(* execute_delegated_task: the loop over the chunks of the pipeline *)

BeforeTool(j) ==
    /\ jobs[j].at = "run"
    /\ \E k \in {"readonly", "gated"} : WriteCheckpoint(j, k)
    /\ UNCHANGED jobs

AfterTool(j) ==
    /\ jobs[j].at = "run"
    /\ WriteCheckpoint(j, "after")
    /\ UNCHANGED jobs

\* sync_local_execution_progress: a snapshot of the whole run.
Progress(j) ==
    /\ jobs[j].at = "run"
    /\ jobs' = [jobs EXCEPT ![j].at = "store_progress", ![j].snap = record]
    /\ JobFrame
    /\ UNCHANGED <<record, env, active, disk, sent>>

PauseSeen(j) ==
    /\ jobs[j].at = "run"
    /\ jobs[j].token = "paused"
    /\ WriteCheckpoint(j, "paused")
    /\ jobs' = [jobs EXCEPT ![j].at = "ended", ![j].outcome = "paused"]

\* A token may be raised too late to be seen.
ExecutionEnds(j) ==
    /\ jobs[j].at = "run"
    /\ \E outcome \in {"success", "failure"} \cup
            (IF jobs[j].token = "cancelled" THEN {"cancelled"} ELSE {}) :
        jobs' = [jobs EXCEPT ![j].at = "ended", ![j].outcome = outcome]
    /\ JobFrame
    /\ UNCHANGED <<record, env, active, disk, sent>>

-----------------------------------------------------------------------------
(* complete_task_execution *)

FinalState(outcome) == CASE outcome = "success"   -> "completed"
                         [] outcome = "failure"   -> "failed"
                         [] outcome = "paused"    -> "blocked"
                         [] OTHER                 -> "cancelled"

Stale(j) ==
    LET t == jobs[j].task
    IN  \/ record[t].attempts # jobs[j].attempt
        \/ active[t] = EndedJob
        \/ /\ active[t] \in Job
           /\ jobs[active[t]].attempt # jobs[j].attempt

Duplicate(t) == /\ record[t].result
                /\ record[t].finished
                /\ record[t].state \in Terminal \cup {"blocked"}

\* A stale result leaves the entry of active_tasks alone, its own included:
\* the entry is then that of an earlier attempt, until the next launch.
Ignore(j) ==
    LET t == jobs[j].task
    IN  /\ jobs[j].at = "ended"
        /\ Stale(j) \/ Duplicate(t)
        /\ active' = [active EXCEPT ![t] = IF ~Stale(j) THEN NoJob
                                           ELSE IF @ = j THEN EndedJob ELSE @]
        /\ Ends(j)
        /\ JobFrame
        /\ UNCHANGED <<record, env, disk, sent>>

Complete(j) ==
    LET t     == jobs[j].task
        state == FinalState(jobs[j].outcome)
        run   == [record EXCEPT ![t].state = state,
                                ![t].result = TRUE,
                                ![t].finished = TRUE,
                                ![t].reasons = CASE state = "blocked" -> {"pause"}
                                                 [] state = "completed" -> @
                                                 [] OTHER -> {}]
        ready == Ready(run, IF state = "blocked" THEN {t} ELSE {})
    IN  /\ jobs[j].at = "ended"
        /\ ~Stale(j)
        /\ ~Duplicate(t)
        /\ active' = [active EXCEPT ![t] = NoJob]
        /\ record' = Requeued(run, ready)
        /\ jobs' = [jobs EXCEPT ![j].at = "cleanup", ![j].ready = ready]
        /\ JobFrame
        /\ UNCHANGED <<env, disk, sent>>

\* The lease is released.  An environment of its own is removed after a
\* success when it is clean (default_cleanup_policy).
CleanUp(j) ==
    LET t == jobs[j].task
    IN  /\ jobs[j].at = "cleanup"
        /\ env' = [env EXCEPT ![t] = "free"]
        /\ \/ UNCHANGED gone
           \/ /\ t \in Isolated
              /\ jobs[j].outcome = "success"
              /\ gone' = gone \cup {t}
        /\ Going(j, "store_cleanup")
        /\ UNCHANGED <<record, active, op, crashes, reconciles, runFile,
                       envFile, checkpoint, history>>

\* update_environment_in_runs takes a snapshot of its own, ...
StoreCleanUp(j) ==
    /\ jobs[j].at = "store_cleanup"
    /\ StoreEnvironment(jobs[j].task, "free")
    /\ jobs' = [jobs EXCEPT ![j].at = "store_env", ![j].snap = record]
    /\ JobFrame
    /\ UNCHANGED <<record, active, runFile, checkpoint, sent>>

\* ... and the run is read and written once more after it.
StoreEnvInRun(j) ==
    /\ jobs[j].at = "store_env"
    /\ runFile' = jobs[j].snap
    /\ jobs' = [jobs EXCEPT ![j].at = "store_result", ![j].snap = record]
    /\ JobFrame
    /\ UNCHANGED <<record, env, active, envFile, checkpoint, sent>>

\* publish_delegated_task_memory_handoff: what did not succeed is a blocker.
HandOff(j) ==
    LET t == jobs[j].task
        blocked ==
            [record EXCEPT
                ![t].reasons = @ \cup {"handoff"},
                ![t].state = IF @ \in Terminal \/ "handoff" \in record[t].reasons
                             THEN @ ELSE "blocked"]
        run == IF jobs[j].outcome = "success" THEN record ELSE blocked
    IN  /\ jobs[j].at = "handoff"
        /\ record' = run
        /\ jobs' = [jobs EXCEPT ![j].at = "store_handoff", ![j].snap = run]
        /\ JobFrame
        /\ UNCHANGED <<env, active, disk, sent>>

\* Variant: the result is sent before its checkpoint is written.
SendFirst(j) == "send"

AfterHandOff(j) == IF jobs[j].outcome = "paused" THEN "send" ELSE "terminal"

TerminalCheckpoint(j) ==
    /\ jobs[j].at = "terminal"
    /\ WriteCheckpoint(j, "result")
    /\ Going(j, "send")

\* Only a paused execution will have another result.
SendResult(j) ==
    LET t == jobs[j].task
    IN  /\ jobs[j].at = "send"
        /\ sent' = [sent EXCEPT ![t] =
                        IF jobs[j].outcome = "paused" THEN @
                        ELSE @ \cup {jobs[j].attempt}]
        /\ IF jobs[j].ready = {} THEN Ends(j) ELSE Going(j, "schedule")
        /\ JobFrame
        /\ UNCHANGED <<record, env, active, disk>>

\* One of the tasks that this completion has queued is started.
Schedule(j) ==
    /\ jobs[j].at = "schedule"
    /\ \E t \in jobs[j].ready :
        LET left == jobs[j].ready \ {t}
        IN  /\ IF left = {}
               THEN jobs' = [jobs EXCEPT ![j] = Scheduled(t)]
               ELSE \E k \in Job :
                       /\ jobs[k] = Free
                       /\ jobs' = [jobs EXCEPT ![k] = Scheduled(t),
                                               ![j].ready = left]
            /\ disturbed' = disturbed \cup {t}
            /\ held' = held \ {t}
    /\ UNCHANGED <<record, env, active, op, disk, crashes, reconciles, sent>>

Stores(j) ==
    \/ StoreRun(j, "store_start", "checkpoint")
    \/ StoreRun(j, "store_progress", "run")
    \/ StoreRun(j, "store_result", "handoff")
    \/ StoreRun(j, "store_handoff", AfterHandOff(j))

JobStep(j) ==
    \/ AcquireLease(j) \/ StoreLease(j) \/ Launch(j) \/ StartCheckpoint(j)
    \/ Stores(j)
    \/ BeforeTool(j) \/ AfterTool(j) \/ Progress(j) \/ PauseSeen(j)
    \/ ExecutionEnds(j)
    \/ Ignore(j) \/ Complete(j) \/ CleanUp(j) \/ StoreCleanUp(j)
    \/ StoreEnvInRun(j) \/ HandOff(j) \/ TerminalCheckpoint(j) \/ SendResult(j)
    \/ Schedule(j)

-----------------------------------------------------------------------------
(* The operator's commands.  A command that fails changes nothing more. *)

JobsFrame == UNCHANGED <<active, jobs>>
OpFrame == UNCHANGED <<crashes, reconciles, sent>>
Excuses(t) == disturbed' = disturbed \cup {t} /\ held' = held \ {t}

OpGoes(at) == op' = [op EXCEPT !.at = at]

\* Variant: the task is added to a copy of the run, which is written but not
\* put back.
DelegateToCopy(t) ==
    /\ op = Idle
    /\ record[t].state = "none" /\ env[t] = "none" /\ checkpoint[t] = "none"
    /\ StoreEnvironment(t, "free")
    /\ op' = [Idle EXCEPT !.at = "store_delegate", !.task = t,
                          !.snap = [record EXCEPT ![t].state = "queued"]]
    /\ sent' = [sent EXCEPT ![t] = {}]
    /\ held' = held \ {t}
    /\ JobsFrame
    /\ UNCHANGED <<record, runFile, checkpoint, gone, crashes, reconciles,
                   disturbed>>

\* delegate_task: the environment is prepared and written first.  A task of
\* which no file is left may as well be another: its history begins here.
Delegate(t) ==
    LET queued == [record EXCEPT ![t].state = "queued"]
    IN  /\ op = Idle
        /\ record[t].state = "none"
        /\ env[t] = "none"
        /\ checkpoint[t] = "none"
        /\ record' = queued
        /\ StoreEnvironment(t, "free")
        /\ op' = [Idle EXCEPT !.at = "store_delegate", !.task = t,
                              !.snap = queued]
        /\ sent' = [sent EXCEPT ![t] = {}]
        /\ held' = held \ {t}
        /\ JobsFrame
        /\ UNCHANGED <<runFile, checkpoint, gone, crashes, reconciles,
                       disturbed>>

\* The command writes its snapshot and starts its task.
StoreAndStart(at) ==
    /\ op.at = at
    /\ runFile' = op.snap
    /\ op' = Idle
    /\ Started(op.task)
    /\ OpFrame
    /\ UNCHANGED <<record, env, active, envFile, checkpoint, gone, disturbed,
                   held>>

Store(at) ==
    /\ op.at = at
    /\ runFile' = op.snap
    /\ op' = Idle
    /\ JobsFrame /\ OpFrame
    /\ UNCHANGED <<record, env, envFile, checkpoint, gone, disturbed, held>>

\* retry_task
CanRetry(t) ==
    /\ record[t].state \in {"failed", "cancelled", "blocked"}
    /\ record[t].attempts < MaxAttempts

Requeue(t) ==
    /\ record' = [record EXCEPT ![t] = [NoRecord EXCEPT
                                        !.state = "queued",
                                        !.attempts = record[t].attempts + 1]]
    /\ op' = [Idle EXCEPT !.at = "prepare", !.task = t]
    /\ Excuses(t)
    /\ JobsFrame /\ OpFrame
    /\ UNCHANGED <<env, disk>>

Retry(t) == op = Idle /\ "retry" \in Commands /\ CanRetry(t) /\ Requeue(t)

\* retry_environment_preparation, then the last of three writes of the run.
Prepare ==
    /\ op.at = "prepare"
    /\ env[op.task] # "none"
    /\ StoreEnvironment(op.task, "free")
    /\ gone' = gone \ {op.task}
    /\ op' = [op EXCEPT !.at = "store_retry", !.snap = record]
    /\ JobsFrame /\ OpFrame
    /\ UNCHANGED <<record, runFile, checkpoint, disturbed, held>>

PrepareFails ==
    /\ op.at = "prepare"
    /\ env[op.task] = "none"
    /\ op' = Idle
    /\ JobsFrame /\ OpFrame
    /\ UNCHANGED <<record, env, disk, disturbed, held>>

\* restart_task_from_scratch: the checkpoint is cleared before the task is
\* known to be one that may be retried.
Restart(t) ==
    /\ op = Idle
    /\ "restart" \in Commands
    /\ record[t].state # "none"
    /\ checkpoint' = [checkpoint EXCEPT ![t] = IF @ = "none" THEN @
                                               ELSE "scratch"]
    /\ op' = [Idle EXCEPT !.at = "retry", !.task = t]
    /\ JobsFrame /\ OpFrame
    /\ UNCHANGED <<record, env, runFile, envFile, gone, disturbed, held>>

RestartRetries == op.at = "retry" /\ CanRetry(op.task) /\ Requeue(op.task)

RestartRefused ==
    /\ op.at = "retry"
    /\ ~CanRetry(op.task)
    /\ op' = Idle
    /\ JobsFrame /\ OpFrame
    /\ UNCHANGED <<record, env, disk, disturbed, held>>

\* resume_task_from_checkpoint: the checkpoint is read and the task seen not
\* to be active, ...
Resume(t) ==
    /\ op = Idle
    /\ "resume" \in Commands
    /\ record[t].state # "none"
    /\ Resumable(checkpoint[t])
    /\ active[t] = NoJob
    /\ op' = [Idle EXCEPT !.at = "resume", !.task = t,
                          !.kept[t] = checkpoint[t]]
    /\ JobsFrame /\ OpFrame
    /\ UNCHANGED <<record, env, disk, disturbed, held>>

\* ... and what remains of its reasons decides, whatever its state is by now.
ResumeDecides ==
    LET t    == op.task
        left == record[t].reasons \ {op.kept[t]}
        queued == [record EXCEPT ![t].reasons = {}, ![t].state = "queued",
                                 ![t].result = FALSE, ![t].finished = FALSE]
    IN  /\ op.at = "resume"
        /\ IF left = {}
           THEN /\ record' = queued
                /\ op' = [op EXCEPT !.at = "resume_checkpoint", !.snap = queued]
                /\ Excuses(t)
           ELSE /\ record' = [record EXCEPT ![t].reasons = left]
                /\ op' = Idle
                /\ UNCHANGED <<disturbed, held>>
        /\ JobsFrame /\ OpFrame
        /\ UNCHANGED <<env, disk>>

KeptWritten(kept) ==
    [t \in Task |-> IF kept[t] = "none" THEN checkpoint[t] ELSE kept[t]]

\* The checkpoint is written back as it was read.
ResumeCheckpoint ==
    /\ op.at = "resume_checkpoint"
    /\ checkpoint' = KeptWritten(op.kept)
    /\ OpGoes("store_resume")
    /\ JobsFrame /\ OpFrame
    /\ UNCHANGED <<record, env, runFile, envFile, gone, disturbed, held>>

\* pause_task
Pause(t) ==
    /\ op = Idle
    /\ "pause" \in Commands
    /\ active[t] \in Job
    /\ jobs[active[t]].token = "running"
    /\ jobs' = [jobs EXCEPT ![active[t]].token = "paused"]
    /\ OpFrame
    /\ UNCHANGED <<record, env, active, op, disk, disturbed, held>>

\* cancel_task: the token, ...
Cancel(t) ==
    /\ op = Idle
    /\ "cancel" \in Commands
    /\ active[t] # NoJob
    /\ jobs' = IF active[t] \in Job
               THEN [jobs EXCEPT ![active[t]].token = "cancelled"]
               ELSE jobs
    /\ op' = [Idle EXCEPT !.at = "cancel", !.task = t]
    /\ OpFrame
    /\ UNCHANGED <<record, env, active, disk, disturbed, held>>

\* ... the record, whatever has become of the execution, ...
CancelMark ==
    /\ op.at = "cancel"
    /\ record' = [record EXCEPT ![op.task].state = "cancelled",
                                ![op.task].finished = TRUE]
    /\ OpGoes("cancel_cleanup")
    /\ JobsFrame /\ OpFrame
    /\ UNCHANGED <<env, disk, disturbed, held>>

\* ... the environment, in memory, on disk and in the run.
CancelCleanUp ==
    /\ op.at = "cancel_cleanup"
    /\ env' = [env EXCEPT ![op.task] = "free"]
    /\ OpGoes("cancel_store")
    /\ JobsFrame /\ OpFrame
    /\ UNCHANGED <<record, disk, disturbed, held>>

CancelStore ==
    /\ op.at = "cancel_store"
    /\ StoreEnvironment(op.task, "free")
    /\ op' = [op EXCEPT !.at = "store_cancel", !.snap = record]
    /\ JobsFrame /\ OpFrame
    /\ UNCHANGED <<record, runFile, checkpoint, gone, disturbed, held>>

\* acknowledge_blocked_task: nothing of the task changes, ...
Acknowledge(t) ==
    /\ op = Idle
    /\ "acknowledge" \in Commands
    /\ record[t].state = "blocked"
    /\ op' = [Idle EXCEPT !.at = "acknowledge", !.task = t, !.snap = record]
    /\ JobsFrame /\ OpFrame
    /\ UNCHANGED <<record, env, disk, disturbed, held>>

\* ... but its checkpoint, if there is one, is read, ...
AcknowledgeRead ==
    LET t == op.task
    IN  /\ op.at = "acknowledge"
        /\ op' = IF checkpoint[t] = "none"
                 THEN [op EXCEPT !.at = "store_acknowledged"]
                 ELSE [op EXCEPT !.at = "acknowledge_checkpoint",
                                 !.kept[t] = checkpoint[t]]
        /\ JobsFrame /\ OpFrame
        /\ UNCHANGED <<record, env, disk, disturbed, held>>

\* ... and written back with a note, whatever it is by now.
AcknowledgeWrite ==
    /\ op.at = "acknowledge_checkpoint"
    /\ checkpoint' = KeptWritten(op.kept)
    /\ OpGoes("store_acknowledged")
    /\ JobsFrame /\ OpFrame
    /\ UNCHANGED <<record, env, runFile, envFile, gone, disturbed, held>>

\* reconcile_orchestrator_state: what a restart does to what it has loaded,
\* done to live tasks.  The checkpoints are read first.
Reconcile ==
    /\ op = Idle
    /\ "reconcile" \in Commands
    /\ reconciles < MaxReconciles
    /\ Known(record) # {}
    /\ reconciles' = reconciles + 1
    /\ op' = [Idle EXCEPT !.at = "reconcile", !.kept = checkpoint]
    /\ JobsFrame
    /\ UNCHANGED <<crashes, sent>>
    /\ UNCHANGED <<record, env, disk, disturbed, held>>

\* What reconciliation has to write back.
ToWrite(run, envs, kept) ==
    [Idle EXCEPT !.snap = ReconciledRun(run, envs, kept),
                 !.envs = LeasesReleased(run, envs),
                 !.kept = [t \in Task |-> IF run[t].state = "running"
                                          THEN kept[t] ELSE "none"]]

ReconcileMarks ==
    /\ op.at = "reconcile"
    /\ op' = [ToWrite(record, env, op.kept) EXCEPT !.at = "store_reconciled"]
    /\ record' = op'.snap
    /\ env' = op'.envs
    /\ disturbed' = disturbed \cup {t \in Task : record'[t] # record[t]}
    /\ JobsFrame /\ OpFrame
    /\ UNCHANGED <<disk, held>>

\* The files of several tasks are written in one step.
StoreReconciled ==
    /\ op.at = "store_reconciled"
    /\ runFile' = op.snap
    /\ OpGoes("reconciled_envs")
    /\ JobsFrame /\ OpFrame
    /\ UNCHANGED <<record, env, envFile, checkpoint, gone, disturbed, held>>

ReconciledEnvs ==
    /\ op.at = "reconciled_envs"
    /\ envFile' = op.envs
    /\ env' = op.envs
    /\ OpGoes("reconciled_checkpoints")
    /\ JobsFrame /\ OpFrame
    /\ UNCHANGED <<record, runFile, checkpoint, gone, disturbed, held>>

ReconciledCheckpoints ==
    /\ op.at = "reconciled_checkpoints"
    /\ checkpoint' = KeptWritten(op.kept)
    /\ op' = Idle
    /\ JobsFrame /\ OpFrame
    /\ UNCHANGED <<record, env, runFile, envFile, gone, disturbed, held>>

CommandBegins(t) ==
    \/ Delegate(t) \/ Retry(t) \/ Restart(t) \/ Resume(t) \/ Pause(t)
    \/ Cancel(t) \/ Acknowledge(t)

CommandGoesOn ==
    \/ StoreAndStart("store_delegate") \/ StoreAndStart("store_retry")
    \/ StoreAndStart("store_resume")
    \/ Store("store_cancel") \/ Store("store_acknowledged")
    \/ Prepare \/ PrepareFails \/ RestartRetries \/ RestartRefused
    \/ ResumeDecides \/ ResumeCheckpoint
    \/ CancelMark \/ CancelCleanUp \/ CancelStore
    \/ AcknowledgeRead \/ AcknowledgeWrite
    \/ Reconcile \/ ReconcileMarks \/ StoreReconciled \/ ReconciledEnvs
    \/ ReconciledCheckpoints

-----------------------------------------------------------------------------
(* Crashes, and what new_with_workspace_root does before anything else *)

RunStores == {"store_start", "store_progress", "store_env", "store_result",
              "store_handoff", "store_delegate", "store_retry", "store_resume",
              "store_cancel", "store_acknowledged", "store_reconciled",
              "boot_runs", "boot_resumed"}
EnvironmentStores == {"store_lease", "store_cleanup", "cancel_store",
                      "prepare", "reconciled_envs", "boot_envs"}
CheckpointStores == {"checkpoint", "run", "terminal", "resume_checkpoint",
                     "acknowledge_checkpoint", "reconciled_checkpoints",
                     "boot_checkpoints", "boot_resumed_checkpoints"}

Writing(stores) == op.at \in stores \/ \E j \in Job : jobs[j].at \in stores

\* Tasks a file of which is written by a step that comes next.
WritingFor(stores, batch) ==
    {jobs[j].task : j \in {i \in Job : jobs[i].at \in stores}} \cup
    (IF op.at \notin stores THEN {}
     ELSE IF op.task = NoTask THEN {t \in Task : batch[t] # "none"}
                              ELSE {op.task})

\* fs::write truncates the file: a file cut short does not parse, and loading
\* skips it.
Torn ==
    \/ UNCHANGED disk
    \/ /\ TornWrites
       /\ \/ /\ Writing(RunStores)
             /\ runFile' = NoSnapshot
             /\ UNCHANGED <<envFile, checkpoint>>
          \/ \E t \in WritingFor(EnvironmentStores, op.envs) :
                /\ envFile' = [envFile EXCEPT ![t] = "none"]
                /\ UNCHANGED <<runFile, checkpoint>>
          \/ \E t \in WritingFor(CheckpointStores, op.kept) :
                /\ checkpoint' = [checkpoint EXCEPT ![t] = "none"]
                /\ UNCHANGED <<runFile, envFile>>
       /\ UNCHANGED gone

Crash ==
    /\ crashes < MaxCrashes
    /\ crashes' = crashes + 1
    /\ record' = NoSnapshot
    /\ env' = NoEnvironments
    /\ active' = [t \in Task |-> NoJob]
    /\ jobs' = [j \in Job |-> Free]
    /\ op' = [Idle EXCEPT !.at = "down"]
    /\ Torn
    /\ UNCHANGED <<reconciles, history>>

BootFrame == JobsFrame /\ OpFrame /\ UNCHANGED <<gone, disturbed>>

\* load_persisted_*, then reconcile_persisted_state_sync in memory.
Load ==
    /\ op.at = "down"
    /\ op' = [ToWrite(runFile, envFile, checkpoint) EXCEPT !.at = "boot_runs"]
    /\ record' = op'.snap
    /\ env' = op'.envs
    /\ held' = held \cup {t \in Task : /\ runFile[t].state = "running"
                                       /\ checkpoint[t] = "gated"}
    /\ BootFrame
    /\ UNCHANGED <<runFile, envFile, checkpoint>>

BootRuns ==
    /\ op.at = "boot_runs"
    /\ runFile' = op.snap
    /\ OpGoes("boot_envs")
    /\ BootFrame
    /\ UNCHANGED <<record, env, envFile, checkpoint, held>>

BootEnvs ==
    /\ op.at = "boot_envs"
    /\ envFile' = op.envs
    /\ OpGoes("boot_checkpoints")
    /\ BootFrame
    /\ UNCHANGED <<record, env, runFile, checkpoint, held>>

BootCheckpoints ==
    /\ op.at = "boot_checkpoints"
    /\ checkpoint' = KeptWritten(op.kept)
    /\ OpGoes("boot_resume")
    /\ BootFrame
    /\ UNCHANGED <<record, env, runFile, envFile, held>>

\* prepare_resumable_tasks_from_checkpoints_sync: only its own reason goes.
BootResume ==
    LET ready == {t \in Task : /\ record[t].state = "blocked"
                               /\ Resumable(checkpoint[t])}
        run   == [t \in Task |->
                    IF t \in ready
                    THEN [record[t] EXCEPT !.state = "queued",
                                           !.reasons = @ \ {checkpoint[t]}]
                    ELSE record[t]]
    IN  /\ op.at = "boot_resume"
        /\ record' = run
        /\ op' = [Idle EXCEPT !.at = "boot_resumed", !.snap = run,
                              !.ready = ready,
                              !.kept = [t \in Task |-> IF t \in ready
                                                       THEN checkpoint[t]
                                                       ELSE "none"]]
        /\ BootFrame
        /\ UNCHANGED <<env, runFile, envFile, checkpoint, held>>

BootResumed ==
    /\ op.at = "boot_resumed"
    /\ runFile' = op.snap
    /\ OpGoes("boot_resumed_checkpoints")
    /\ BootFrame
    /\ UNCHANGED <<record, env, envFile, checkpoint, held>>

\* The checkpoints of the resumed tasks are written back as they were read.
BootResumedCheckpoints ==
    /\ op.at = "boot_resumed_checkpoints"
    /\ checkpoint' = KeptWritten(op.kept)
    /\ op' = [Idle EXCEPT !.at = "boot_schedule", !.ready = op.ready]
    /\ BootFrame
    /\ UNCHANGED <<record, env, runFile, envFile, held>>

\* A task that was queued is not started: it stays queued.
BootSchedule ==
    /\ op.at = "boot_schedule"
    /\ IF op.ready = {}
       THEN op' = Idle /\ UNCHANGED jobs
       ELSE \E t \in op.ready :
                /\ Started(t)
                /\ op' = [op EXCEPT !.ready = @ \ {t}]
    /\ OpFrame
    /\ UNCHANGED <<record, env, active, disk, disturbed, held>>

Restarts == \/ Load \/ BootRuns \/ BootEnvs \/ BootCheckpoints \/ BootResume
            \/ BootResumed \/ BootResumedCheckpoints \/ BootSchedule

Next == \/ \E j \in Job : JobStep(j)
        \/ \E t \in Task : CommandBegins(t)
        \/ CommandGoesOn
        \/ Crash
        \/ Restarts

Spec == Init /\ [][Next]_vars

-----------------------------------------------------------------------------
(* Properties *)

\* Starts, executions, completions and commands are about tasks of the run as
\* it is in memory: a new task is in the run before anything starts it, and a
\* restart resumes none that is not.
TasksAreKnown ==
    /\ \A j \in Job : jobs[j].at # "free" => jobs[j].task \in Known(record)
    /\ \A j \in Job : jobs[j].ready \subseteq Known(record)
    /\ op.at \in OfTask => op.task \in Known(record)
    /\ op.ready \subseteq Known(record)
    /\ \A t \in Task : active[t] # NoJob => t \in Known(record)

\* The types, and that the work under way is that of known tasks.
TypeOK == Typed /\ TasksAreKnown

\* A task that is running in memory has an execution, whatever was on disk
\* when the process started: reconciliation leaves no task running that nobody
\* runs, which would never end (complete_task_execution).
RunningIsBacked ==
    \A t \in Task : record[t].state = "running" =>
        \E j \in Job : jobs[j].at \in Executing /\ jobs[j].task = t

\* An environment leased to a task of the run belongs to a start, an execution
\* or a completion of that task, or a command about it is under way: no lease
\* outlives a crash, whichever of the files was written last or is torn
\* (reconcile_environment_record).  Not claimed of a task that was started again
\* or reconciled while it was live, whose executions may be two.
LeaseIsHeld ==
    \A t \in Known(record) \ disturbed : env[t] = "leased" =>
        \/ op.task = t
        \/ \E j \in Job :
            /\ jobs[j].at \in {"store_lease", "launch", "cleanup"} \cup Executing
            /\ jobs[j].task = t

\* A restart does not start a task again that it, or an earlier one, found
\* before a tool that must not be replayed unasked
\* (prepare_resumable_tasks_from_checkpoints_sync).
GatedIsHeld == op.ready \cap held = {}

\* A restart does not start a task again whose result is out, a crash at any
\* point of its completion and lost or older files included, unless somebody
\* has started it again, or reconciled it while it was live, before
\* (delegated_terminal_checkpoint).
PublishedStaysEnded ==
    \A t \in op.ready \ disturbed : record[t].attempts \notin sent[t]

\* Not so in the code: docs/AGENT_LOOP_MATURITY_PHASE9.md has no delegated
\* result published twice after a restart.  A completed task whose clean
\* environment was removed is blocked by the restart, the completion of
\* another task of the run starts it again, and it publishes its second result
\* for the same attempt (republished.cfg).
SentOnce ==
    \A j \in Job : jobs[j].at = "send" /\ jobs[j].outcome # "paused" =>
        jobs[j].attempt \notin sent[jobs[j].task]
=============================================================================
