# Gestura: TLA+ models of an agent's delegated work

Gestura is a desktop assistant written in Rust. A user's request runs an agent
loop that calls tools and shells; a supervisor delegates tasks to agents, local
and remote, and follows each one through approvals, an environment of its own,
an execution, a review and a test gate, retries and restarts. Every handler is
`async`: it takes a lock for a few statements, releases it, and awaits disk
writes, messages and other handlers before it takes the lock again. What can go
wrong goes wrong between those blocks, and that is what these models are about.

Paths are relative to the repository root unless they name a module;
`orchestrator.rs` is `crates/gestura-core/src/orchestrator.rs`.

    Approval.tla             the approval gate of a task
    Orchestrator.tla         the task lifecycle, one action per lock block
    GatedResult.tla          what the lifecycle promises about results (abstract)
    Recovery.tla             the lifecycle with its files, crashes and restarts
    SupervisorHierarchy.tla  child runs and their roll-up into the parent
    ToolConfirmation.tla     confirmations of tool calls and what is remembered
    AgentStream.tla          streamed answers, interruption, resumption
    TaskManager.tla          a session's task list, cached and on disk
    A2A.tla                  tasks delegated to another agent over A2A
    ShellSessions.tla        the pool of persistent shells
    MC<M>.tla                instances of module M for TLC
    <M>Proofs.tla            theorems about module M, for all constants
    *.cfg                    one TLC run each
    PROJECT.json             components, runs, mutants, source map, findings, hazards

To repeat a check: `tlc -workers 2 -config gates.cfg MCOrchestrator` (the module
of each run is in `PROJECT.json`), and `tlapm OrchestratorProofs.tla` for the
proofs. The longest run takes about three minutes.

## 1. Inventory

### The supervisor

| Part | State | Operations | Correct when | Here |
| --- | --- | --- | --- | --- |
| Task lifecycle, `orchestrator.rs` | `supervisor_runs` (a record per task: state, attempts, approval, blocked reasons, result), `active_tasks` (the control and the cancellation token of each execution), the result channel | `delegate_task`, `approve_task`, `reject_task`, `retry_task`, `cancel_task`, `pause_task`, `start_task_execution`, `complete_task_execution`, `schedule_task_execution`, `poll_result`, `sync_remote_task_snapshot`, `claim_task`, `acknowledge_blocked_task`, resume and restart | no gate is skipped; a task runs after its dependencies; one execution per attempt; what is shown as running runs and can be cancelled; whatever is queued starts; who waits only for dependencies wakes | `Orchestrator`, `GatedResult` |
| Approval gates, `orchestrator/approval.rs` | `TaskApprovalRecord`: state, active request, lists of requests and decisions | `request`, `record_decision`, `reset_for_task`, `ApprovalPolicy::for_task` | a state that waits for a decision has the request for it; a decision counts for the result it was made on | `Approval` |
| Environments, `orchestrator/environment.rs` | `environments`: a record per task with its state and lease, mirrored on disk | prepare, acquire, release, finalize, retry, clean up, reconcile | an execution keeps its environment; every lease has an owner and is given back; disk and memory agree | `Orchestrator`, `Recovery` |
| Collaboration, `orchestrator/collaboration.rs` | `team_messages`: messages, threads, action requests, escalations | send, reply, resolve, archive | a blocker keeps its task from running until it is resolved | its effect on tasks, in `Orchestrator` |
| Recovery, `orchestrator/recovery.rs`, `persistence.rs` | run, environment and checkpoint files | write, load, reconcile after a restart or on demand, resume from a checkpoint | a restart loses no lease, repeats no result and replays no gated step by itself | `Recovery` |
| Run hierarchy, `orchestrator.rs` | `parent_run` and `child_runs` of each run, the run files | `create_child_supervisor_run`, `persist_run_with_hierarchy_sync`, `sync_parent_run_from_child`, ancestry and snapshot queries | the parent's summary is that of its children; ancestries end; a child has no children | `SupervisorHierarchy` |

### Around it

| Part | State | Operations | Hard because | Here |
| --- | --- | --- | --- | --- |
| Streaming, `gestura-gui/src/api.rs`, `gestura-core-streaming` | `CancellationToken` disposition, `StreamCancellationRegistry`, the channel of chunks, the paused execution of a session | send a message, resume, pause, cancel, forward, save | a stream is replaced under its key while another handler removes it | `AgentStream` |
| Tool confirmation, `gestura-core-tools/src/tool_confirmation.rs` | pending confirmations, tools allowed or blocked per session | `register`, `resolve`, `abandon` | an answer races with a time-out; a remembered decision is applied lock by lock | `ToolConfirmation` |
| Shell sessions, `gestura-core/src/tools/shell_sessions.rs` | a pool of persistent shells, the active process of each | create, execute, send input, stop, shut down, claim | the deadline and the stall limit race with output still on its way | `ShellSessions` |
| Task manager, `gestura-core-tasks` | a task list per session, on disk and cached | create, update with roll-up, dependencies, finalization | roll-up and cancellation over several calls; lists read earlier and written back | `TaskManager` |
| A2A server and worker, `gestura-core-a2a`, `gestura-gui/src/a2a_runtime.rs` | remote tasks, idempotency keys, leases, the worker's progress | create, status, heartbeat, cancel, retry, work | lost requests and replies, creates handled at once, updates that arrive late | `A2A` |
| Agent loop, `gestura-core/src/pipeline` | messages, flags, counters, tracked tasks | turn, continue, finish | limits, repeated calls, verification before the end | its boundaries and tool calls, in `AgentStream`; the rest planned |
| Tool permissions, `permissions.rs`, `policy.rs` | grants and an audit log | grant, revoke, check | scope and expiry of a grant at the moment it is used | left out |
| MCP, `gestura-core-mcp` | `SessionManager` state, registry of servers | initialize, initialized, ping, shutdown, reconnect | calls before and after the state that allows them | planned |
| Retry, NATS, IPC, session store, checkpoints, config watcher | counters, connections, files | see `PROJECT.json` | back-off and reconnect | planned last |

Every other crate is listed in `PROJECT.json` under `components` with the reason
it is left out: user interfaces, device drivers, HTTP clients of language
models, text heuristics and support libraries.

### Interactions

An operator surface (GUI or CLI) calls a command of the orchestrator. The
command takes the write lock of `supervisor_runs`, changes the record, drops the
lock, and awaits: the environment manager (preparation, lease, clean-up), the
files, the team messages. `start_task_execution` ends in `tokio::spawn`; the
spawned task runs the agent loop, or polls a remote peer (`A2A`), and calls
`complete_task_execution`, which records the result, collects and queues the
tasks that have become ready in the same block, then cleans the environment,
posts a hand-off message, sends the result into a channel of 100 places, and only
then starts the tasks it queued.

A message of the user calls a streaming command of the desktop application. It
registers a cancellation token, spawns the pipeline, and forwards the chunks the
pipeline sends; the pipeline runs the agent loop, whose tool calls ask for
confirmation (`ToolConfirmation`), run commands in pooled shells
(`ShellSessions`) and update the session's task list (`TaskManager`).

The hazards all this makes, each at its line, are under `hazards` in
`PROJECT.json`.

## 2. What is modelled

A handler in flight is a record whose field `at` names the block it runs next;
one action is one block under a lock, or one effect between two awaits. `map` in
`PROJECT.json` gives the source lines of every definition; the tables below are
the short form. Texts, paths, ids and output are not in the models: only whether
there is a result, an environment, a checkpoint, and of which kind.

### `Approval`, `Orchestrator`: the lifecycle

| Definition | Code |
| --- | --- |
| `Gate`, `Requested`, `Decided`, `MayDecide`, `AllowedDeciders` | `TaskApprovalRecord`, `request`, `record_decision`, `authorize`, `ApprovalPolicy::for_task` |
| `Delegate` | `delegate_task`: prepare the environment, insert the record, start |
| `Approve`, `Reject` | `approve_task`, `reject_task`; then `CallCleanUp`, `CallStore` for the environment |
| `Retry`, `RetryPrepare`, `RetryFinish` | the three blocks of `retry_task` |
| `CancelRequest`, `CancelRemove`, `CancelMark`, `CallCleanUp`, `CallStore` | `cancel_task`: the signal, or the removal of the control of a remote task, then the record, the environment and its file |
| `Pause` | `pause_task` |
| `AcquireLease`, `StoreLease`, `Launch`, `Spawn` | `start_task_execution` |
| `RemoteBlocked` | `sync_remote_task_snapshot`, called by `execute_remote_task` |
| `Ignore`, `Complete`, `CleanUp`, `StoreCleanUp`, `PublishHandoff`, `SendResult`, `Schedule` | `complete_task_execution` |
| `PostBlocker`, `ResolveBlocker` | `send_team_message_draft`, `resolve_team_thread_action_request` where they change a task |
| `Abort`, `AbortCall` | the `?` after a write that fails |
| `PollResult` | `poll_result`, which nothing in the repository calls: it may happen or not |

| Variable | Code |
| --- | --- |
| `tasks[t]` | the `TaskRecord` of `t` in its run; `undelegated` before it exists |
| `active[t]` | the entry of `active_tasks`: the execution whose token it holds, and its attempt |
| `envs[t]` | the `EnvironmentRecord` in memory: its state and whether a lease is open |
| `execs[e]` | one start, its spawned execution and its completion |
| `calls[c]` | the operator command client `c` has in flight |
| `results` | results waiting in the channel |
| `granted`, `succeeded` | history: gates approved for the task's present result; tasks completed so far |

### `GatedResult`: what the lifecycle promises

A task is absent, open, at its review, at its tests, complete or ended, and
carries the approvals given to its present result. `Orchestrator` implements it
under `stage[t]` = the group the state of `t` belongs to and `approved` =
`granted` (`Abstract` in `Orchestrator.tla`). The two things the abstract task
must not do are to be complete without its approvals and to be delivered a
second result while the first is at a gate or accepted. The second is where the
handlers matter: executions, cancelled and superseded ones included, all end in
`complete_task_execution`.

### `Recovery`: the lifecycle with its files

Local tasks of one run without gates; `Orchestrator` has the gates and no files.

| Definition | Code |
| --- | --- |
| `Delegate`, `Retry`, `Requeue`, `Prepare`, `Pause`, `Cancel*`, `Acknowledge`, `Restart*` | the operator's commands, each with its writes (`AcknowledgeRead` and `AcknowledgeWrite` are the checkpoint that `acknowledge_blocked_task` reads and writes back) |
| `AcquireLease`, `StoreLease`, `Launch`, `StoreRun`, `StartCheckpoint` | `start_task_execution`, up to the checkpoint the execution starts with |
| `BeforeTool`, `AfterTool`, `PauseSeen`, `WriteCheckpoint`, `Progress` | the checkpoints of the agent loop in a delegated task |
| `Ignore`, `Complete`, `CleanUp`, `StoreEnvInRun`, `HandOff`, `TerminalCheckpoint`, `SendResult`, `Schedule` | `complete_task_execution`, write by write |
| `Resume`, `ResumeDecides`, `ResumeCheckpoint` | `resume_task_from_checkpoint` |
| `BootRuns`, `BootEnvs`, `BootCheckpoints`, `BootResume`, `BootResumed`, `BootResumedCheckpoints`, `BootSchedule` | `load_persisted_state`, `reconcile_orchestrator_state` and the automatic resumption at start |
| `Reconcile`, `ReconcileMarks`, `StoreReconciled` | the same reconciliation while tasks run |
| `Crash` | the end of the process at any step; with `TornWrites`, in the middle of a write |

`runFile`, `envFile[t]` and `checkpoint[t]` are the files; `gone` the working
directories that have been removed; `jobs[j]` and `op` the handlers with the
snapshot each of them is about to write. `active[t] = EndedJob` is the entry of
`active_tasks` that a superseded execution leaves behind: a stale result does not
remove it. `sent`, `disturbed` and `held` are history (`disturbed`: the tasks that
somebody has started again, or that were reconciled while they were live);
delegating a task of which no file is left begins a new one.

### `SupervisorHierarchy`: runs with child runs

What moves a task is left to `Orchestrator`: here any handler may give a task
any state of `Moves`. What is detailed is what every handler does next.

| Definition | Code |
| --- | --- |
| `Delegate`, `Change` | the lock block of `delegate_task`, and of any other handler, tasks queued by `collect_ready_tasks` included |
| `Write`, `Sync`, `WriteParent`, `WriteFails` | `persist_run_with_hierarchy_sync`: write the copy, roll up under the lock, write the parent |
| `CheckId`, `CheckParent`, `Insert`, `WriteChild` | `create_child_supervisor_run`: two queries without the lock, then the block that inserts, then the files |
| `Reconcile`, `WriteReconciled`, `Restart`, `Recovered` | reconciliation on demand and at start, resumption from checkpoints |
| `StatusOf`, `SummaryOf`, `RolledUp`, `Accepts`, `Viewed`, `Seen` | `recalculate_run_status`, `build_child_run_summary`, `upsert_child_run_summary`, `ensure_parent_run_accepts_child`, `synchronize_run_hierarchy_snapshots`, `get_supervisor_run` |

`run` is `supervisor_runs`, `file` the run files, `handler[h].todo` the copies a
handler is about to write. The stored status of a run is computed anew by every
block that changes it, so the model computes it where it is read. `behind` is
history: the runs that changed and whose handler ended before the roll-up. A
caller may ask for a run as its own parent (`Requests`), where it chooses the id.

### `ToolConfirmation`, `AgentStream`: a streamed answer

`AgentStream` extends `ToolConfirmation` and gives its steps to the pipelines
and to the window. A stream is two concurrent activities, the command that
forwards chunks (`at`) and the pipeline (`pipe`), which share a token and a
channel.

| Definition | Code |
| --- | --- |
| `Register`, `Resolve`, `ResolveElsewhere`, `Abandon`, `ApplyFirst`, `ApplySecond` | `ToolConfirmationManager`, one step per lock |
| `Send`, `Supersede`, `Spawn`, `Open` | `process_agent_message_streaming` |
| `ResumeRead`, `ResumeClear`, `ResumeSpawn` | `resume_agent_streaming` |
| `Forward*`, `Tell`, `Idle`, `EndsUnexpectedly`, `Close`, `Cleanup` | the forwarding loop, its idle time-out and what follows it |
| `CancelStream`, `PauseStream`, `Decide` | the commands of the window |
| `Boundary`, `SendInterruption`, `ProviderInterrupted`, `ProviderFails`, `Reflect` | where the agent loop looks at the token, and how it ends |
| `Panics` | the spawned pipeline panics in a provider or a tool: its end of the channel is dropped |
| `Policy`, `Recheck`, `Ask`, `Answered`, `TimedOut`, `InterruptSeen`, `Apply`, `Override`, `ToolEnds` | a tool call that needs a confirmation |
| `OpenTask`, `CancelTask`, `MarkInProgress` | the task a request tracks |

`registered` is the key of the window in `STREAM_CANCELLATIONS`, `saved` the
session's `paused_execution`, `told` the endings a window has been told. A stream
whose channel closes without an ending is `silent` until the command has joined the
pipeline: the window is told an error, and another one if the join finds that the
pipeline panicked (`Close`).

### `TaskManager`: a session's task list

`disk` is the file, `cache` the list the manager keeps, `call[c]` the copy a
caller works on. A mutation loads the list or takes the cached one (`Load`,
`Fill`; `LoadFails` where the text does not parse), changes the copy (`Mutated`, with `SetStatus` for the roll-up to
parents, `Reconciled`, `CanComplete`, `ClosesCycle`), writes it (`Truncate`,
`Save`, `SaveFails`) and publishes it (`Publish`): five blocks, and no lock spans two
of them. `fs::write` empties the file before it writes, so `file` is `whole`, `empty`
or `torn`: a save that fails, a restart in between, or two saves at a time leave one of
the latter two. `Calls` lists the sequences of mutations that the callers in the
repository make; those that begin with a look at the list (`Queries`) go on as
`Expanded` says, over the open descendants in any depth-first order (`Orders`:
siblings follow a sort order that is left out). `Checkpoint` saves and restores a list,
`Restart`, possible at any step, forgets the cache and the calls.

### `A2A`: a task on another agent

`client[c]` is `execute_remote_task`, `handler[c]` its `task/create` on the
server, which checks the idempotency key, inserts the task, indexes the key and
emits the event in four blocks; `worker[t]` is `process_task`. `CreateLost` and
`PollLost` lose the request or the reply. `Reconciled` is the lease test that a
`task/status` applies; `Heartbeat`, `Cancel` and `Retry` are requests of others. The
server stores whatever status a heartbeat reports and adds the output it brings;
`claimed` is history: the tasks that one reported completed before they had any.

### `ShellSessions`: the pool of shells

`run[r]` is a command: it acquires a shell (`Acquire`, `Spawn`, `Offer`, `Mark`),
waits for the command lock (`Enter`), becomes the active process (`Start`,
`Register`), writes its script and waits for the marker, the end of the channel
or its time-out (`SeesMarker`, `SeesEnd`, `TimesOut`, `Finish`). `call[w]` is a
`stop` or a `shutdown`. Each of the three callers of `terminate` does it in the two
blocks of the code: the shell is closed and its output channel dropped
(`BeginTerminate`), then, with the lock of the writer, its process is killed (`Kill`) or
cannot be (`KillFails`), which ends the caller with its error: `Expires` and `Expired`,
`Escalate` and `Escalated`, `Halt`, `Halting` and `Halted`. The build modelled is the
one for Unix. The reader thread and the child monitor are `ReaderEnds`
and `MonitorSees`; what commands and users do to the shell is `CommandEnds`,
`CommandBreaks`, `Exits` and `Claim`.

### Bounds

| Module | Instance | Why it is enough |
| --- | --- | --- |
| `Orchestrator` | 1 to 3 tasks: one alone with all gates, a chain of two, a join of three; 1 or 2 operators with one command each; 3 or 4 slots `Exec`; at most 1 retry; a channel of 1 (100 in the code) | a step reads other tasks only through the dependency relation, and the join is the smallest in which two completions race for one dependent; a task needs 2 slots for the completion of an old attempt beside the execution of the next, 3 for two starts and a completion; one retry supersedes an attempt (the second, which lets two starts be under way, is in `double_start.cfg` and `approval_bypass.cfg`, where it refutes what it can) |
| `Recovery` | `recovery`: 1 task, every command, 1 crash, 1 live reconciliation; `siblings`: 2 tasks, no command, 2 crashes; torn writes in both | one task meets every order of its own writes; two tasks are needed for one run file with two writers, and the second crash may come while the first is being recovered from |
| `SupervisorHierarchy` | a parent, a child, two runs with ids that callers choose and ask for as each other's child; 3 handlers at a time, 4 in all; 1 crash; the states that tell roll-ups apart | two handlers of a child and one that creates overlap; a circle needs two runs that are each other's child, or one that is its own, which only chosen ids allow; the instance asks for both |
| `AgentStream` | 2 streams, one of them with a task, a channel of 1, decisions `allow_always` and `deny_session` | one stream supersedes, resumes or outlives the other; the two decisions are the ones that touch both maps |
| `TaskManager` | 3 tasks (a root, its child, a child of that), 2 callers, 2 calls; a failing or torn save at any of them | a circle needs two dependencies, a lost update two callers; with two ancestors the second round of a roll-up works on what the first has changed |
| `A2A` | 2 clients, 2 tasks, one key, both leased, 1 request of others | two creates race for one key; the key may end up naming either task |
| `ShellSessions` | 2 shells, one of the agent and one that the user opens, 2 commands, one of which keeps printing (`Chatty`), 1 caller of the window, 2 events from outside (a shell that the user opens or claims, a stop, a shutdown, an exit) | two commands compete for one shell and a stop meant for one can reach the other; a shutdown that fails on one shell has the other still to do |

A start, an execution and a completion wait for a free slot, which the code does
not. `Interchangeable` and `Callers` (symmetry) are used only in runs of `Spec`
that check invariants and action properties. Deadlock is not checked: where
everything is completed or lost, nothing is left to do.

### Fairness

| Specification | Weak fairness of | Because |
| --- | --- | --- |
| `Orchestrator!FairSpec` | the steps of executions, those of a command after its first block | they are futures that tokio polls until they are done. That an execution ends is an assumption: local ones have limits, a remote one polls its peer every two seconds until that reports an end or cannot be reached. Nothing is assumed of `PollResult`: `QueuedTaskRuns` says that a queued task runs unless the channel stays full for ever |
| `AgentStream!FairSpec` | every pipeline, every forwarding command | spawned tasks; a provider call and a confirmation have time-outs. `ToolEnds` assumes that every tool returns. `Panics` is owed by nobody |
| `A2A!FairSpec` | the server's handlers, the client's return and poll, the worker, the expiry of a lease | threads and timers; the worker's plan is finite |
| `ShellSessions!FairSpec` | each command run, its interrupt, a call of the window under way; the time-out of a run that is not `Chatty` | spawned tasks and timers. With `allow_long_running` the time-out does not fire while output arrives, so a run of `Chatty` may go on for ever, and `CommandReturns` claims nothing of it; `StoppedCommandReturns` says that a stop ends it, unless its shell has exited by itself and its output is still held open |

Nothing else is owed: operators, users, peers, other clients and the commands
run in a shell may never act. In particular a command in a shell need not end.
`TaskManager`, `Recovery` and `SupervisorHierarchy` have no liveness property,
hence no fairness.

## 3. What the runs show

| Run | Instance | Shows |
| --- | --- | --- |
| `gates` | a remote task with all three gates, every command, a retry, blocked by its peer and by a blocker thread, failing environments and writes | `GatesBeforeCompletion`: no sequence of results, decisions, cancellations and retries completes a task with an approval given to an older result; `GatedTaskIsDecidable`; `ImplementsGatedResult` |
| `executions` | a chain of two local tasks, cancelled, paused and retried | `RunningIsCancellable`: a late completion never takes the control of the next attempt; `DependenciesFirst`; `QueuedIsBeingStarted` |
| `once` | a join of three with a gate and an isolated environment, two operators, no retry | `ApprovedBeforeExecution`, `OneExecutionPerAttempt`, `LeaseHasOwner` |
| `progress` | a join of three with a gate, a review and a channel of one place that nobody owes a poll | `LeaseIsReleased`, `ReadyTaskWakes`; `QueuedTaskRuns`: what is queued runs, unless the channel stays full for ever |
| `recovery` | one task, a crash anywhere | `LeaseIsHeld`: a lease belongs to somebody who will release it; `GatedIsHeld`: a task found before a gated or unrepeatable step is not started again by the restart |
| `siblings` | two tasks of one run file, two crashes | `RunningIsBacked`; `PublishedStaysEnded`: a restart does not start a task whose result is out |
| `streams` | two streams of one window, pipelines that fail and panic | `PendingHasWaiter`, `PolicyIsConsistent`; `EndingStands`: a window that is told more than one ending is told errors only; every interruption arrives (`InterruptedStreamEnds`) |
| `tasks` | two callers that hold lists read earlier, a file that may be left empty or torn | `DependenciesAcyclic`, `CompletionIsEarned` (a task is completed only with its children closed and its dependencies met), `ReopeningPropagates` |
| `a2a` | lost requests and replies, expiring leases, heartbeats | `SuccessHasOutput` (unless a heartbeat completed the task first), `ReplayIsSafe`, `ExecutionReturns` |
| `shell` | two commands, two shells, stops and shutdowns that fail | `ShellWorksOnActive`: an open shell works on its active command only; `IdleShellIsFree`; `LiveShellIsKnown`: no open shell is forgotten but by a call that is to terminate it; `CommandReturns`, `StoppedCommandReturns` |
| `hierarchy` | a parent, a child and two runs with chosen ids, failing and torn writes, a crash | `RollUpAgrees`: the parent shows what its child is, unless a handler still has to say so or failed; `CirclesAreAskedFor`: parents form no circle but that of a run named as its own |
| `republished` | two tasks, one crash | a finding: see below |

Each of these but the last also checks the type invariant of its module where
one is named in `PROJECT.json`. Each property has a mutant there: a plausible
wrong version of one definition (a variant in the module, used by nothing else)
under which TLC finds the property violated in the run's own configuration.

### Where the code disagrees

`republished` is the finding of `PROJECT.json`. A task completes, its clean
environment is removed by its own clean-up, its result is sent. After a restart
`reconcile_environment_record` (`recovery.rs:534`) finds the directory missing
and marks the task blocked whatever its state is; the completion of its sibling
collects every blocked task whose dependencies are met (`orchestrator.rs:7093`)
and starts it again in the same attempt. `docs/AGENT_LOOP_MATURITY_PHASE9.md:97`
says a result is never published twice after a restart.

Twenty-three more properties, which are not properties of a run, each say something
one would expect of the code that is not so, and TLC reports the shortest behaviour
that violates it. Most have a configuration of their own; where the table names a
property next to the configuration of a run, the instance is that of the run, with
this property in place of its own (an `INVARIANT`, but `QueuedTaskAlwaysRuns` and
`RetriedIsWorked` are a `PROPERTY` under `FairSpec`).

| Configuration | Module | What happens |
| --- | --- | --- |
| `double_start.cfg` | `MCOrchestrator` | An attempt fails and is retried; the hand-off of the failed result is posted as a blocker on the record as it is by then (`orchestrator.rs:3895`), so the queued task becomes blocked and can be retried again; both starts launch the newest attempt |
| `double_pause.cfg` | `MCOrchestrator` | A task is paused once; the completion of another starts it again, the hand-off of the paused result then blocks it while that start is under way (`orchestrator.rs:3895`), and the completion of a third starts it once more: two executions of one attempt |
| `approval_bypass.cfg` | `MCOrchestrator` | The same way a start under way launches an attempt whose approval is pending |
| `lost_environment.cfg` | `MCOrchestrator` | The clean-up of a failed attempt archives the environment in which the retried attempt runs (`:3857`) |
| `leaked_lease.cfg` | `MCOrchestrator` | A remote task restarts itself after a blocked report; the next report is dropped as a duplicate before the lease is released (`:3744`) |
| `review_starves.cfg` | `MCOrchestrator` | A task completed by the approval of its review does not wake the tasks that wait for it (`:2230`) |
| `sibling_unblocks.cfg` | `MCOrchestrator` | The completion of a sibling queues a task with an open blocker thread (`:7093`) |
| `gated_unblock.cfg` | `MCOrchestrator` | Resolving a blocker thread queues a task whose approval is pending; nothing starts it, and it can no longer be approved (`:4364`) |
| `progress.cfg`, with `QueuedTaskAlwaysRuns` | `MCOrchestrator` | The result channel is full and nobody polls it: a completion waits in it for ever, and the tasks it queued do not start (`:3923`) |
| `lost_update.cfg` | `MCTaskManager` | Two callers change copies of one list; the second save undoes the first (`tasks.rs:1344`) |
| `unreadable.cfg` | `MCTaskManager` | A save that is interrupted leaves an empty file, which no later start of the program can load (`tasks.rs:1317`) |
| `a2a.cfg`, with `RetriedIsWorked` | `MCA2A` | A remote task that is retried is pending for ever: the worker hears only of creations (`a2a_runtime.rs:542`) |
| `a2a.cfg`, with `OneTaskPerKey` | `MCA2A` | Two creates with one key both find the index empty and both insert a task (`server.rs:486`) |
| `a2a.cfg`, with `EverySuccessHasOutput` | `MCA2A` | A heartbeat reports a task completed that has no output; the execution that polls it succeeds without any (`server.rs:834`) |
| `wrong_stop.cfg` | `ShellSessions` | A stop looked up for one command interrupts the next one in the shell (`shell_sessions.rs:1344`) |
| `shell.cfg`, with `NoShellLeftBehind` | `ShellSessions` | A shutdown fails to kill one shell and returns; the others, which the manager has forgotten, stay alive (`shell_sessions.rs:331`) |
| `streams.cfg`, with `OneTerminalEvent` | `AgentStream` | A pipeline panics: the window is told that the stream ended unexpectedly and, when the task is joined, that it failed (`api.rs:4952`) |
| `streams.cfg`, with `RunningIsInterruptible` | `AgentStream` | The clean-up of a superseded stream removes the registration of its successor, which can then be neither cancelled nor paused (`api.rs:4966`) |
| `streams.cfg`, with `PausedTaskStaysOpen` | `AgentStream` | The task of a paused request is cancelled although the request can be resumed |
| `lost_run.cfg` | `MCSupervisorHierarchy` | A child run is asked for under an id that is free; before it is inserted a task is delegated to a run of that id, which the child run then replaces, its tasks included (`orchestrator.rs:1752`) |
| `grandchild.cfg` | `MCSupervisorHierarchy` | In the same way a run that has a child becomes a child: depth 2, where `docs/DEVELOPER_GUIDE.md` allows 1 |
| `self_parent.cfg` | `MCSupervisorHierarchy` | A child run is asked for under the id of its own parent, which does not exist yet; a task is delegated to a run of that id between the check of the id and that of the parent, and the run becomes its own parent (`:1747`, `:1756`): its ancestry has no end |
| `orphan.cfg` | `MCSupervisorHierarchy` | A crash in the middle of the write of the parent leaves a child whose every handler then ends with "parent not found" (`orchestrator.rs:4152`) |

Two more pass and are not runs because what they add to one is small:
`remote.cfg` (`MCOrchestrator`: `RunningIsBacked` of a remote task blocked by its
peer and by a thread) and `unnamed.cfg` (`MCSupervisorHierarchy`:
`NoGrandchildren` and `RollUpAgrees` where all run ids are UUIDs).

Some properties of the passing runs hold only on instances that leave one of
these causes out. `ApprovedBeforeExecution`, `OneExecutionPerAttempt`,
`LeaseHasOwner` and `LeaseIsReleased` are false with retries. `QueuedNeedsNoApproval`
is a theorem without blocker threads and false with them (`gated_unblock.cfg`).
`RunningIsBacked` of `Orchestrator` (in `remote.cfg`) is false with failing writes, because the record is running before the checkpoint is
written (`:3404`). `QueuedIsBeingStarted` is false with failing clean-ups, which
end the completion before it starts what it queued (`:3860`). In `Recovery`,
`LeaseIsHeld` and `PublishedStaysEnded` except tasks that an operator, or the
completion of a sibling, has started again, or that were reconciled while they were
live (`disturbed`). In `A2A`, `SuccessHasOutput` excepts tasks that a heartbeat
completed (`claimed`), and `ReplayIsSafe` two creates of one key handled at once.

More that the models of recovery say of the code, all visible in its actions:
the checkpoint written at the start of an execution overwrites the resume state
the execution loads next, so a resumed task replays from the beginning
(`orchestrator.rs:3407`); a task blocked by a pause or a hand-off cannot be
resumed (`:2587`); a task that was queued when the process ended is not
scheduled again (`recovery.rs:277`); reconciling while tasks run marks them
blocked and releases the leases in use (`recovery.rs:65`); a resumption sets the
task queued whatever it has become (`orchestrator.rs:2603`). And of the
lifecycle: a completed task may be marked cancelled by a late `cancel_task`
(`:3222`), and a paused task is restarted by the completion of any other
(`:7093`).

## 4. What is proved

Every theorem is for all constants that satisfy the named assumptions of its
module: any set of tasks, clients, slots, streams, shells and runs, any
dependency relation, every bound and kind of fault.

| Module | Theorem | Statement | Argument |
| --- | --- | --- | --- |
| `OrchestratorProofs` | `TypeCorrect` | `[]TypeOK` | inductive; the conjunct on the channel's length is the one that is not a matter of types |
| | `GatesAreNotSkipped`, `GatesAreDecidable` | `[]GatesBeforeCompletion`, `[]GatedTaskIsDecidable` | `GateInv` |
| | `DependenciesComeFirst` | `[]DependenciesFirst` | `DependencyInv` |
| | `QueuedTasksAreApproved` | `Escalating = {}` implies `[]QueuedNeedsNoApproval` | `QueueInv` |
| | `RunningTasksAreCancellable` | `~DiskFaults` implies `[]RunningIsCancellable` | `ControlInv` |
| | `QueuedTasksAreBeingStarted` | `~EnvFaults`, `~DiskFaults`, `Escalating = {}` imply `[]QueuedIsBeingStarted` | `HandlerInv`, `Underway` |
| | `FirstAttemptsAreApproved`, `ApprovalComesFirst` | `[]FirstAttemptIsApproved`; `NoRetries` implies `[]ApprovedBeforeExecution` | `ApprovalInv` |
| | `FirstAttemptsRunOnce`, `AttemptsRunOnce` | `"pause" \notin Commands` implies `[]FirstAttemptRunsOnce`; `OneStart` implies `[]OneExecutionPerAttempt` | `OnceInv` |
| | `LeasesHaveOwners` | `OneStart`, `~DiskFaults` imply `[]LeaseHasOwner` | `LeaseInv` |
| `GatedResultProofs` | `LifecycleImplementsGatedResult` | `Spec => Abstract!Spec` | `HandlersInv`, `DeliveredInv`, `OneTaskMoves` |
| `RecoveryProofs` | `TypeCorrect`, `RunningTasksAreBacked`, `LeasesAreHeld`, `GatedTasksAreHeld`, `PublishedTasksStayEnded` | `[]TypeOK`, `[]RunningIsBacked`, `[]LeaseIsHeld`, `[]GatedIsHeld`, `[]PublishedStaysEnded` | `IInv` |
| `TaskManagerProofs` | `NoCircles`, `CurrentTaskExists` | `[]DependenciesAcyclic`, `[]CurrentExists` | `ListInv` |
| | `TypeCorrect`, `CompletionEarned`, `ReopeningReachesAncestors` | `[]TypeOK`, `CompletionIsEarned`, `ReopeningPropagates` | `TypeInv`, `StatusUpdatedIs` |
| `A2AProofs` | `TypeCorrect`, `SuccessesHaveOutput`, `ReplaysAreSafe` | `[]TypeOK`, `[]SuccessHasOutput`, `[]ReplayIsSafe` | `Named`, `OutputInv`, `KeyInv` |
| `ShellSessionsProofs` | `TypeCorrect`, `OneCommandAtATime`, `IdleShellsAreFree`, `LiveShellsAreKnown` | `[]TypeOK`, `[]ShellWorksOnActive`, `[]IdleShellIsFree`, `[]LiveShellIsKnown` | `ChildInv`, `LockInv`, `IdleInv`, `WriterInv`, `KnownStep` |
| `SupervisorHierarchyProofs` | `TypeCorrect`, `CirclesAreRequested`, `AncestriesEnd`, `RollUpsAgree`, `ChildrenHaveNoChildren` | `[]TypeOK`, `[]CirclesAreAskedFor`, `[]RollUpAgrees`; no request of a run as its own parent implies `[]AncestryEnds`; `Chosen = {}` implies `[]NoGrandchildren` | `EdgeInv`, `RootInv`, `SelfInv`, `UnbornInv`, `ClaimInv`, `RaisedInv`, `FlatInv` |
| `AgentStreamProofs` | `TypeCorrect`, `ConfirmationsAreWaitedFor`, `PolicyStaysConsistent`, `ResumableIsStopped`, `EndingsStand` | `[]TypeOK`, `[]PendingHasWaiter`, `[]PolicyIsConsistent`, `[]ResumableIsInterrupted`, `[]EndingStands` | `StartInv`, `TokenInv`, `PendingInv`, `PolicyInv`, `ToldInv` |

**Gates.** `GatesBeforeCompletion` is not inductive: a task at its test gate is
completed by the approval of the tests alone, so `GateInv` adds that a reviewed
task at its test gate holds the approval of its review. All actions but
`Delegate`, `Approve`, `Retry` and `Complete` satisfy `KeepsGates` (they put no
task at a gate or in `completed`, and leave those that are there alone); these
four are treated one by one.

**Dependencies.** `DependenciesFirst` speaks of executions, whose dependencies
were looked at long before: when the task was delegated, approved or retried, or
when another completed. `DependencyInv` carries the fact through every place a
start waits in: the slot of a start, the `ready` list of a completion, the
`start` flag of a retry. It speaks of `succeeded`, which only grows, and not of
the present state of the dependency, which a late cancellation may change.

**Queued tasks.** `QueuedTasksAreApproved` needs `Escalating = {}`, for the reason
given in section 3; `QueueInv` adds that no thread was ever opened.

**Control.** A running task can be cancelled because the entry of `active_tasks`
is the token of an execution of its present attempt. A launch writes the entry,
and the completion of any execution may remove it, so `ControlInv` says of every
local task that is running that the entry *is* one of the present attempt:
a completion that is a duplicate does not touch the entry, and one that is not is
of that attempt and ends the task. `~DiskFaults` is needed: the record is
`running` before `start_task_execution` writes its files and inserts the entry.

**Queued tasks have a handler.** `Underway(e, t)`: slot `e` is a start of `t`, or a
completion that will start it. `HandlerInv`, which needs no assumption, says which
blocks carry what: that only the blocks between a completion and its last step
hold tasks to start. The assumptions are those under which the code has the
property: a failed clean-up or write ends the completion that should have started
what it queued, and so a queued task is left behind (`orchestrator.rs:3860`).

**First attempts.** With retries the code breaks `ApprovedBeforeExecution` and
`OneExecutionPerAttempt` (`approval_bypass.cfg`, `double_start.cfg`), and a lease
may be left (`leaked_lease.cfg`). What is true of the code with all its commands is
stated of tasks that have not been retried: `FirstAttemptIsApproved` (no
assumption) and `FirstAttemptRunsOnce` (no `pause`, because of `double_pause.cfg`). The three properties of the run `once` follow where nothing starts a
task twice: `OneStart` is no retry, no pause, no remote task and no blocker thread.
`OnceInv` is the invariant: at most one slot works for a task (`Working`), none
before it is queued and none after its result. Two completions race for one
dependent in the run and in the theorem; the task is queued in the same block that
collects it, so the second finds it queued. `LeaseInv` gives every lease of such a
task the slot that holds it.

**Refinement.** A step of the lifecycle touches at most one task
(`OneTaskMoves`), and each action moves it as `Allowed` says or leaves its stage
alone (`Quiet`). The hard step is a result: a second one must not arrive at a
task that holds one. `DeliveredInv` says that a task at a result gate or
completed has its result and is finished, which makes any further completion of
the attempt a duplicate that is dropped; `HandlersInv` says that whatever a
handler in flight works for has been delegated, so that nothing moves an absent
task.

**Circles.** A mutation that adds a dependency first walks the dependencies of
the one it adds. That two tasks do not wait for each other is stated with a set
that contains one of them and what it waits for and not the other;
`DependencyClosesNoCycle` builds, from such a set of the old list and the one the
walk has found, a set for the new list. `ListInv` says it,
with the typing and the current task, of every list in the system at once: the
file, the cache, the checkpoint and each caller's copy. A stale copy written back
replaces one sound list by another.

**Roll-up.** `update_task_status` is a loop over the ancestors, each round on what
the rounds before have left. The theorems need to know what the loop does for every
depth of the tree, so `TaskManager` computes it with recursive functions, of the
rounds (`StatusUpdated`) and of the parents (`Ancestors`, `Descendants`), and the
proofs begin with `RecursionDefines`: along predecessors that come to an end a
function obeying such rules exists, because the least relation closed under them is
one. Inductions are on a counterexample that is minimal: a least round
(`LeastElement`, from the library's `NatLessThanWellFounded`) or a task whose parent
is none (`ParentsAssumption`: no circle of parents, as a parent exists before its
children and is never changed). `Rounds` is the invariant of the loop, `StatusUpdatedIs`
its result: only the task and those above it change; what has been completed had
earned it. The one step where this might fail is a round that changes a status after
it has been looked at: `EarnedStays` shows that the later rounds are about tasks
above (`AncestorsInOrder`), which are not below the ones completed before
(`AboveIsNotBelow`) and, at worst, are what these were waiting for, the exception the
property makes. `TypeInv` says of every list in the system that the fields have
their types and that what is not in the list has no record.

**Restarts.** `IInv` of `RecoveryProofs` is the conjunction of the type invariant
with eight parts, none of which is inductive alone. `RunningIsActive`: a running
task has, under its name in `active_tasks`, an execution of its present attempt
(`RunningIsBacked` follows). `OneStart`: a task nobody has started again is in one
slot at most. `ExecutionCounts`: its execution will be believed when it ends, or
the task has been cancelled and its lease is gone or about to go; with it
`LeaseHasHolder` follows the lease from the start to the clean-up, through the
copies of the environments that a reconciliation writes back. `HeldAtRest`: a task
found before a gated step has no slot, no command about to start it, and neither
its checkpoint nor any copy of it can be resumed. `PublishedIsFinal`: the same of
a task whose result is out, from the block that is about to send it on: the
terminal checkpoint is written before the result is sent, which is the order the
theorem depends on. `TasksAreKnown` and `BootIsAlone` tie handlers to the run in
memory. The steps fall into a few classes (a slot that goes on, ends or is given to
a start; a command that starts nothing; one that queues a task; a crash; the
blocks of a restart), each with one lemma per part, so that an action needs a proof
only where it is not of a class. A crash is the step that leaves least: every part
is about what the files say, or about memory and empty.

**Remote output.** A completed task has output because the worker attaches it
first, or a heartbeat has `claimed` it; `OutputInv` says so of the task, of each status
under way and of what the client has seen. Output is never taken away again, so what a
reply has seen stays true of a task that is cancelled or retried meanwhile. `KeyInv` says that a task indexed under a key carries the key;
with no two creates of the key handled at once (`overlapped`) it is the only one.

**Shells.** `LockInv`: the run that works in an open shell holds its command lock, is
the shell's active process and has the output sent to it; in a closed one it may have
returned while `terminate` waits for the writer, or because the kill failed, and what
it left may work on. `ChildInv`: without a process there is no command, and a run or a
call that is about to kill a shell has closed it. `WriterInv`:
the PTY writer is out of its place exactly while one thread writes an interrupt.
`IdleInv`: a shell that is being started belongs to one run, and nothing is active
in an idle one. An open shell that the manager does not know is in the `rest` of the
call that took it out, which keeps it there when it fails (`KnownStep`).

**Streams.** `PendingInv`: a pending confirmation belongs to a pipeline that waits
and has no answer yet. `PolicyInv`: allowed and blocked at once only while some
pipeline stands between the two locks. `TokenInv`: the loop's interrupted ends
have a raised token, and a raised token is not lowered again. `ToldInv`: only errors
are told twice; its one hard step is `Close`, which needs that a silent stream was told
an error before (`StartInv`).

**Hierarchy.** A run that is given a child is a root in memory, but the new child
may have an older life on disk, in a copy under way, or as the parent of others.
Circles are ruled out by looking at all of them at once: `EdgeInv` says that the
parents which memory, files and copies give to runs form no circle, and needs
`RootInv`: a run that is a root in memory has no parent in any copy;
`SelfInv`: what is its own parent was asked for so. Agreement
follows the roll-up: `RaisedInv` keeps the parent of a rolled-up run in memory,
`UnbornInv` and `ClaimInv` say that a UUID is mentioned nowhere before its run is
created and is held by one creator, so that no entry of an older life is left in
the parent. `FlatInv` is the depth limit for parents whose id nobody chose.

### What is only model-checked

Liveness, which the provers do not handle: `QueuedTaskRuns`, `ReadyTaskWakes`,
`LeaseIsReleased`, `InterruptedStreamEnds`, `ExecutionReturns`, `CommandReturns`,
`StoppedCommandReturns`.
Every invariant and action property of a run is also a theorem, some under the
named assumptions above. None of these can be dropped: without any one of them TLC
finds the property violated on a small instance.

`CurrentExists` (a part of `TypeOK`), `QueuedNeedsNoApproval`, `ResumableIsInterrupted`,
`NoGrandchildren`, `AncestryEnds`, `FirstAttemptIsApproved` and `FirstAttemptRunsOnce`
are proved and not properties of a run (`NoGrandchildren` has `unnamed.cfg`).

## 5. What is not modelled

Within the lifecycle: `claim_task`, which names an owner; delegation under an id
that is in use; the detail of git worktrees;
`cleanup_environment` as a command of its own; inbox, unread counts and archive
of team messages. The message that a hand-off posts is reduced to its effect on
the record. Two commands of one client do not overlap. Gates and files are never
in one model: `Orchestrator` has the gates, `Recovery` the files.

In `SupervisorHierarchy`: the policy, the messages and the lead agent a child
inherits; the list and descendant queries. A request may name the new run as its own
parent only where the caller chooses its id (`RunsAssumption`).

In `Recovery`: files of older versions, worktree health. In `AgentStream`:
reconnection to a provider, its back-off and health; parallel tool batches; the
parent's task tree. In `TaskManager`: titles, notes, order, memory links. In
`A2A`: profiles, tokens, artifact listing, agent cards, the content of the
worker's plan. In `ShellSessions`: resizing, viewers, working directories, the
text heuristics that recognise a stalled command, an execution whose future is dropped
before it returns, the build for Windows.

Outside: user interfaces, device drivers, HTTP clients of language models,
retrieval and text heuristics, support libraries. They make up most of the
repository's lines and keep no protocol state. The components of `PROJECT.json`
give the reason for each.

## 6. Plan

1. `AgentLoop`: turns, budgets, tracked tasks and the branches that end or
   continue a request.
2. `McpLifecycle`: states of a connection, calls before and after the state that
   allows them, reconnection.
3. Provider reconnection and the retry policies, as an extension of
   `AgentStream`; NATS and IPC connections.
4. The session store: files, checkpoints and their retention.
