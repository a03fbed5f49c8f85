--------------------------- MODULE RecoveryProofs ---------------------------
(***************************************************************************)
(* Theorems about Recovery, for every set of tasks, slots and commands and *)
(* every bound, the number of crashes among them.                          *)
(***************************************************************************)
EXTENDS Recovery, TLAPS

-----------------------------------------------------------------------------
(* Values *)

JobAt == {"free"} \cup Starting \cup Executing \cup Completing
OpAt  == {"idle"} \cup Handling \cup Boot

\* The fixed values that actions write have the types of their variables.
LEMMA ConstantTypes ==
    /\ NoRecord \in Record
    /\ NoSnapshot \in Snapshots
    /\ NoEnvironments \in [Task -> Environment]
    /\ NoCheckpoints \in [Task -> Checkpoint]
    /\ Free \in JobRecord
    /\ Idle \in OpRecord
    /\ \A t \in Task : Scheduled(t) \in JobRecord
<1>1. NoRecord \in Record
  BY RecoveryAssumption DEF NoRecord, Record, State, Reason, Checkpoint
<1>2. NoSnapshot \in Snapshots
  BY <1>1 DEF NoSnapshot, Snapshots
<1>3. NoEnvironments \in [Task -> Environment]
  BY DEF NoEnvironments, Environment
<1>4. NoCheckpoints \in [Task -> Checkpoint]
  BY DEF NoCheckpoints, Checkpoint
<1>5. Free \in JobRecord
  BY <1>2, RecoveryAssumption DEF Free, JobRecord, Outcome, Snapshots
<1>6. Idle \in OpRecord
  BY <1>2, <1>3, <1>4 DEF Idle, OpRecord, Snapshots
<1>7. \A t \in Task : Scheduled(t) \in JobRecord
  BY <1>5 DEF Scheduled, JobRecord, Starting
<1> QED BY <1>1, <1>2, <1>3, <1>4, <1>5, <1>6, <1>7

\* An update of a slot keeps its type and what it does not name.
LEMMA JobUpdates ==
    ASSUME NEW job \in JobRecord, NEW at \in JobAt
    PROVE  /\ [job EXCEPT !.at = at] \in JobRecord
           /\ [job EXCEPT !.at = at].at = at
           /\ [job EXCEPT !.at = at].task = job.task
           /\ [job EXCEPT !.at = at].attempt = job.attempt
           /\ [job EXCEPT !.at = at].outcome = job.outcome
           /\ [job EXCEPT !.at = at].ready = job.ready
           /\ \A snap \in Snapshots :
                /\ [job EXCEPT !.at = at, !.snap = snap] \in JobRecord
                /\ [job EXCEPT !.at = at, !.snap = snap].at = at
                /\ [job EXCEPT !.at = at, !.snap = snap].task = job.task
                /\ [job EXCEPT !.at = at, !.snap = snap].attempt = job.attempt
                /\ [job EXCEPT !.at = at, !.snap = snap].outcome = job.outcome
                /\ [job EXCEPT !.at = at, !.snap = snap].ready = job.ready
           /\ \A outcome \in Outcome :
                /\ [job EXCEPT !.at = at, !.outcome = outcome] \in JobRecord
                /\ [job EXCEPT !.at = at, !.outcome = outcome].at = at
                /\ [job EXCEPT !.at = at, !.outcome = outcome].task = job.task
                /\ [job EXCEPT !.at = at, !.outcome = outcome].attempt = job.attempt
                /\ [job EXCEPT !.at = at, !.outcome = outcome].outcome = outcome
                /\ [job EXCEPT !.at = at, !.outcome = outcome].ready = job.ready
BY DEF JobRecord, JobAt, Snapshots

\* The records that launches, completions and commands write are records.
LEMMA RecordUpdates ==
    ASSUME NEW r \in Record, NEW state \in State, NEW reasons \in SUBSET Reason,
           NEW result \in BOOLEAN, NEW finished \in BOOLEAN
    PROVE  /\ [r EXCEPT !.state = state] \in Record
           /\ [r EXCEPT !.reasons = reasons] \in Record
           /\ [r EXCEPT !.state = state, !.reasons = reasons] \in Record
           /\ [r EXCEPT !.reasons = reasons, !.state = state] \in Record
           /\ [r EXCEPT !.state = state, !.finished = finished] \in Record
           /\ [r EXCEPT !.state = state, !.result = result,
                        !.finished = finished, !.reasons = reasons] \in Record
           /\ [r EXCEPT !.reasons = reasons, !.state = state,
                        !.result = result, !.finished = finished] \in Record
BY DEF Record

\* Queueing tasks, and reconciling a run, keep the type of its records.
LEMMA RunTypes ==
    ASSUME NEW run \in Snapshots
    PROVE  /\ \A ready : Requeued(run, ready) \in Snapshots
           /\ \A envs : \A kept \in [Task -> Checkpoint] :
                ReconciledRun(run, envs, kept) \in Snapshots
<1>1. \A t \in Task : [run[t] EXCEPT !.state = "queued", !.reasons = {}] \in Record
  BY RecordUpdates DEF Snapshots, State
<1>2. ASSUME NEW t \in Task, NEW k \in Checkpoint, NEW lost \in BOOLEAN
      PROVE  Reconciled(run[t], k, lost) \in Record
  <2>1. run[t] \in Record /\ run[t].state \in State /\ run[t].reasons \subseteq Reason
    BY DEF Snapshots, Record
  <2>2. (IF lost \/ run[t].state = "running" THEN "blocked" ELSE run[t].state) \in State
    BY <2>1 DEF State
  <2>3. run[t].reasons \cup (IF run[t].state = "running" THEN {k} ELSE {})
          \cup (IF lost THEN {"environment"} ELSE {}) \in SUBSET Reason
    BY <2>1 DEF Reason
  <2> QED BY <2>1, <2>2, <2>3, RecordUpdates DEF Reconciled
<1>3. ASSUME NEW envs, NEW kept \in [Task -> Checkpoint]
      PROVE  ReconciledRun(run, envs, kept) \in Snapshots
  <2>1. \A t \in Task : Lost(t, envs) \in BOOLEAN /\ kept[t] \in Checkpoint
    BY DEF Lost
  <2> QED BY <1>2, <2>1 DEF ReconciledRun, Snapshots
<1> QED BY <1>1, <1>3 DEF Requeued, Snapshots

\* What reconciliation releases stays an environment.
LEMMA EnvTypes ==
    ASSUME NEW run, NEW envs \in [Task -> Environment]
    PROVE  LeasesReleased(run, envs) \in [Task -> Environment]
BY DEF LeasesReleased, Environment

\* Reconciliation leaves no task running, forgets none and invents none.
LEMMA ReconciledFacts ==
    ASSUME NEW run \in Snapshots, NEW envs, NEW kept \in [Task -> Checkpoint],
           NEW t \in Task
    PROVE  LET r == ReconciledRun(run, envs, kept)[t]
           IN  /\ r.attempts = run[t].attempts
               /\ r.state # "running"
               /\ r.state = "none" <=> run[t].state = "none"
<1>1. run[t] \in Record
  BY DEF Snapshots
<1>2. CASE t \in Known(run)
  <2> DEFINE lost == Lost(t, envs)
  <2>1. ReconciledRun(run, envs, kept)[t] = Reconciled(run[t], kept[t], lost)
    BY <1>2 DEF ReconciledRun
  <2> HIDE DEF lost
  <2>2. /\ Reconciled(run[t], kept[t], lost).attempts = run[t].attempts
        /\ Reconciled(run[t], kept[t], lost).state =
             IF lost \/ run[t].state = "running" THEN "blocked" ELSE run[t].state
    BY <1>1 DEF Reconciled, Record
  <2> QED BY <1>2, <2>1, <2>2 DEF Known
<1>3. CASE t \notin Known(run)
  BY <1>1, <1>3 DEF ReconciledRun, Known, Record
<1> QED BY <1>2, <1>3

\* What a reconciliation or a restart has still to write.
LEMMA ToWriteType ==
    ASSUME NEW run \in Snapshots, NEW envs \in [Task -> Environment],
           NEW kept \in [Task -> Checkpoint]
    PROVE  LET w == ToWrite(run, envs, kept)
           IN  /\ w \in OpRecord
               /\ w.snap = ReconciledRun(run, envs, kept)
               /\ w.envs = LeasesReleased(run, envs)
               /\ w.kept = [t \in Task |-> IF run[t].state = "running"
                                           THEN kept[t] ELSE "none"]
               /\ w.ready = {}
<1> DEFINE written == [t \in Task |-> IF run[t].state = "running"
                                      THEN kept[t] ELSE "none"]
<1>1. ReconciledRun(run, envs, kept) \in Snapshots
  BY RunTypes
<1>2. LeasesReleased(run, envs) \in [Task -> Environment]
  BY EnvTypes
<1>3. written \in [Task -> Checkpoint]
  BY DEF Checkpoint
<1>4. ToWrite(run, envs, kept) = [Idle EXCEPT !.snap = ReconciledRun(run, envs, kept),
                                              !.envs = LeasesReleased(run, envs),
                                              !.kept = written]
  BY DEF ToWrite
<1> HIDE DEF written
<1>5. LET w == ToWrite(run, envs, kept)
      IN  /\ w \in OpRecord
          /\ w.snap = ReconciledRun(run, envs, kept)
          /\ w.envs = LeasesReleased(run, envs)
          /\ w.kept = written
          /\ w.ready = {}
  BY <1>1, <1>2, <1>3, <1>4, ConstantTypes DEF OpRecord, Idle
<1> QED BY <1>5 DEF written

-----------------------------------------------------------------------------
(* The inductive invariant *)

\* A command that will start its task.
StartsAgain == {"prepare", "store_retry", "resume_checkpoint", "store_resume"}
WillStart   == StartsAgain \cup {"store_delegate"}

\* Where checkpoints are still to be written back.
WritesBack == {"resume_checkpoint", "store_reconciled", "reconciled_envs",
               "reconciled_checkpoints"}

Acknowledging == {"acknowledge", "acknowledge_checkpoint"}

Holding == {"store_lease", "launch", "cleanup"} \cup Executing

Busy(j, t)     == jobs[j].at # "free" /\ jobs[j].task = t
CancelFrees(t) == op.at = "cancel_cleanup" /\ op.task = t

\* The slot is in the completion of a paused execution, or has published.
Quiet(j) == \/ jobs[j].at = "schedule"
            \/ jobs[j].at \in Completing /\ jobs[j].outcome = "paused"

\* Nothing else happens until a restart starts the tasks it resumes.
BootIsAlone ==
    op.at \in Boot \ {"boot_schedule"} =>
        /\ \A j \in Job : jobs[j].at = "free" /\ jobs[j].ready = {}
        /\ \A t \in Task : active[t] = NoJob

\* A held task has no start, execution or completion, nobody is about to start
\* it, and neither its checkpoint nor a copy to be written back is resumable.
HeldAtRest ==
    /\ \A j \in Job : jobs[j].at # "free" => jobs[j].task \notin held
    /\ op.at \in WillStart => op.task \notin held
    /\ \A t \in held : ~Resumable(checkpoint[t]) /\ ~Resumable(op.kept[t])
    /\ GatedIsHeld

\* The entry of active_tasks is the execution of the present attempt of a
\* task that is running.
RunningIsActive ==
    \A t \in Task : record[t].state = "running" =>
        /\ active[t] \in Job
        /\ jobs[active[t]].at \in Executing
        /\ jobs[active[t]].task = t
        /\ jobs[active[t]].attempt = record[t].attempts

\* A task nobody has started again is in one slot at most, and in none before
\* the command or the restart that starts it has done so.
OneStart ==
    \A t \in Task \ disturbed :
        /\ \A i, j \in Job : Busy(i, t) /\ Busy(j, t) => i = j
        /\ (op.at = "store_delegate" /\ op.task = t) \/ t \in op.ready
             => \A j \in Job : ~Busy(j, t)
        /\ op.at \in StartsAgain => op.task # t

\* The execution of such a task will be believed when it ends; if it is not,
\* it has been cancelled and its lease is gone or about to go.
ExecutionCounts ==
    \A t \in Task \ disturbed, j \in Job :
        jobs[j].at \in Executing /\ jobs[j].task = t =>
            /\ active[t] = j
            /\ jobs[j].attempt = record[t].attempts
            /\ \/ record[t].state = "running"
               \/ /\ record[t].state = "cancelled"
                  /\ env[t] # "leased" \/ CancelFrees(t)

\* A blocked task that nobody has started again has at most the completion of
\* its pause before it, also while it is acknowledged; one that completes in any
\* other way has ended.
BlockedIsQuiet ==
    \A t \in Task \ disturbed :
        /\ \A j \in Job : Busy(j, t) =>
            /\ record[t].state = "blocked" => Quiet(j)
            /\ op.at \in Acknowledging /\ op.task = t => Quiet(j)
            /\ jobs[j].at \in Completing => Quiet(j) \/ record[t].state \in Terminal
        /\ record[t].state = "blocked" =>
            t \notin op.ready /\ ~(op.at = "store_delegate" /\ op.task = t)

\* A lease has its holder, and none comes back from a copy of the environments.
LeaseHasHolder ==
    /\ \A t \in Known(record) \ disturbed : env[t] = "leased" =>
            \/ CancelFrees(t)
            \/ \E j \in Job : jobs[j].at \in Holding /\ jobs[j].task = t
    /\ \A t \in Task : op.envs[t] = "leased" => t \notin Known(record)

\* A task whose result is out, and that nobody has started again, has no start
\* or execution and a checkpoint that cannot be resumed; so has one whose
\* result is about to be sent.  No copy of an older checkpoint is written back.
PublishedIsFinal ==
    /\ \A t \in Task \ disturbed :
        /\ sent[t] # {} =>
            /\ ~Resumable(checkpoint[t])
            /\ t \notin op.ready
            /\ \A j \in Job : jobs[j].task = t => jobs[j].at \in {"free", "schedule"}
            /\ ~(op.at = "store_delegate" /\ op.task = t)
        /\ \A j \in Job :
            jobs[j].at = "send" /\ jobs[j].outcome # "paused" /\ jobs[j].task = t
              => ~Resumable(checkpoint[t])
        /\ op.at \in WritesBack => op.kept[t] = "none"
        /\ op.at \in Boot \ {"boot_schedule"} => op.kept[t] \in {"none", checkpoint[t]}
        /\ op.at = "acknowledge_checkpoint" /\ sent[t] # {} => ~Resumable(op.kept[t])
    /\ op.at \in {"resume", "acknowledge", "acknowledge_checkpoint"} =>
        \A u \in Task : u # op.task => op.kept[u] = "none"

IInv == /\ Typed
        /\ TasksAreKnown
        /\ BootIsAlone
        /\ HeldAtRest
        /\ RunningIsActive
        /\ OneStart
        /\ ExecutionCounts
        /\ BlockedIsQuiet
        /\ LeaseHasHolder
        /\ PublishedIsFinal

-----------------------------------------------------------------------------
(* Steps of a start, an execution or a completion on its own task *)

\* What such steps have in common: the slot stays with its task, and of the
\* rest only the record, the environment and the checkpoint of the task change.
OwnStep(j) ==
    LET t == jobs[j].task
    IN  /\ jobs[j].at \notin {"free", "send", "schedule"}
        /\ jobs'[j].at \notin {"free", "schedule"}
        /\ jobs'[j].at \in Executing <=> jobs[j].at \in Executing
        /\ jobs'[j].at \in Completing <=> jobs[j].at \in Completing
        /\ jobs[j].at \in Completing => jobs'[j].outcome = jobs[j].outcome
        /\ jobs'[j].task = t
        /\ jobs'[j].attempt = jobs[j].attempt
        /\ jobs'[j].ready = jobs[j].ready
        /\ \A i \in Job \ {j} : jobs'[i] = jobs[i]
        /\ \A u \in Task \ {t} : /\ record'[u] = record[u]
                                 /\ env'[u] = env[u]
                                 /\ checkpoint'[u] = checkpoint[u]
        /\ record'[t].attempts = record[t].attempts
        /\ record'[t].state = "none" <=> record[t].state = "none"
        /\ record'[t].state = "running" => record[t].state = "running"
        /\ \/ record'[t].state = record[t].state
           \/ jobs[j].at \in Completing /\ record[t].state \notin Terminal
        /\ \/ env'[t] = "free"
           \/ env'[t] = env[t] /\ (jobs[j].at \in Holding => jobs'[j].at \in Holding)
           \/ jobs'[j].at \in {"store_lease", "launch"}
        /\ jobs'[j].at = "send" => \/ jobs'[j].outcome = "paused"
                                   \/ checkpoint'[t] = "result"
        /\ UNCHANGED <<active, op, sent, disturbed, held>>

\* The slot j goes on, and the others stay.
Moved(j, at, outcome) ==
    /\ jobs' \in [Job -> JobRecord]
    /\ jobs'[j].at = at
    /\ jobs'[j].task = jobs[j].task
    /\ jobs'[j].attempt = jobs[j].attempt
    /\ jobs'[j].ready = jobs[j].ready
    /\ jobs'[j].outcome = outcome
    /\ \A i \in Job \ {j} : jobs'[i] = jobs[i]

\* A step of an execution to another block of its slot keeps every type.
LEMMA Moves ==
    ASSUME Typed, NEW j \in Job, NEW at \in JobAt
    PROVE  /\ jobs' = [jobs EXCEPT ![j].at = at] => Moved(j, at, jobs[j].outcome)
           /\ \A snap \in Snapshots :
                jobs' = [jobs EXCEPT ![j].at = at, ![j].snap = snap]
                  => Moved(j, at, jobs[j].outcome)
           /\ \A outcome \in Outcome :
                jobs' = [jobs EXCEPT ![j].at = at, ![j].outcome = outcome]
                  => Moved(j, at, outcome)
<1>0. jobs \in [Job -> JobRecord] /\ jobs[j] \in JobRecord
  BY DEF Typed
<1>1. ASSUME jobs' = [jobs EXCEPT ![j].at = at]
      PROVE  Moved(j, at, jobs[j].outcome)
  <2>1. jobs'[j] = [jobs[j] EXCEPT !.at = at] /\ \A i \in Job \ {j} : jobs'[i] = jobs[i]
    BY <1>0, <1>1
  <2> QED BY <1>0, <1>1, <2>1, JobUpdates DEF Moved
<1>2. ASSUME NEW snap \in Snapshots, jobs' = [jobs EXCEPT ![j].at = at, ![j].snap = snap]
      PROVE  Moved(j, at, jobs[j].outcome)
  <2>1. /\ jobs'[j] = [jobs[j] EXCEPT !.at = at, !.snap = snap]
        /\ \A i \in Job \ {j} : jobs'[i] = jobs[i]
    BY <1>0, <1>2
  <2>2. jobs' = [jobs EXCEPT ![j] = [jobs[j] EXCEPT !.at = at, !.snap = snap]]
    BY <1>0, <1>2
  <2>3. jobs' \in [Job -> JobRecord]
    BY <1>0, <2>2, JobUpdates
  <2>4. LET job == [jobs[j] EXCEPT !.at = at, !.snap = snap]
        IN  /\ job.at = at
            /\ job.task = jobs[j].task
            /\ job.attempt = jobs[j].attempt
            /\ job.ready = jobs[j].ready
            /\ job.outcome = jobs[j].outcome
    BY <1>0 DEF JobRecord
  <2> QED BY <2>1, <2>3, <2>4 DEF Moved
<1>3. ASSUME NEW outcome \in Outcome, jobs' = [jobs EXCEPT ![j].at = at, ![j].outcome = outcome]
      PROVE  Moved(j, at, outcome)
  <2>1. /\ jobs'[j] = [jobs[j] EXCEPT !.at = at, !.outcome = outcome]
        /\ \A i \in Job \ {j} : jobs'[i] = jobs[i]
    BY <1>0, <1>3
  <2>2. jobs' = [jobs EXCEPT ![j] = [jobs[j] EXCEPT !.at = at, !.outcome = outcome]]
    BY <1>0, <1>3
  <2>3. jobs' \in [Job -> JobRecord]
    BY <1>0, <2>2, JobUpdates
  <2>4. LET job == [jobs[j] EXCEPT !.at = at, !.outcome = outcome]
        IN  /\ job.at = at
            /\ job.task = jobs[j].task
            /\ job.attempt = jobs[j].attempt
            /\ job.ready = jobs[j].ready
            /\ job.outcome = outcome
    BY <1>0 DEF JobRecord
  <2> QED BY <2>1, <2>3, <2>4 DEF Moved
<1> QED BY <1>1, <1>2, <1>3

\* Starts, up to the launch.
LEMMA StartSteps ==
    ASSUME Typed, NEW j \in Job, jobs[j].task \in Task,
           StoreLease(j) \/ (AcquireLease(j) /\ env[jobs[j].task] # "none")
    PROVE  Typed' /\ OwnStep(j)
<1> USE DEF Typed
<1>1. CASE AcquireLease(j) /\ env[jobs[j].task] # "none"
  <2>1. /\ jobs[j].at = "lease"
        /\ jobs' = [jobs EXCEPT ![j].at = "store_lease"]
        /\ env' = [env EXCEPT ![jobs[j].task] = "leased"]
    BY <1>1 DEF AcquireLease, Going
  <2>2. UNCHANGED <<record, active, op, checkpoint, sent, disturbed, held,
                    runFile, envFile, gone, crashes, reconciles>>
    BY <1>1 DEF AcquireLease, JobFrame
  <2>3. Moved(j, "store_lease", jobs[j].outcome)
    BY <2>1, Moves DEF JobAt, Starting
  <2>4. Typed'
    BY <2>1, <2>2, <2>3 DEF Environment, Moved
  <2>5. OwnStep(j)
    BY <2>1, <2>2, <2>3 DEF OwnStep, Holding, Starting, Executing, Completing, Moved
  <2> QED BY <2>4, <2>5
<1>2. CASE StoreLease(j)
  <2>1. /\ jobs[j].at = "store_lease"
        /\ jobs' = [jobs EXCEPT ![j].at = "launch"]
        /\ env' = [env EXCEPT ![jobs[j].task] = "leased"]
        /\ envFile' = [envFile EXCEPT ![jobs[j].task] = "leased"]
    BY <1>2 DEF StoreLease, Going, StoreEnvironment
  <2>2. UNCHANGED <<record, active, op, checkpoint, sent, disturbed, held,
                    runFile, gone, crashes, reconciles>>
    BY <1>2 DEF StoreLease, JobFrame
  <2>3. Moved(j, "launch", jobs[j].outcome)
    BY <2>1, Moves DEF JobAt, Starting
  <2>4. Typed'
    BY <2>1, <2>2, <2>3 DEF Environment, Moved
  <2>5. OwnStep(j)
    BY <2>1, <2>2, <2>3 DEF OwnStep, Holding, Starting, Executing, Completing, Moved
  <2> QED BY <2>4, <2>5
<1> QED BY <1>1, <1>2

\* The writes of the run.
LEMMA StoreSteps ==
    ASSUME Typed, NEW j \in Job, jobs[j].task \in Task, Stores(j)
    PROVE  Typed' /\ OwnStep(j)
<1> USE DEF Typed
<1>1. PICK from \in {"store_start", "store_progress", "store_result", "store_handoff"},
           to \in {"checkpoint", "run", "handoff", "terminal", "send"} :
        /\ StoreRun(j, from, to)
        /\ from \in Executing <=> to \in Executing
        /\ from \in Completing <=> to \in Completing
        /\ to = "send" => jobs[j].outcome = "paused"
  <2>1. AfterHandOff(j) \in {"send", "terminal"}
        /\ (AfterHandOff(j) = "send" => jobs[j].outcome = "paused")
    BY DEF AfterHandOff
  <2> QED BY <2>1 DEF Stores, Executing, Completing
<1>2. /\ jobs[j].at = from
      /\ runFile' = jobs[j].snap
      /\ jobs' = [jobs EXCEPT ![j].at = to, ![j].snap = NoSnapshot]
  BY <1>1 DEF StoreRun
<1>3. UNCHANGED <<record, env, active, op, envFile, checkpoint, gone, sent,
                  disturbed, held, crashes, reconciles>>
  BY <1>1 DEF StoreRun, JobFrame
<1>4. jobs[j].snap \in Snapshots
  BY DEF JobRecord, Snapshots
<1>5. Moved(j, to, jobs[j].outcome)
  BY <1>2, Moves, ConstantTypes DEF JobAt, Executing, Completing
<1>6. Typed'
  BY <1>2, <1>3, <1>4, <1>5 DEF Moved
<1>7. OwnStep(j)
  BY <1>1, <1>2, <1>3, <1>5 DEF OwnStep, Holding, Starting, Executing, Completing, Moved
<1> QED BY <1>6, <1>7

\* The checkpoints that an execution and its completion write.
LEMMA CheckpointSteps ==
    ASSUME Typed, NEW j \in Job, jobs[j].task \in Task,
           \/ StartCheckpoint(j) \/ BeforeTool(j) \/ AfterTool(j)
           \/ PauseSeen(j) \/ TerminalCheckpoint(j)
    PROVE  Typed' /\ OwnStep(j)
<1> USE DEF Typed
<1>1. PICK k \in Checkpoint : WriteCheckpoint(j, k) /\ (TerminalCheckpoint(j) => k = "result")
  BY DEF StartCheckpoint, BeforeTool, AfterTool, PauseSeen, TerminalCheckpoint, Checkpoint
<1>2. checkpoint' = [checkpoint EXCEPT ![jobs[j].task] = k]
      /\ UNCHANGED <<record, env, active, op, runFile, envFile, gone, sent,
                     disturbed, held, crashes, reconciles>>
  BY <1>1 DEF WriteCheckpoint, JobFrame
<1>3. \E at \in JobAt : \E outcome :
        /\ Moved(j, at, outcome)
        /\ jobs[j].at \in {"checkpoint", "run", "terminal"}
        /\ jobs[j].at \in Executing <=> at \in Executing
        /\ jobs[j].at \in Completing <=> at \in Completing
        /\ jobs[j].at \in Completing => outcome = jobs[j].outcome
        /\ at \notin {"free", "schedule"}
        /\ at = "send" => k = "result"
  <2>1. CASE StartCheckpoint(j)
    <3>1. jobs[j].at = "checkpoint" /\ jobs' = [jobs EXCEPT ![j].at = "run"]
      BY <2>1 DEF StartCheckpoint, Going
    <3>2. "run" \in JobAt
      BY DEF JobAt, Executing
    <3>3. Moved(j, "run", jobs[j].outcome)
      BY <3>1, <3>2, Moves
    <3> QED BY <3>1, <3>2, <3>3 DEF Executing, Completing
  <2>2. CASE BeforeTool(j) \/ AfterTool(j)
    <3>1. jobs[j].at = "run" /\ jobs' = jobs
      BY <2>2 DEF BeforeTool, AfterTool
    <3>2. "run" \in JobAt /\ Moved(j, "run", jobs[j].outcome)
      BY <3>1 DEF Moved, JobAt, Executing
    <3> QED BY <3>1, <3>2 DEF Executing, Completing
  <2>3. CASE PauseSeen(j)
    <3>1. jobs[j].at = "run"
          /\ jobs' = [jobs EXCEPT ![j].at = "ended", ![j].outcome = "paused"]
      BY <2>3 DEF PauseSeen
    <3>2. "ended" \in JobAt /\ "paused" \in Outcome
      BY DEF JobAt, Executing, Outcome
    <3>3. Moved(j, "ended", "paused")
      BY <3>1, <3>2, Moves
    <3> QED BY <3>1, <3>2, <3>3 DEF Executing, Completing
  <2>4. CASE TerminalCheckpoint(j)
    <3>1. jobs[j].at = "terminal" /\ jobs' = [jobs EXCEPT ![j].at = "send"]
      BY <2>4 DEF TerminalCheckpoint, Going
    <3>2. "send" \in JobAt
      BY DEF JobAt, Completing
    <3>3. Moved(j, "send", jobs[j].outcome)
      BY <3>1, <3>2, Moves
    <3> QED BY <1>1, <2>4, <3>1, <3>2, <3>3 DEF Executing, Completing
  <2> QED BY <2>1, <2>2, <2>3, <2>4
<1>4. Typed'
  BY <1>2, <1>3 DEF Moved
<1>5. OwnStep(j)
  BY <1>2, <1>3 DEF OwnStep, Holding, Starting, Executing, Completing, Moved
<1> QED BY <1>4, <1>5

\* Progress and the end of the execution.
LEMMA ExecutionSteps ==
    ASSUME Typed, NEW j \in Job, jobs[j].task \in Task,
           Progress(j) \/ ExecutionEnds(j)
    PROVE  Typed' /\ OwnStep(j)
<1> USE DEF Typed
<1>1. UNCHANGED <<record, env, active, op, runFile, envFile, checkpoint, gone,
                  sent, disturbed, held, crashes, reconciles>>
  BY DEF Progress, ExecutionEnds, JobFrame, disk
<1>2. \E at \in {"store_progress", "ended"} : \E outcome : Moved(j, at, outcome)
  <2>1. CASE Progress(j)
    <3>1. jobs' = [jobs EXCEPT ![j].at = "store_progress", ![j].snap = record]
      BY <2>1 DEF Progress
    <3>2. "store_progress" \in JobAt
      BY DEF JobAt, Executing
    <3>3. Moved(j, "store_progress", jobs[j].outcome)
      BY <3>1, <3>2, Moves
    <3> QED BY <3>3
  <2>2. CASE ExecutionEnds(j)
    <3>1. PICK outcome \in Outcome :
            jobs' = [jobs EXCEPT ![j].at = "ended", ![j].outcome = outcome]
      BY <2>2 DEF ExecutionEnds, Outcome
    <3>2. "ended" \in JobAt
      BY DEF JobAt, Executing
    <3>3. Moved(j, "ended", outcome)
      BY <3>1, <3>2, Moves
    <3> QED BY <3>3
  <2> QED BY <2>1, <2>2
<1>3. jobs[j].at = "run"
  BY DEF Progress, ExecutionEnds
<1>4. Typed'
  BY <1>1, <1>2 DEF Moved
<1>5. OwnStep(j)
  BY <1>1, <1>2, <1>3 DEF OwnStep, Holding, Starting, Executing, Completing, Moved
<1> QED BY <1>4, <1>5

\* The completion: the clean-up of the environment and the hand-off.
LEMMA CompletionSteps ==
    ASSUME Typed, NEW j \in Job, jobs[j].task \in Known(record),
           CleanUp(j) \/ StoreCleanUp(j) \/ StoreEnvInRun(j) \/ HandOff(j)
    PROVE  Typed' /\ OwnStep(j)
<1> USE DEF Typed
<1> DEFINE t == jobs[j].task
<1>0. t \in Task /\ record[t].state # "none"
  BY DEF Known
<1>1. CASE CleanUp(j)
  <2>1. /\ jobs[j].at = "cleanup"
        /\ env' = [env EXCEPT ![t] = "free"]
        /\ gone' \subseteq Task
        /\ jobs' = [jobs EXCEPT ![j].at = "store_cleanup"]
    BY <1>0, <1>1 DEF CleanUp, Going
  <2>2. UNCHANGED <<record, active, op, checkpoint, sent, disturbed, held,
                    runFile, envFile, crashes, reconciles>>
    BY <1>1 DEF CleanUp, history
  <2>3. Moved(j, "store_cleanup", jobs[j].outcome)
    BY <2>1, Moves DEF JobAt, Completing
  <2>4. Typed'
    BY <2>1, <2>2, <2>3 DEF Environment, Moved
  <2>5. OwnStep(j)
    BY <1>0, <2>1, <2>2, <2>3 DEF OwnStep, Starting, Executing, Completing, Moved
  <2> QED BY <2>4, <2>5
<1>2. CASE StoreCleanUp(j)
  <2>1. /\ jobs[j].at = "store_cleanup"
        /\ env' = [env EXCEPT ![t] = "free"]
        /\ envFile' = [envFile EXCEPT ![t] = "free"]
        /\ jobs' = [jobs EXCEPT ![j].at = "store_env", ![j].snap = record]
    BY <1>2 DEF StoreCleanUp, StoreEnvironment
  <2>2. UNCHANGED <<record, active, op, checkpoint, sent, disturbed, held,
                    runFile, gone, crashes, reconciles>>
    BY <1>2 DEF StoreCleanUp, JobFrame
  <2>3. Moved(j, "store_env", jobs[j].outcome)
    BY <2>1, Moves DEF JobAt, Completing
  <2>4. Typed'
    BY <2>1, <2>2, <2>3 DEF Environment, Moved
  <2>5. OwnStep(j)
    BY <1>0, <2>1, <2>2, <2>3 DEF OwnStep, Starting, Executing, Completing, Moved
  <2> QED BY <2>4, <2>5
<1>3. CASE StoreEnvInRun(j)
  <2>1. /\ jobs[j].at = "store_env"
        /\ runFile' = jobs[j].snap
        /\ jobs' = [jobs EXCEPT ![j].at = "store_result", ![j].snap = record]
    BY <1>3 DEF StoreEnvInRun
  <2>2. UNCHANGED <<record, env, active, op, checkpoint, sent, disturbed, held,
                    envFile, gone, crashes, reconciles>>
    BY <1>3 DEF StoreEnvInRun, JobFrame
  <2>3. Moved(j, "store_result", jobs[j].outcome) /\ jobs[j].snap \in Snapshots
    BY <2>1, Moves DEF JobAt, Completing, JobRecord, Snapshots
  <2>4. Typed'
    BY <2>1, <2>2, <2>3 DEF Moved
  <2>5. OwnStep(j)
    BY <1>0, <2>1, <2>2, <2>3 DEF OwnStep, Holding, Starting, Executing, Completing, Moved
  <2> QED BY <2>4, <2>5
<1>4. CASE HandOff(j)
  <2> DEFINE state == IF \/ record[t].state \in Terminal
                         \/ "handoff" \in record[t].reasons
                      THEN record[t].state ELSE "blocked"
             reasons == record[t].reasons \cup {"handoff"}
             posted == [record EXCEPT ![t] = [record[t] EXCEPT !.reasons = reasons,
                                                               !.state = state]]
  <2>1. /\ jobs[j].at = "handoff"
        /\ record' = IF jobs[j].outcome = "success" THEN record ELSE posted
        /\ jobs' = [jobs EXCEPT ![j].at = "store_handoff", ![j].snap = record']
    BY <1>4 DEF HandOff, Snapshots
  <2>2. UNCHANGED <<env, active, op, checkpoint, sent, disturbed, held, runFile,
                    envFile, gone, crashes, reconciles>>
    BY <1>4 DEF HandOff, JobFrame, disk
  <2>3. record[t] \in Record /\ state \in State /\ reasons \in SUBSET Reason
    BY <1>0 DEF Snapshots, Record, State, Reason
  <2>4. /\ [record[t] EXCEPT !.reasons = reasons, !.state = state] \in Record
        /\ [record[t] EXCEPT !.reasons = reasons, !.state = state].state = state
        /\ [record[t] EXCEPT !.reasons = reasons, !.state = state].attempts
             = record[t].attempts
    BY <2>3 DEF Record
  <2> HIDE DEF state, reasons
  <2>5. record' \in Snapshots
    BY <2>1, <2>4 DEF Snapshots
  <2>6. Moved(j, "store_handoff", jobs[j].outcome)
    BY <2>1, <2>5, Moves DEF JobAt, Completing
  <2>7. Typed'
    BY <2>2, <2>5, <2>6 DEF Moved
  <2>8. \/ state = record[t].state
        \/ /\ state = "blocked" /\ record[t].state \in State
           /\ record[t].state \notin Terminal
    BY <2>3 DEF state, Record
  <2>9. /\ record'[t].attempts = record[t].attempts
        /\ record'[t].state = record[t].state \/ record'[t].state = state
        /\ \A u \in Task \ {t} : record'[u] = record[u]
    BY <2>1, <2>4 DEF Snapshots
  <2>10. OwnStep(j)
    BY <1>0, <2>1, <2>2, <2>6, <2>8, <2>9 DEF OwnStep, Holding, Starting, Executing, Completing, Moved
  <2> QED BY <2>7, <2>10
<1> QED BY <1>1, <1>2, <1>3, <1>4

\* Published and scratch checkpoints, and missing ones, are not resumable.
LEMMA NotResumable == \A k \in {"none", "scratch", "result"} : ~Resumable(k)
BY DEF Resumable, HasResumeState

\* Steps of a slot on its own task keep the invariant.
LEMMA OwnStepKeeps ==
    ASSUME IInv, NEW j \in Job, OwnStep(j), Typed'
    PROVE  IInv'
<1> DEFINE t == jobs[j].task
<1>0. t \in Task /\ record[t].state # "none" /\ t \notin held /\ jobs[j].at # "free"
  BY DEF IInv, OwnStep, TasksAreKnown, Known, HeldAtRest
<1>1. Known(record)' = Known(record)
  BY <1>0 DEF OwnStep, Known
<1>2. TasksAreKnown'
  BY <1>0, <1>1 DEF IInv, OwnStep, TasksAreKnown
<1>3. BootIsAlone'
  BY <1>0 DEF IInv, OwnStep, BootIsAlone
<1>4. HeldAtRest'
  BY <1>0 DEF IInv, OwnStep, HeldAtRest, GatedIsHeld, Typed
<1>5. RunningIsActive'
  BY <1>0 DEF IInv, OwnStep, RunningIsActive
<1>6. OneStart'
  BY <1>0 DEF IInv, OwnStep, OneStart, Busy
<1>7. ExecutionCounts'
  <2> SUFFICES ASSUME NEW u \in Task \ disturbed, NEW i \in Job,
                      jobs'[i].at \in Executing, jobs'[i].task = u
               PROVE  /\ active'[u] = i
                      /\ jobs'[i].attempt = record'[u].attempts
                      /\ \/ record'[u].state = "running"
                         \/ /\ record'[u].state = "cancelled"
                            /\ env'[u] # "leased" \/ CancelFrees(u)'
    BY DEF ExecutionCounts, OwnStep
  <2>1. jobs[i].at \in Executing /\ jobs[i].task = u
    BY DEF OwnStep
  <2>2. u = t => i = j
    BY <1>0, <2>1 DEF IInv, OneStart, Busy, OwnStep, Executing
  <2>3. /\ active[u] = i
        /\ jobs[i].attempt = record[u].attempts
        /\ \/ record[u].state = "running"
           \/ /\ record[u].state = "cancelled"
              /\ env[u] # "leased" \/ CancelFrees(u)
    BY <2>1 DEF IInv, ExecutionCounts
  <2>4. CASE u = t
    BY <2>1, <2>2, <2>3, <2>4 DEF OwnStep, CancelFrees, Executing, Completing
  <2>5. CASE u # t
    BY <1>0, <2>3, <2>5 DEF OwnStep, CancelFrees
  <2> QED BY <2>4, <2>5
<1>8. LeaseHasHolder'
  <2>1. ASSUME NEW u \in Known(record) \ disturbed, env'[u] = "leased"
        PROVE  CancelFrees(u)' \/ \E i \in Job : jobs'[i].at \in Holding /\ jobs'[i].task = u
    <3>1. CASE u = t /\ jobs'[j].at \in {"store_lease", "launch"}
      BY <3>1 DEF OwnStep, Holding
    <3>2. CASE u = t /\ env'[t] = env[t] /\ (jobs[j].at \in Holding => jobs'[j].at \in Holding)
      BY <2>1, <3>2 DEF OwnStep, IInv, LeaseHasHolder, CancelFrees
    <3>3. CASE u # t
      BY <2>1, <3>3, <1>0 DEF OwnStep, IInv, LeaseHasHolder, CancelFrees, Known
    <3> QED BY <2>1, <3>1, <3>2, <3>3 DEF OwnStep
  <2> QED BY <1>1, <2>1 DEF LeaseHasHolder, OwnStep, IInv
<1>9. PublishedIsFinal'
  <2>1. ASSUME NEW u \in Task \ disturbed, sent[u] # {}
        PROVE  /\ ~Resumable(checkpoint'[u])
               /\ u \notin op.ready
               /\ \A i \in Job : jobs'[i].task = u => jobs'[i].at \in {"free", "schedule"}
               /\ ~(op.at = "store_delegate" /\ op.task = u)
    <3>1. u # t
      BY <2>1, <1>0 DEF OwnStep, IInv, PublishedIsFinal
    <3> QED BY <2>1, <3>1 DEF OwnStep, IInv, PublishedIsFinal
  <2>2. ASSUME NEW u \in Task \ disturbed, NEW i \in Job, jobs'[i].at = "send",
               jobs'[i].outcome # "paused", jobs'[i].task = u
        PROVE  ~Resumable(checkpoint'[u])
    <3>1. CASE i = j
      BY <2>2, <3>1, NotResumable DEF OwnStep
    <3>2. CASE i # j
      <4>1. jobs[i].at = "send" /\ jobs[i].outcome # "paused" /\ jobs[i].task = u
        BY <2>2, <3>2 DEF OwnStep
      <4>2. u # t
        BY <1>0, <3>2, <4>1 DEF IInv, OneStart, Busy
      <4> QED BY <4>1, <4>2, <1>0 DEF OwnStep, IInv, PublishedIsFinal
    <3> QED BY <3>1, <3>2
  <2>3. op.at \notin Boot \ {"boot_schedule"}
    BY <1>0 DEF IInv, BootIsAlone, Boot
  <2> QED BY <2>1, <2>2, <2>3 DEF OwnStep, IInv, PublishedIsFinal
<1>10. BlockedIsQuiet'
  <2>1. ASSUME NEW u \in Task \ disturbed, NEW i \in Job, Busy(i, u)'
        PROVE  /\ record'[u].state = "blocked" => Quiet(i)'
               /\ op.at \in Acknowledging /\ op.task = u => Quiet(i)'
               /\ jobs'[i].at \in Completing => Quiet(i)' \/ record'[u].state \in Terminal
    <3>1. Busy(i, u) /\ (u = t => i = j)
      BY <1>0, <2>1 DEF IInv, OneStart, Busy, OwnStep
    <3>2. /\ record[u].state = "blocked" => Quiet(i)
          /\ op.at \in Acknowledging /\ op.task = u => Quiet(i)
          /\ jobs[i].at \in Completing => Quiet(i) \/ record[u].state \in Terminal
      BY <3>1 DEF IInv, BlockedIsQuiet
    <3>3. Quiet(i) => Quiet(i)'
      BY <2>1 DEF OwnStep, Quiet
    <3>4. CASE u = t
      <4>1. i = j /\ (jobs'[i].at \in Completing <=> jobs[i].at \in Completing)
            /\ (record'[u].state = record[u].state \/
                    (jobs[i].at \in Completing /\ record[u].state \notin Terminal))
        BY <3>1, <3>4 DEF OwnStep
      <4> QED BY <3>2, <3>3, <4>1
    <3>5. CASE u # t
      <4>1. record'[u] = record[u] /\ jobs'[i].at = jobs[i].at
        BY <1>0, <3>1, <3>5 DEF OwnStep, Busy
      <4> QED BY <3>2, <3>3, <4>1
    <3> QED BY <3>4, <3>5
  <2>2. ASSUME NEW u \in Task \ disturbed, record'[u].state = "blocked"
        PROVE  u \notin op.ready /\ ~(op.at = "store_delegate" /\ op.task = u)
    <3>1. CASE u = t
      BY <1>0, <3>1 DEF IInv, OneStart, Busy
    <3>2. CASE u # t
      BY <1>0, <2>2, <3>2 DEF IInv, BlockedIsQuiet, OwnStep
    <3> QED BY <3>1, <3>2
  <2>3. op' = op /\ disturbed' = disturbed
    BY DEF OwnStep
  <2> QED BY <2>1, <2>2, <2>3 DEF BlockedIsQuiet
<1> QED BY <1>2, <1>3, <1>4, <1>5, <1>6, <1>7, <1>8, <1>9, <1>10 DEF IInv

-----------------------------------------------------------------------------
(* Steps with which a slot leaves its task *)

\* A start without an environment, a result that is ignored and a result that
\* is sent: nothing but the slot, active_tasks and the history changes.
Leaves(j) ==
    LET t == jobs[j].task
    IN  /\ jobs[j].at \in {"lease", "ended", "send"}
        /\ jobs'[j].at \in {"free", "schedule"}
        /\ jobs'[j].at = "schedule" => jobs'[j].task = t
        /\ jobs'[j].ready \subseteq jobs[j].ready
        /\ \A i \in Job \ {j} : jobs'[i] = jobs[i]
        /\ \A u \in Task \ {t} : active'[u] = active[u] /\ sent'[u] = sent[u]
        /\ active[t] = NoJob => active'[t] = NoJob
        /\ active'[t] = active[t] \/ Duplicate(t) \/ (Stale(j) /\ active[t] = j)
        /\ jobs[j].at = "ended" => Stale(j) \/ Duplicate(t)
        /\ sent'[t] = sent[t] \/ (jobs[j].at = "send" /\ jobs[j].outcome # "paused")
        /\ UNCHANGED <<record, env, checkpoint, op, disturbed, held>>

\* The steps that end an execution without a completion are Leaves steps.
LEMMA LeaveSteps ==
    ASSUME Typed, NEW j \in Job, jobs[j].task \in Known(record),
           \/ AcquireLease(j) /\ env[jobs[j].task] = "none"
           \/ Ignore(j)
           \/ SendResult(j)
    PROVE  Typed' /\ Leaves(j)
<1> USE DEF Typed
<1> DEFINE t == jobs[j].task
<1>0. t \in Task /\ jobs[j] \in JobRecord
  BY DEF Known
<1>1. Ends(j) => /\ jobs' \in [Job -> JobRecord]
                 /\ jobs'[j].at = "free"
                 /\ jobs'[j].ready = {}
                 /\ \A i \in Job \ {j} : jobs'[i] = jobs[i]
  <2> SUFFICES ASSUME Ends(j)
               PROVE  /\ jobs' \in [Job -> JobRecord] /\ jobs'[j] = Free
                      /\ \A i \in Job \ {j} : jobs'[i] = jobs[i]
    BY DEF Free
  <2> QED BY ConstantTypes DEF Ends
<1>2. CASE AcquireLease(j) /\ env[t] = "none"
  <2>1. jobs[j].at = "lease" /\ Ends(j)
        /\ UNCHANGED <<record, env, active, op, checkpoint, sent, disturbed, held,
                       runFile, envFile, gone, crashes, reconciles>>
    BY <1>2 DEF AcquireLease, JobFrame
  <2> QED BY <1>1, <2>1 DEF Leaves
<1>3. CASE Ignore(j)
  <2>1. /\ jobs[j].at = "ended" /\ Ends(j)
        /\ Stale(j) \/ Duplicate(t)
        /\ active' = [active EXCEPT ![t] = IF ~Stale(j) THEN NoJob
                                           ELSE IF @ = j THEN EndedJob ELSE @]
        /\ UNCHANGED <<record, env, op, checkpoint, sent, disturbed, held,
                       runFile, envFile, gone, crashes, reconciles>>
    BY <1>3 DEF Ignore, JobFrame, disk
  <2>2. active' \in [Task -> Job \cup {NoJob, EndedJob}]
    BY <1>0, <2>1
  <2>3. Typed'
    BY <1>1, <2>1, <2>2
  <2>4. /\ \A u \in Task \ {t} : active'[u] = active[u]
        /\ active'[t] = IF ~Stale(j) THEN NoJob
                        ELSE IF active[t] = j THEN EndedJob ELSE active[t]
    BY <1>0, <2>1
  <2>5. active[t] = NoJob => active'[t] = NoJob
    BY <2>4, RecoveryAssumption
  <2>6. active'[t] = active[t] \/ Duplicate(t) \/ (Stale(j) /\ active[t] = j)
    BY <2>1, <2>4
  <2>7. Leaves(j)
    BY <1>1, <2>1, <2>4, <2>5, <2>6 DEF Leaves
  <2> QED BY <2>3, <2>7
<1>4. CASE SendResult(j)
  <2>1. /\ jobs[j].at = "send"
        /\ sent' = [sent EXCEPT ![t] = IF jobs[j].outcome = "paused" THEN @
                                       ELSE @ \cup {jobs[j].attempt}]
        /\ Ends(j) \/ Going(j, "schedule")
        /\ UNCHANGED <<record, env, active, op, checkpoint, disturbed, held,
                       runFile, envFile, gone, crashes, reconciles>>
    BY <1>4 DEF SendResult, JobFrame, disk
  <2>2. jobs[j].attempt \in 0..MaxAttempts
    BY <1>0 DEF JobRecord
  <2>3. sent' \in [Task -> SUBSET (0..MaxAttempts)]
    BY <1>0, <2>1, <2>2
  <2>4. Going(j, "schedule") => Moved(j, "schedule", jobs[j].outcome)
    BY Moves DEF Going, JobAt, Completing
  <2>5. Typed'
    BY <1>1, <2>1, <2>3, <2>4 DEF Moved
  <2>6. \A u \in Task \ {t} : sent'[u] = sent[u]
    BY <2>1
  <2>7. sent'[t] = sent[t] \/ jobs[j].outcome # "paused"
    BY <1>0, <2>1
  <2>8. Leaves(j)
    BY <1>1, <2>1, <2>4, <2>6, <2>7 DEF Leaves, Moved
  <2> QED BY <2>5, <2>8
<1> QED BY <1>2, <1>3, <1>4

\* A result of the present attempt that the entry of active_tasks belongs to
\* is not stale.
LEMMA OwnResultCounts ==
    ASSUME Typed, NEW j \in Job,
           active[jobs[j].task] \in Job,
           jobs[active[jobs[j].task]].attempt = record[jobs[j].task].attempts,
           jobs[j].attempt = record[jobs[j].task].attempts
    PROVE  ~Stale(j)
BY RecoveryAssumption DEF Stale

\* An execution that leaves its task paused or cancelled keeps the invariant.
LEMMA LeavesKeeps ==
    ASSUME IInv, NEW j \in Job, Leaves(j), Typed'
    PROVE  IInv'
<1> DEFINE t == jobs[j].task
<1>0. t \in Task /\ record[t].state # "none" /\ t \notin held /\ jobs[j].at # "free"
  BY DEF IInv, Leaves, TasksAreKnown, Known, HeldAtRest
<1>1. Known(record)' = Known(record)
  BY DEF Leaves, Known
<1>2. TasksAreKnown'
  BY <1>0, <1>1 DEF IInv, Leaves, TasksAreKnown
<1>3. BootIsAlone'
  BY <1>0 DEF IInv, Leaves, BootIsAlone
<1>4. HeldAtRest'
  BY <1>0 DEF IInv, Leaves, HeldAtRest, GatedIsHeld
<1>5. RunningIsActive'
  <2> SUFFICES ASSUME NEW u \in Task, record[u].state = "running"
               PROVE  /\ active'[u] \in Job
                      /\ jobs'[active'[u]].at \in Executing
                      /\ jobs'[active'[u]].task = u
                      /\ jobs'[active'[u]].attempt = record[u].attempts
    BY DEF RunningIsActive, Leaves
  <2>1. /\ active[u] \in Job
        /\ jobs[active[u]].at \in Executing
        /\ jobs[active[u]].task = u
        /\ jobs[active[u]].attempt = record[u].attempts
    BY DEF IInv, RunningIsActive
  <2>2. ~Duplicate(u)
    BY DEF Duplicate, Terminal
  <2>3. active[u] # j
    <3>1. SUFFICES ASSUME active[u] = j PROVE FALSE
      OBVIOUS
    <3>2. u = t /\ jobs[j].at = "ended"
      BY <2>1, <3>1 DEF Leaves, Executing
    <3>3. ~Stale(j)
      BY <2>1, <3>1, <3>2, OwnResultCounts DEF IInv
    <3> QED BY <2>2, <3>2, <3>3 DEF Leaves
  <2>4. active'[u] = active[u]
    BY <2>2, <2>3 DEF Leaves
  <2> QED BY <2>1, <2>3, <2>4 DEF Leaves
<1>6. OneStart'
  BY <1>0 DEF IInv, Leaves, OneStart, Busy
<1>7. ExecutionCounts'
  <2> SUFFICES ASSUME NEW u \in Task \ disturbed, NEW i \in Job,
                      jobs'[i].at \in Executing, jobs'[i].task = u
               PROVE  active'[u] = i /\ i # j /\ jobs[i].at \in Executing /\ jobs[i].task = u
    BY DEF ExecutionCounts, Leaves, IInv, CancelFrees
  <2>1. i # j
    BY DEF Leaves, Executing
  <2>2. jobs[i].at \in Executing /\ jobs[i].task = u
    BY <2>1 DEF Leaves
  <2>3. u # t
    BY <1>0, <2>1, <2>2 DEF IInv, OneStart, Busy, Executing
  <2>4. active[u] = i
    BY <2>2 DEF IInv, ExecutionCounts
  <2> QED BY <2>1, <2>2, <2>3, <2>4 DEF Leaves
<1>8. LeaseHasHolder'
  <2> SUFFICES ASSUME NEW u \in Known(record) \ disturbed, env[u] = "leased", ~CancelFrees(u)
               PROVE  \E i \in Job : jobs'[i].at \in Holding /\ jobs'[i].task = u
    BY <1>1 DEF LeaseHasHolder, Leaves, IInv, CancelFrees
  <2>1. PICK i \in Job : jobs[i].at \in Holding /\ jobs[i].task = u
    BY DEF IInv, LeaseHasHolder
  <2>2. i # j
    <3>1. SUFFICES ASSUME i = j PROVE FALSE
      OBVIOUS
    <3>2. u = t /\ jobs[j].at = "ended" /\ u \in Task \ disturbed
      BY <2>1, <3>1 DEF Leaves, Holding, Executing, Known
    <3>3. /\ active[u] = j /\ jobs[j].attempt = record[u].attempts
          /\ record[u].state = "running"
      BY <3>2 DEF IInv, ExecutionCounts, Executing
    <3>4. ~Stale(j)
      BY <3>2, <3>3, OwnResultCounts DEF IInv
    <3>5. ~Duplicate(t)
      BY <3>2, <3>3 DEF Duplicate, Terminal
    <3> QED BY <3>2, <3>4, <3>5 DEF Leaves
  <2> QED BY <2>1, <2>2 DEF Leaves
<1>9. PublishedIsFinal'
  <2>1. ASSUME NEW u \in Task \ disturbed, sent'[u] # {}
        PROVE  /\ ~Resumable(checkpoint[u])
               /\ u \notin op.ready
               /\ \A i \in Job : jobs'[i].task = u => jobs'[i].at \in {"free", "schedule"}
               /\ ~(op.at = "store_delegate" /\ op.task = u)
    <3>1. CASE sent[u] # {}
      BY <2>1, <3>1 DEF Leaves, IInv, PublishedIsFinal
    <3>2. CASE sent[u] = {}
      <4>1. u = t /\ jobs[j].at = "send" /\ jobs[j].outcome # "paused"
        BY <2>1, <3>2 DEF Leaves
      <4>2. ~Resumable(checkpoint[u])
        BY <4>1 DEF IInv, PublishedIsFinal
      <4>3. /\ u \notin op.ready /\ ~(op.at = "store_delegate" /\ op.task = u)
            /\ \A i \in Job : jobs[i].task = u => i = j \/ jobs[i].at = "free"
        BY <4>1 DEF IInv, OneStart, Busy
      <4> QED BY <4>2, <4>3 DEF Leaves
    <3> QED BY <3>1, <3>2
  <2>2. ASSUME NEW u \in Task \ disturbed, NEW i \in Job, jobs'[i].at = "send",
               jobs'[i].outcome # "paused", jobs'[i].task = u
        PROVE  ~Resumable(checkpoint[u])
    BY <2>2 DEF Leaves, IInv, PublishedIsFinal
  <2>3. ASSUME NEW u \in Task \ disturbed, op.at = "acknowledge_checkpoint", sent'[u] # {}
        PROVE  ~Resumable(op.kept[u])
    <3>1. CASE sent[u] # {}
      BY <2>3, <3>1 DEF IInv, PublishedIsFinal
    <3>2. CASE sent[u] = {}
      <4>1. u = t /\ jobs[j].at = "send" /\ jobs[j].outcome # "paused"
        BY <2>3, <3>2 DEF Leaves
      <4>2. ~Quiet(j) /\ Busy(j, u)
        BY <4>1 DEF Quiet, Busy
      <4>3. op.task # u
        BY <2>3, <4>2 DEF IInv, BlockedIsQuiet, Acknowledging
      <4> QED BY <2>3, <4>3, NotResumable DEF IInv, PublishedIsFinal
    <3> QED BY <3>1, <3>2
  <2> QED BY <2>1, <2>2, <2>3 DEF Leaves, IInv, PublishedIsFinal
<1>10. BlockedIsQuiet'
  <2>1. \A u \in Task, i \in Job : Busy(i, u)' =>
            Busy(i, u) /\ (jobs'[i] = jobs[i] \/ Quiet(i)')
    BY DEF Leaves, Busy, Quiet
  <2>2. \A i \in Job : jobs'[i] = jobs[i] => (Quiet(i)' <=> Quiet(i))
    BY DEF Quiet
  <2>3. op' = op /\ record' = record /\ disturbed' = disturbed
    BY DEF Leaves
  <2> QED BY <2>1, <2>2, <2>3 DEF IInv, BlockedIsQuiet
<1> QED BY <1>2, <1>3, <1>4, <1>5, <1>6, <1>7, <1>8, <1>9, <1>10 DEF IInv

-----------------------------------------------------------------------------
(* Launches and completions *)

LEMMA LaunchKeeps ==
    ASSUME IInv, NEW j \in Job, Launch(j)
    PROVE  IInv'
<1> DEFINE t == jobs[j].task
           running == [record EXCEPT ![t] = [record[t] EXCEPT !.state = "running",
                                                              !.reasons = {}]]
           job == [jobs[j] EXCEPT !.at = "store_start", !.attempt = record[t].attempts,
                                  !.snap = running]
<1>0. /\ t \in Task /\ record[t].state # "none" /\ t \notin held
      /\ record[t] \in Record /\ jobs[j] \in JobRecord /\ jobs[j].at = "launch"
      /\ record[t].attempts \in 0..MaxAttempts
  BY DEF IInv, Launch, TasksAreKnown, Known, HeldAtRest, Typed, Snapshots, Record
<1>1. /\ record' = running
      /\ active' = [active EXCEPT ![t] = j]
      /\ jobs' = [jobs EXCEPT ![j] = job]
  BY <1>0 DEF Launch, IInv, Typed, Snapshots
<1>2. UNCHANGED <<env, op, checkpoint, sent, disturbed, held, runFile, envFile,
                  gone, crashes, reconciles>>
  BY DEF Launch, JobFrame
<1>3. running \in Snapshots
  BY <1>0, RecordUpdates DEF IInv, Typed, Snapshots, State
<1>4. /\ running[t].state = "running" /\ running[t].attempts = record[t].attempts
      /\ \A u \in Task \ {t} : running[u] = record[u]
  BY <1>0 DEF IInv, Typed, Snapshots, Record
<1> HIDE DEF running
<1>5. /\ job \in JobRecord /\ job.at = "store_start" /\ job.task = t
      /\ job.attempt = record[t].attempts /\ job.ready = jobs[j].ready
  BY <1>0, <1>3 DEF JobRecord, Executing, Snapshots
<1> HIDE DEF job
<1>6. /\ Typed'
      /\ jobs'[j] = job
      /\ \A i \in Job \ {j} : jobs'[i] = jobs[i]
      /\ active'[t] = j
      /\ \A u \in Task \ {t} : active'[u] = active[u]
  BY <1>0, <1>1, <1>2, <1>3, <1>5 DEF IInv, Typed
<1>7. Known(record)' = Known(record)
  BY <1>0, <1>1, <1>4 DEF Known
<1>8. TasksAreKnown'
  BY <1>0, <1>2, <1>5, <1>6, <1>7, RecoveryAssumption DEF IInv, TasksAreKnown, Known
<1>9. BootIsAlone' /\ op.at \notin Boot \ {"boot_schedule"}
  BY <1>0, <1>2 DEF IInv, BootIsAlone, Boot
<1>10. HeldAtRest'
  BY <1>0, <1>2, <1>5, <1>6 DEF IInv, HeldAtRest, GatedIsHeld
<1>11. RunningIsActive'
  BY <1>0, <1>1, <1>4, <1>5, <1>6 DEF IInv, RunningIsActive, Executing
<1>12. OneStart'
  BY <1>0, <1>2, <1>5, <1>6 DEF IInv, OneStart, Busy
<1>13. ExecutionCounts'
  <2> SUFFICES ASSUME NEW u \in Task \ disturbed, NEW i \in Job,
                      jobs'[i].at \in Executing, jobs'[i].task = u
               PROVE  /\ active'[u] = i
                      /\ jobs'[i].attempt = record'[u].attempts
                      /\ \/ record'[u].state = "running"
                         \/ /\ record'[u].state = "cancelled"
                            /\ env'[u] # "leased" \/ CancelFrees(u)'
    BY <1>2 DEF ExecutionCounts
  <2>1. CASE i = j
    BY <2>1, <1>1, <1>4, <1>5, <1>6
  <2>2. CASE i # j
    <3>1. jobs[i].at \in Executing /\ jobs[i].task = u
      BY <2>2, <1>6
    <3>2. u # t
      BY <1>0, <2>2, <3>1 DEF IInv, OneStart, Busy, Executing
    <3> QED BY <1>1, <1>2, <1>4, <1>6, <2>2, <3>1, <3>2 DEF IInv, ExecutionCounts, CancelFrees
  <2> QED BY <2>1, <2>2
<1>14. LeaseHasHolder'
  <2>1. \A i \in Job : jobs[i].at \in Holding =>
            jobs'[i].at \in Holding /\ jobs'[i].task = jobs[i].task
    BY <1>5, <1>6 DEF Holding, Executing
  <2> QED BY <1>2, <1>7, <2>1 DEF IInv, LeaseHasHolder, CancelFrees
<1>15. PublishedIsFinal'
  <2>1. t \notin disturbed => sent[t] = {}
    BY <1>0 DEF IInv, PublishedIsFinal
  <2> QED BY <1>0, <1>2, <1>5, <1>6, <1>9, <2>1 DEF IInv, PublishedIsFinal
<1>16. BlockedIsQuiet'
  <2>1. ~Quiet(j) /\ "store_start" \notin Completing
    BY <1>0 DEF Quiet, Completing
  <2>2. \A u \in Task, i \in Job : Busy(i, u)' =>
            Busy(i, u) /\ (i = j => u = t) /\ (i # j => jobs'[i] = jobs[i])
    BY <1>0, <1>5, <1>6 DEF Busy
  <2>3. \A i \in Job : jobs'[i] = jobs[i] => (Quiet(i)' <=> Quiet(i))
    BY DEF Quiet
  <2>4. \A u \in Task \ disturbed, i \in Job : i # j /\ Busy(i, u) => u # t
    BY <1>0 DEF IInv, OneStart, Busy
  <2>5. t \notin disturbed => ~(op.at \in Acknowledging /\ op.task = t)
    BY <1>0, <2>1 DEF IInv, BlockedIsQuiet, Busy
  <2>6. jobs'[j].at = "store_start" /\ record'[t].state = "running"
    BY <1>1, <1>4, <1>5, <1>6
  <2>7. \A u \in Task \ {t} : record'[u] = record[u]
    BY <1>1, <1>4
  <2>8. op' = op /\ disturbed' = disturbed
    BY <1>2
  <2>9. ASSUME NEW u \in Task \ disturbed, NEW i \in Job, Busy(i, u)'
        PROVE  /\ record'[u].state = "blocked" => Quiet(i)'
               /\ op.at \in Acknowledging /\ op.task = u => Quiet(i)'
               /\ jobs'[i].at \in Completing => Quiet(i)' \/ record'[u].state \in Terminal
    <3>1. CASE i = j
      BY <2>1, <2>2, <2>5, <2>6, <2>9, <3>1
    <3>2. CASE i # j
      <4>1. /\ u # t /\ record'[u] = record[u] /\ jobs'[i] = jobs[i]
            /\ Busy(i, u) /\ (Quiet(i)' <=> Quiet(i))
        BY <2>2, <2>3, <2>4, <2>7, <2>9, <3>2
      <4> QED BY <4>1 DEF IInv, BlockedIsQuiet
    <3> QED BY <3>1, <3>2
  <2>10. ASSUME NEW u \in Task \ disturbed, record'[u].state = "blocked"
         PROVE  u \notin op.ready /\ ~(op.at = "store_delegate" /\ op.task = u)
    BY <2>6, <2>7, <2>10 DEF IInv, BlockedIsQuiet
  <2> QED BY <2>8, <2>9, <2>10 DEF BlockedIsQuiet
<1> QED BY <1>6, <1>8, <1>9, <1>10, <1>11, <1>12, <1>13, <1>14, <1>15, <1>16 DEF IInv

\* The record that a completion writes, before it queues other tasks.
Finished(r, state) ==
    [r EXCEPT !.state = state, !.result = TRUE, !.finished = TRUE,
              !.reasons = CASE state = "blocked" -> {"pause"}
                            [] state = "completed" -> @
                            [] OTHER -> {}]

\* What a completion writes: one record, one slot, the lease of its task, and
\* the tasks that it unblocks.
LEMMA CompleteStep ==
    ASSUME Typed, NEW j \in Job, jobs[j].task \in Known(record), Complete(j)
    PROVE  LET t == jobs[j].task
           IN  /\ Typed'
               /\ jobs[j].at = "ended"
               /\ jobs'[j].at = "cleanup"
               /\ jobs'[j].task = t
               /\ jobs'[j].ready \subseteq Known(record)
               /\ jobs'[j].outcome = "paused" \/ record'[t].state \in Terminal
               /\ \A i \in Job \ {j} : jobs'[i] = jobs[i]
               /\ active' = [active EXCEPT ![t] = NoJob]
               /\ \A u \in Task : record'[u].attempts = record[u].attempts
               /\ \A u \in Task \ {t} : \/ record'[u].state = record[u].state
                                        \/ /\ record[u].state = "blocked"
                                           /\ record'[u].state = "queued"
               /\ record'[t].state \notin {"none", "running"}
               /\ UNCHANGED <<env, op, checkpoint, sent, disturbed, held>>
<1> USE DEF Typed
<1> DEFINE t     == jobs[j].task
           state == FinalState(jobs[j].outcome)
           done  == Finished(record[t], state)
           run   == [record EXCEPT ![t] = done]
           ready == Ready(run, IF state = "blocked" THEN {t} ELSE {})
           job   == [jobs[j] EXCEPT !.at = "cleanup", !.ready = ready]
<1>0. /\ t \in Task /\ record[t] \in Record /\ jobs[j] \in JobRecord
      /\ record[t].state # "none" /\ record[t].reasons \in SUBSET Reason
  BY DEF Known, Snapshots, Record
<1>1. /\ jobs[j].at = "ended"
      /\ active' = [active EXCEPT ![t] = NoJob]
      /\ record' = Requeued(run, ready)
      /\ jobs' = [jobs EXCEPT ![j] = job]
      /\ UNCHANGED <<env, op, checkpoint, sent, disturbed, held, runFile, envFile,
                     gone, crashes, reconciles>>
  <2>1. run = [record EXCEPT ![t].state = state, ![t].result = TRUE,
                             ![t].finished = TRUE,
                             ![t].reasons = CASE state = "blocked" -> {"pause"}
                                              [] state = "completed" -> @
                                              [] OTHER -> {}]
    BY <1>0 DEF Finished, Snapshots
  <2> HIDE DEF run, state
  <2>2. jobs' = [jobs EXCEPT ![j].at = "cleanup", ![j].ready = ready]
        /\ record' = Requeued(run, ready)
    BY <2>1 DEF Complete, state
  <2>3. jobs' = [jobs EXCEPT ![j] = job]
    BY <2>2
  <2> QED BY <2>2, <2>3 DEF Complete, JobFrame, disk
<1>2. /\ state \in {"completed", "failed", "blocked", "cancelled"}
      /\ state = "blocked" <=> jobs[j].outcome = "paused"
  BY DEF FinalState
<1> HIDE DEF state
<1>3. done \in Record /\ done.state = state /\ done.attempts = record[t].attempts
  <2> DEFINE reasons == CASE state = "blocked" -> {"pause"}
                          [] state = "completed" -> record[t].reasons
                          [] OTHER -> {}
  <2>1. reasons \in SUBSET Reason
    BY <1>0, <1>2 DEF Reason
  <2>2. done = [record[t] EXCEPT !.state = state, !.result = TRUE,
                                 !.finished = TRUE, !.reasons = reasons]
    BY <1>0 DEF Finished, Record
  <2> HIDE DEF reasons
  <2>3. state \in State
    BY <1>2 DEF State
  <2> QED BY <1>0, <2>1, <2>2, <2>3 DEF Record
<1> HIDE DEF done
<1>4. /\ run \in Snapshots /\ run[t] = done
      /\ \A u \in Task \ {t} : run[u] = record[u]
  BY <1>0, <1>3 DEF Snapshots
<1> HIDE DEF run
<1>5. /\ ready \subseteq Task
      /\ \A u \in ready : run[u].state = "blocked" /\ (u = t => state # "blocked")
  BY DEF Ready
<1> HIDE DEF ready
<1>6. /\ record' \in Snapshots
      /\ \A u \in Task : /\ record'[u].attempts = run[u].attempts
                         /\ record'[u].state = IF u \in ready THEN "queued"
                                               ELSE run[u].state
  <2>1. Requeued(run, ready) \in Snapshots
    BY <1>4, RunTypes
  <2>2. \A u \in Task : run[u] \in Record
    BY <1>4 DEF Snapshots
  <2>3. \A u \in Task :
          LET r == [run[u] EXCEPT !.state = "queued", !.reasons = {}]
          IN  r.attempts = run[u].attempts /\ r.state = "queued"
    BY <2>2 DEF Record
  <2>4. \A u \in Task :
          Requeued(run, ready)[u] = IF u \in ready
                                    THEN [run[u] EXCEPT !.state = "queued", !.reasons = {}]
                                    ELSE run[u]
    BY DEF Requeued
  <2> QED BY <1>1, <2>1, <2>3, <2>4
<1>7. /\ job \in JobRecord /\ job.at = "cleanup" /\ job.task = t /\ job.ready = ready
      /\ job.outcome = jobs[j].outcome
  BY <1>0, <1>5 DEF JobRecord, Completing
<1> HIDE DEF job
<1>8. Typed'
  BY <1>0, <1>1, <1>6, <1>7
<1>9. ready \subseteq Known(record)
  BY <1>0, <1>4, <1>5 DEF Known
<1>10. jobs'[j] = job /\ \A i \in Job \ {j} : jobs'[i] = jobs[i]
  BY <1>1
<1>11. \A u \in Task : record'[u].attempts = record[u].attempts
  BY <1>0, <1>3, <1>4, <1>6
<1>12. \A u \in Task \ {t} : \/ record'[u].state = record[u].state
                             \/ /\ record[u].state = "blocked"
                                /\ record'[u].state = "queued"
  BY <1>4, <1>5, <1>6
<1>13. record'[t].state = state
  BY <1>0, <1>3, <1>4, <1>5, <1>6
<1>14. /\ record'[t].state \notin {"none", "running"}
       /\ jobs'[j].outcome = "paused" \/ record'[t].state \in Terminal
  BY <1>2, <1>7, <1>10, <1>13 DEF Terminal
<1> QED BY <1>1, <1>7, <1>8, <1>9, <1>10, <1>11, <1>12, <1>14

\* A completion keeps the invariant.
LEMMA CompleteKeeps ==
    ASSUME IInv, NEW j \in Job, Complete(j)
    PROVE  IInv'
<1> DEFINE t == jobs[j].task
<1>0. /\ t \in Known(record) /\ t \in Task /\ t \notin held
      /\ jobs[j].at = "ended" /\ record[t].state # "none"
  BY DEF IInv, Complete, TasksAreKnown, Known, HeldAtRest
<1>1. /\ Typed'
      /\ jobs[j].at = "ended"
      /\ jobs'[j].at = "cleanup"
      /\ jobs'[j].task = t
      /\ jobs'[j].ready \subseteq Known(record)
      /\ jobs'[j].outcome = "paused" \/ record'[t].state \in Terminal
      /\ \A i \in Job \ {j} : jobs'[i] = jobs[i]
      /\ active' = [active EXCEPT ![t] = NoJob]
      /\ \A u \in Task : record'[u].attempts = record[u].attempts
      /\ \A u \in Task \ {t} : \/ record'[u].state = record[u].state
                               \/ /\ record[u].state = "blocked"
                                  /\ record'[u].state = "queued"
      /\ record'[t].state \notin {"none", "running"}
      /\ UNCHANGED <<env, op, checkpoint, sent, disturbed, held>>
  BY <1>0, CompleteStep DEF IInv
<1>2. Known(record)' = Known(record)
  BY <1>0, <1>1 DEF Known
<1>3. active'[t] = NoJob /\ \A u \in Task \ {t} : active'[u] = active[u]
  BY <1>0, <1>1 DEF IInv, Typed
<1>4. TasksAreKnown'
  BY <1>0, <1>1, <1>2, <1>3 DEF IInv, TasksAreKnown
<1>5. BootIsAlone' /\ op.at \notin Boot \ {"boot_schedule"}
  BY <1>0, <1>1 DEF IInv, BootIsAlone, Boot
<1>6. HeldAtRest'
  BY <1>0, <1>1 DEF IInv, HeldAtRest, GatedIsHeld
<1>7. RunningIsActive'
  BY <1>0, <1>1, <1>3 DEF IInv, RunningIsActive
<1>8. OneStart'
  BY <1>0, <1>1 DEF IInv, OneStart, Busy
<1>9. ExecutionCounts'
  <2> SUFFICES ASSUME NEW u \in Task \ disturbed, NEW i \in Job,
                      jobs'[i].at \in Executing, jobs'[i].task = u
               PROVE  /\ active'[u] = i
                      /\ jobs'[i].attempt = record'[u].attempts
                      /\ \/ record'[u].state = "running"
                         \/ /\ record'[u].state = "cancelled"
                            /\ env'[u] # "leased" \/ CancelFrees(u)'
    BY <1>1 DEF ExecutionCounts
  <2>1. i # j /\ jobs'[i] = jobs[i]
    BY <1>1 DEF Executing
  <2>2. u # t
    BY <1>0, <2>1 DEF IInv, OneStart, Busy, Executing
  <2> QED BY <1>1, <1>3, <2>1, <2>2 DEF IInv, ExecutionCounts, CancelFrees
<1>10. LeaseHasHolder'
  <2>1. \A i \in Job : jobs[i].at \in Holding =>
            jobs'[i].at \in Holding /\ jobs'[i].task = jobs[i].task
    BY <1>1 DEF Holding
  <2> QED BY <1>1, <1>2, <2>1 DEF IInv, LeaseHasHolder, CancelFrees
<1>11. PublishedIsFinal'
  <2>1. t \notin disturbed => sent[t] = {}
    BY <1>0 DEF IInv, PublishedIsFinal
  <2> QED BY <1>0, <1>1, <1>5, <2>1 DEF IInv, PublishedIsFinal
<1>12. BlockedIsQuiet'
  <2>1. ~Quiet(j) /\ "cleanup" \in Completing /\ "blocked" \notin Terminal
    BY <1>0 DEF Quiet, Completing, Terminal
  <2>2. \A i \in Job \ {j} : Quiet(i)' <=> Quiet(i)
    BY <1>1 DEF Quiet
  <2>3. Quiet(j)' \/ (record'[t].state \in Terminal)
    BY <1>1, <2>1 DEF Quiet
  <2>4. t \notin disturbed => /\ ~(op.at \in Acknowledging /\ op.task = t)
                              /\ t \notin op.ready
                              /\ ~(op.at = "store_delegate" /\ op.task = t)
    BY <1>0, <2>1 DEF IInv, BlockedIsQuiet, Busy, OneStart
  <2>5. \A u \in Task \ disturbed, i \in Job \ {j} : Busy(i, u) => u # t
    BY <1>0 DEF IInv, OneStart, Busy
  <2>6. \A u \in Task \ {t} :
          /\ record'[u].state = "blocked" => record[u].state = "blocked"
          /\ record[u].state \in Terminal => record'[u].state \in Terminal
    BY <1>1, <2>1
  <2>7. ASSUME NEW u \in Task \ disturbed, NEW i \in Job, Busy(i, u)'
        PROVE  /\ record'[u].state = "blocked" => Quiet(i)'
               /\ op.at \in Acknowledging /\ op.task = u => Quiet(i)'
               /\ jobs'[i].at \in Completing => Quiet(i)' \/ record'[u].state \in Terminal
    <3>1. CASE i = j
      <4>1. u = t
        BY <1>1, <2>7, <3>1 DEF Busy
      <4> QED BY <2>1, <2>3, <2>4, <3>1, <4>1
    <3>2. CASE i # j
      <4>1. Busy(i, u) /\ u # t /\ (Quiet(i)' <=> Quiet(i)) /\ jobs'[i] = jobs[i]
        BY <1>1, <2>2, <2>5, <2>7, <3>2 DEF Busy
      <4> QED BY <2>6, <4>1 DEF IInv, BlockedIsQuiet
    <3> QED BY <3>1, <3>2
  <2>8. ASSUME NEW u \in Task \ disturbed, record'[u].state = "blocked"
        PROVE  u \notin op.ready /\ ~(op.at = "store_delegate" /\ op.task = u)
    BY <2>4, <2>6, <2>8 DEF IInv, BlockedIsQuiet
  <2>9. op' = op /\ disturbed' = disturbed
    BY <1>1
  <2> QED BY <2>7, <2>8, <2>9 DEF BlockedIsQuiet
<1> QED BY <1>1, <1>4, <1>5, <1>6, <1>7, <1>8, <1>9, <1>10, <1>11, <1>12 DEF IInv

-----------------------------------------------------------------------------
(* Starts *)

\* A free slot is given to the start of a task.
NewStart(k, t) == jobs[k].at = "free" /\ jobs'[k] = Scheduled(t)

\* A slot given to a task holds it before its start.
LEMMA ScheduledSlot ==
    ASSUME NEW t
    PROVE  /\ Scheduled(t).at = "lease" /\ Scheduled(t).task = t
           /\ Scheduled(t).ready = {} /\ Free.at = "free"
           /\ "lease" \notin Executing /\ "lease" \notin Holding
BY DEF Scheduled, Free, Executing, Holding

\* The completion of a task starts another, in a slot of its own or in the one
\* it leaves.
LEMMA ScheduleKeeps ==
    ASSUME IInv, NEW j \in Job, Schedule(j)
    PROVE  IInv'
<1>0. PICK t \in jobs[j].ready, k \in Job :
        /\ jobs[j].at = "schedule"
        /\ k = j \/ jobs[k].at = "free"
        /\ \/ jobs' = [jobs EXCEPT ![k] = Scheduled(t)]
           \/ k # j /\ jobs' = [jobs EXCEPT ![k] = Scheduled(t),
                                            ![j].ready = jobs[j].ready \ {t}]
        /\ disturbed' = disturbed \cup {t}
        /\ held' = held \ {t}
        /\ UNCHANGED <<record, env, active, op, checkpoint, sent, runFile, envFile,
                       gone, crashes, reconciles>>
  BY DEF Schedule, disk, Free
<1>1. t \in Known(record) /\ t \in Task /\ Scheduled(t) \in JobRecord /\ k \in Job
  BY ConstantTypes DEF IInv, TasksAreKnown, Known
<1>2. /\ jobs' \in [Job -> JobRecord]
      /\ jobs'[k] = Scheduled(t)
      /\ \A i \in Job \ {k} : /\ jobs'[i].at = jobs[i].at
                              /\ jobs'[i].task = jobs[i].task
                              /\ jobs'[i].attempt = jobs[i].attempt
                              /\ jobs'[i].outcome = jobs[i].outcome
                              /\ jobs'[i].ready \subseteq jobs[i].ready
  <2>1. CASE jobs' = [jobs EXCEPT ![k] = Scheduled(t)]
    BY <1>1, <2>1 DEF IInv, Typed
  <2>2. CASE k # j /\ jobs' = [jobs EXCEPT ![k] = Scheduled(t),
                                           ![j].ready = jobs[j].ready \ {t}]
    <3> DEFINE job == [jobs[j] EXCEPT !.ready = jobs[j].ready \ {t}]
    <3>1. jobs \in [Job -> JobRecord] /\ jobs[j] \in JobRecord
      BY DEF IInv, Typed
    <3>2. /\ job \in JobRecord /\ job.at = jobs[j].at /\ job.task = jobs[j].task
          /\ job.attempt = jobs[j].attempt /\ job.outcome = jobs[j].outcome
          /\ job.ready \subseteq jobs[j].ready
      BY <3>1 DEF JobRecord
    <3>3. jobs' = [jobs EXCEPT ![k] = Scheduled(t), ![j] = job]
      BY <2>2, <3>1
    <3> HIDE DEF job
    <3> QED BY <1>1, <2>2, <3>1, <3>2, <3>3
  <2> QED BY <1>0, <2>1, <2>2
<1>3. Typed'
  BY <1>0, <1>1, <1>2 DEF IInv, Typed
<1>4. jobs[k].at \in {"free", "schedule"}
  BY <1>0
<1>5. Known(record)' = Known(record)
  BY <1>0
<1>6. TasksAreKnown'
  BY <1>0, <1>1, <1>2, <1>5, ScheduledSlot DEF IInv, TasksAreKnown
<1>7. BootIsAlone' /\ op.at \notin Boot \ {"boot_schedule"}
  BY <1>0, <1>2 DEF IInv, BootIsAlone, Boot
<1>8. HeldAtRest'
  BY <1>0, <1>1, <1>2, ScheduledSlot DEF IInv, HeldAtRest, GatedIsHeld
<1>9. RunningIsActive'
  BY <1>0, <1>2, <1>4 DEF IInv, RunningIsActive, Executing
<1>10. OneStart'
  <2>1. \A u \in Task \ disturbed', i \in Job : Busy(i, u)' => Busy(i, u)
    BY <1>0, <1>2, ScheduledSlot DEF Busy
  <2> QED BY <1>0, <2>1 DEF IInv, OneStart
<1>11. ExecutionCounts'
  <2>1. \A i \in Job : jobs'[i].at \in Executing => i # k
    BY <1>2, ScheduledSlot
  <2> QED BY <1>0, <1>2, <2>1 DEF IInv, ExecutionCounts, CancelFrees
<1>12. LeaseHasHolder'
  <2>1. \A i \in Job : jobs[i].at \in Holding =>
            jobs'[i].at \in Holding /\ jobs'[i].task = jobs[i].task
    BY <1>2, <1>4 DEF Holding, Executing
  <2> QED BY <1>0, <1>5, <2>1 DEF IInv, LeaseHasHolder, CancelFrees
<1>13. PublishedIsFinal'
  <2>1. \A i \in Job : jobs'[i].at = "send" => i # k
    BY <1>2, ScheduledSlot
  <2>2. jobs'[k].task \notin Task \ disturbed'
    BY <1>0, <1>2, ScheduledSlot
  <2> QED BY <1>0, <1>2, <1>7, <2>1, <2>2 DEF IInv, PublishedIsFinal
<1>14. BlockedIsQuiet'
  <2>1. \A u \in Task \ disturbed', i \in Job :
          Busy(i, u)' => /\ Busy(i, u) /\ (Quiet(i)' <=> Quiet(i))
                         /\ jobs'[i].at = jobs[i].at
    BY <1>0, <1>2, ScheduledSlot DEF Busy, Quiet
  <2> QED BY <1>0, <2>1 DEF IInv, BlockedIsQuiet
<1> QED BY <1>3, <1>6, <1>7, <1>8, <1>9, <1>10, <1>11, <1>12, <1>13, <1>14 DEF IInv

\* Every step of a slot keeps the invariant.
LEMMA JobStepKeeps ==
    ASSUME IInv, NEW j \in Job, JobStep(j)
    PROVE  IInv'
<1>1. ASSUME jobs[j].at # "free" PROVE jobs[j].task \in Known(record) /\ jobs[j].task \in Task
  BY <1>1 DEF IInv, TasksAreKnown, Known
<1>2. Typed
  BY DEF IInv
<1>3. CASE StoreLease(j) \/ (AcquireLease(j) /\ env[jobs[j].task] # "none")
  BY <1>1, <1>2, <1>3, StartSteps, OwnStepKeeps DEF StoreLease, AcquireLease
<1>4. CASE Stores(j)
  BY <1>1, <1>2, <1>4, StoreSteps, OwnStepKeeps DEF Stores, StoreRun
<1>5. CASE \/ StartCheckpoint(j) \/ BeforeTool(j) \/ AfterTool(j)
           \/ PauseSeen(j) \/ TerminalCheckpoint(j)
  BY <1>1, <1>2, <1>5, CheckpointSteps, OwnStepKeeps
  DEF StartCheckpoint, BeforeTool, AfterTool, PauseSeen, TerminalCheckpoint
<1>6. CASE Progress(j) \/ ExecutionEnds(j)
  BY <1>1, <1>2, <1>6, ExecutionSteps, OwnStepKeeps DEF Progress, ExecutionEnds
<1>7. CASE CleanUp(j) \/ StoreCleanUp(j) \/ StoreEnvInRun(j) \/ HandOff(j)
  BY <1>1, <1>2, <1>7, CompletionSteps, OwnStepKeeps
  DEF CleanUp, StoreCleanUp, StoreEnvInRun, HandOff
<1>8. CASE \/ AcquireLease(j) /\ env[jobs[j].task] = "none"
           \/ Ignore(j) \/ SendResult(j)
  BY <1>1, <1>2, <1>8, LeaveSteps, LeavesKeeps DEF AcquireLease, Ignore, SendResult
<1>9. CASE Launch(j)
  BY <1>9, LaunchKeeps
<1>10. CASE Complete(j)
  BY <1>10, CompleteKeeps
<1>11. CASE Schedule(j)
  BY <1>11, ScheduleKeeps
<1> QED BY <1>3, <1>4, <1>5, <1>6, <1>7, <1>8, <1>9, <1>10, <1>11 DEF JobStep

-----------------------------------------------------------------------------
(* Commands that start nothing *)

\* What most commands have in common: the tasks stay in their states, nothing
\* is leased, no checkpoint becomes resumable but by a copy written back.
QuietCommand ==
    /\ op.at \notin Boot /\ op'.at \notin Boot
    /\ op'.at \notin {"store_delegate", "cancel_cleanup"}
    /\ op'.at \in OfTask => op'.task \in Known(record)
    /\ op'.at \in StartsAgain => op.at \in StartsAgain /\ op'.task = op.task
    /\ op'.ready \subseteq op.ready
    /\ op'.at \in WritesBack => op.at \in WritesBack /\ op'.kept = op.kept
    /\ op'.at \in {"resume", "acknowledge"} =>
        \A u \in Task : u # op'.task => op'.kept[u] = "none"
    /\ op'.at = "acknowledge" => record[op'.task].state = "blocked"
    /\ op'.at = "acknowledge_checkpoint" =>
        /\ op.at = "acknowledge" /\ op'.task = op.task
        /\ \A u \in Task : /\ op'.kept[u] \in {"none", checkpoint[u]}
                           /\ u # op'.task => op'.kept[u] = "none"
    /\ \A i \in Job : /\ jobs'[i].at = jobs[i].at
                      /\ jobs'[i].task = jobs[i].task
                      /\ jobs'[i].attempt = jobs[i].attempt
                      /\ jobs'[i].outcome = jobs[i].outcome
                      /\ jobs'[i].ready = jobs[i].ready
    /\ \A t \in Task :
        /\ op'.envs[t] = "leased" => op.envs[t] = "leased"
        /\ op'.kept[t] \in {"none", op.kept[t], checkpoint[t]}
        /\ record'[t].state = record[t].state
        /\ record'[t].attempts = record[t].attempts
        /\ env'[t] = "leased" => \/ env[t] = "leased" /\ ~CancelFrees(t)
                                 \/ t \notin Known(record)
        /\ \/ checkpoint'[t] = checkpoint[t]
           \/ ~Resumable(checkpoint'[t])
           \/ /\ op.at \in WritesBack \cup {"acknowledge_checkpoint"}
              /\ checkpoint'[t] = op.kept[t]
    /\ UNCHANGED <<active, sent, disturbed, held>>

\* A block of a command that starts nothing keeps the invariant.
LEMMA QuietCommandKeeps ==
    ASSUME IInv, QuietCommand, Typed'
    PROVE  IInv'
<1>1. Known(record)' = Known(record)
  BY DEF QuietCommand, Known
<1>2. TasksAreKnown'
  BY <1>1 DEF IInv, QuietCommand, TasksAreKnown
<1>3. BootIsAlone'
  BY DEF QuietCommand, BootIsAlone
<1>4. HeldAtRest'
  <2>1. \A t \in held : ~Resumable(checkpoint'[t]) /\ ~Resumable(op'.kept[t])
    BY NotResumable DEF IInv, QuietCommand, HeldAtRest, Typed
  <2>2. op'.at \in WillStart => op'.task \notin held
    BY DEF IInv, QuietCommand, HeldAtRest, WillStart
  <2> QED BY <2>1, <2>2 DEF IInv, QuietCommand, HeldAtRest, GatedIsHeld
<1>5. RunningIsActive'
  BY DEF IInv, QuietCommand, RunningIsActive
<1>6. OneStart'
  BY DEF IInv, QuietCommand, OneStart, Busy
<1>7. ExecutionCounts'
  <2> SUFFICES ASSUME NEW t \in Task \ disturbed, NEW j \in Job,
                      jobs[j].at \in Executing, jobs[j].task = t
               PROVE  record[t].state = "running" \/ (record[t].state = "cancelled" /\ env'[t] # "leased")
    BY DEF IInv, QuietCommand, ExecutionCounts
  <2>1. t \in Known(record)
    BY DEF IInv, TasksAreKnown, Executing
  <2> QED BY <2>1 DEF IInv, QuietCommand, ExecutionCounts
<1>8. LeaseHasHolder'
  <2>1. ASSUME NEW t \in Known(record) \ disturbed, env'[t] = "leased"
        PROVE  \E j \in Job : jobs[j].at \in Holding /\ jobs[j].task = t
    BY <2>1 DEF IInv, QuietCommand, LeaseHasHolder, Known
  <2>2. \A j \in Job : jobs'[j].at = jobs[j].at /\ jobs'[j].task = jobs[j].task
    BY DEF QuietCommand
  <2> QED BY <1>1, <2>1, <2>2 DEF IInv, QuietCommand, LeaseHasHolder
<1>9. PublishedIsFinal'
  <2>1. \A t \in Task \ disturbed :
          \/ checkpoint'[t] = checkpoint[t]
          \/ ~Resumable(checkpoint'[t])
          \/ op.at = "acknowledge_checkpoint" /\ op.task = t /\ sent[t] = {}
    <3> SUFFICES ASSUME NEW t \in Task \ disturbed, checkpoint'[t] # checkpoint[t],
                        Resumable(checkpoint'[t])
                 PROVE  op.at = "acknowledge_checkpoint" /\ op.task = t /\ sent[t] = {}
      OBVIOUS
    <3>1. checkpoint'[t] = op.kept[t] /\ op.at \in WritesBack \cup {"acknowledge_checkpoint"}
      BY DEF QuietCommand
    <3>2. op.at = "acknowledge_checkpoint"
      BY <3>1, NotResumable DEF IInv, PublishedIsFinal
    <3>3. op.task = t
      BY <3>1, <3>2, NotResumable DEF IInv, PublishedIsFinal
    <3>4. sent[t] = {}
      BY <3>1, <3>2 DEF IInv, PublishedIsFinal
    <3> QED BY <3>2, <3>3, <3>4
  <2>2. op'.at \notin Boot \ {"boot_schedule"}
    BY DEF QuietCommand, Boot
  <2>3. \A t \in Task \ disturbed : op'.at \in WritesBack => op'.kept[t] = "none"
    BY DEF IInv, QuietCommand, PublishedIsFinal
  <2>4. ASSUME NEW t \in Task \ disturbed, NEW j \in Job, jobs[j].at = "send",
               jobs[j].outcome # "paused", jobs[j].task = t
        PROVE  ~Resumable(checkpoint'[t])
    <3>1. ~Quiet(j) /\ Busy(j, t)
      BY <2>4 DEF Quiet, Busy
    <3>2. ~(op.at = "acknowledge_checkpoint" /\ op.task = t)
      BY <3>1 DEF IInv, BlockedIsQuiet, Acknowledging
    <3> QED BY <2>1, <2>4, <3>2 DEF IInv, PublishedIsFinal
  <2>5. op'.at = "acknowledge_checkpoint" =>
          /\ \A t \in Task \ disturbed : sent[t] # {} => ~Resumable(op'.kept[t])
          /\ \A u \in Task : u # op'.task => op'.kept[u] = "none"
    <3> SUFFICES ASSUME op'.at = "acknowledge_checkpoint"
                 PROVE  /\ \A t \in Task \ disturbed : sent[t] # {} => ~Resumable(op'.kept[t])
                        /\ \A u \in Task : u # op'.task => op'.kept[u] = "none"
      OBVIOUS
    <3>1. \A u \in Task : /\ op'.kept[u] \in {"none", checkpoint[u]}
                          /\ u # op'.task => op'.kept[u] = "none"
      BY DEF QuietCommand
    <3>2. \A t \in Task \ disturbed : sent[t] # {} => ~Resumable(checkpoint[t])
      BY DEF IInv, PublishedIsFinal
    <3> QED BY <3>1, <3>2, NotResumable
  <2>6. ASSUME NEW t \in Task \ disturbed, sent[t] # {}
        PROVE  /\ ~Resumable(checkpoint'[t])
               /\ t \notin op'.ready
               /\ \A j \in Job : jobs[j].task = t => jobs[j].at \in {"free", "schedule"}
               /\ ~(op'.at = "store_delegate" /\ op'.task = t)
    BY <2>1, <2>6 DEF IInv, QuietCommand, PublishedIsFinal
  <2>7. \A j \in Job : /\ jobs'[j].at = jobs[j].at
                       /\ jobs'[j].task = jobs[j].task
                       /\ jobs'[j].outcome = jobs[j].outcome
    BY DEF QuietCommand
  <2>8. op'.at \in {"resume", "acknowledge"} => \A u \in Task : u # op'.task => op'.kept[u] = "none"
    BY DEF QuietCommand
  <2>9. sent' = sent /\ disturbed' = disturbed
    BY DEF QuietCommand
  <2> QED BY <2>2, <2>3, <2>4, <2>5, <2>6, <2>7, <2>8, <2>9 DEF PublishedIsFinal
<1>10. BlockedIsQuiet'
  <2>1. \A i \in Job, u \in Task : /\ Busy(i, u)' <=> Busy(i, u)
                                   /\ Quiet(i)' <=> Quiet(i)
                                   /\ jobs'[i].at = jobs[i].at
    BY DEF QuietCommand, Busy, Quiet
  <2>2. \A u \in Task : op'.at \in Acknowledging /\ op'.task = u =>
          record[u].state = "blocked" \/ (op.at \in Acknowledging /\ op.task = u)
    BY DEF QuietCommand, Acknowledging
  <2>3. /\ \A u \in Task : record'[u].state = record[u].state
        /\ op'.ready \subseteq op.ready /\ op'.at # "store_delegate"
        /\ disturbed' = disturbed
    BY DEF QuietCommand
  <2> QED BY <2>1, <2>2, <2>3 DEF IInv, BlockedIsQuiet
<1> QED BY <1>2, <1>3, <1>4, <1>5, <1>6, <1>7, <1>8, <1>9, <1>10 DEF IInv

\* The operator's slot when no command is under way.
LEMMA IdleFields ==
    /\ Idle \in OpRecord /\ Idle.at = "idle" /\ Idle.ready = {}
    /\ Idle.kept = NoCheckpoints /\ Idle.envs = NoEnvironments
    /\ \A t \in Task : NoCheckpoints[t] = "none" /\ NoEnvironments[t] = "none"
BY ConstantTypes DEF Idle, NoCheckpoints, NoEnvironments

\* Commands that end here.
LEMMA EndingCommands ==
    ASSUME IInv,
           \/ Store("store_cancel") \/ Store("store_acknowledged")
           \/ PrepareFails \/ RestartRefused
           \/ ResumeDecides /\ record[op.task].reasons \ {op.kept[op.task]} # {}
           \/ ReconciledCheckpoints
    PROVE  Typed' /\ QuietCommand
<1> USE DEF IInv, Typed
<1>0. /\ op' = Idle
      /\ op.at \in {"store_cancel", "store_acknowledged", "prepare", "retry", "resume",
                    "reconciled_checkpoints"}
      /\ UNCHANGED <<env, active, jobs, envFile, gone, crashes, reconciles, sent,
                     disturbed, held>>
  BY DEF Store, PrepareFails, RestartRefused, ResumeDecides, ReconciledCheckpoints,
         JobsFrame, OpFrame, disk
<1>1. /\ runFile' \in Snapshots
      /\ \/ UNCHANGED checkpoint
         \/ op.at = "reconciled_checkpoints" /\ checkpoint' = KeptWritten(op.kept)
  BY DEF Store, PrepareFails, RestartRefused, ResumeDecides, ReconciledCheckpoints, disk,
         OpRecord
<1>2. /\ record' \in Snapshots
      /\ \A t \in Task : /\ record'[t].state = record[t].state
                         /\ record'[t].attempts = record[t].attempts
  <2>1. CASE record' = record
    BY <2>1
  <2>2. CASE op.at = "resume" /\ record' = [record EXCEPT ![op.task].reasons =
                                  record[op.task].reasons \ {op.kept[op.task]}]
    <3> DEFINE left == record[op.task].reasons \ {op.kept[op.task]}
               r == [record[op.task] EXCEPT !.reasons = left]
    <3>1. op.task \in Task
      BY <2>2 DEF TasksAreKnown, OfTask, Known
    <3>2. record[op.task] \in Record /\ left \in SUBSET Reason
      BY <3>1 DEF Snapshots, Record
    <3>3. r \in Record /\ r.state = record[op.task].state
          /\ r.attempts = record[op.task].attempts
      BY <3>2 DEF Record
    <3>4. record' = [record EXCEPT ![op.task] = r]
      BY <2>2
    <3> HIDE DEF r
    <3> QED BY <3>1, <3>3, <3>4 DEF Snapshots
  <2> QED BY <2>1, <2>2
      DEF Store, PrepareFails, RestartRefused, ResumeDecides, ReconciledCheckpoints
<1>3. checkpoint' \in [Task -> Checkpoint]
      /\ \A t \in Task : \/ checkpoint'[t] = checkpoint[t]
                         \/ op.at \in WritesBack /\ checkpoint'[t] = op.kept[t]
  BY <1>1 DEF KeptWritten, WritesBack, OpRecord
<1>4. Typed'
  BY <1>0, <1>1, <1>2, <1>3, IdleFields
<1>5. \A t \in Task : ~CancelFrees(t)
  BY <1>0 DEF CancelFrees
<1>6. QuietCommand
  BY <1>0, <1>2, <1>3, <1>5, IdleFields
  DEF QuietCommand, Boot, OfTask, StartsAgain, WritesBack
<1> QED BY <1>4, <1>6

\* Commands that begin, and raise a token at most.
LEMMA BeginningCommands ==
    ASSUME IInv, NEW t \in Task,
           Restart(t) \/ Resume(t) \/ Pause(t) \/ Cancel(t) \/ Acknowledge(t)
    PROVE  Typed' /\ QuietCommand
<1> USE DEF IInv, Typed
<1>0. op = Idle /\ UNCHANGED <<record, env, active, runFile, envFile, gone, crashes,
                               reconciles, sent, disturbed, held>>
  BY DEF Restart, Resume, Pause, Cancel, Acknowledge, JobsFrame, OpFrame, disk
<1> DEFINE JobsKept ==
             /\ jobs' \in [Job -> JobRecord]
             /\ \A i \in Job : /\ jobs'[i].at = jobs[i].at
                               /\ jobs'[i].task = jobs[i].task
                               /\ jobs'[i].attempt = jobs[i].attempt
                               /\ jobs'[i].outcome = jobs[i].outcome
                               /\ jobs'[i].ready = jobs[i].ready
<1>1. JobsKept
  <2>1. CASE jobs' = jobs
    BY <2>1
  <2>2. ASSUME NEW j \in Job, NEW token \in {"paused", "cancelled"},
               jobs' = [jobs EXCEPT ![j].token = token]
        PROVE  JobsKept
    <3> DEFINE job == [jobs[j] EXCEPT !.token = token]
    <3>1. /\ job \in JobRecord /\ job.at = jobs[j].at /\ job.task = jobs[j].task
          /\ job.attempt = jobs[j].attempt /\ job.outcome = jobs[j].outcome
          /\ job.ready = jobs[j].ready
      BY DEF JobRecord
    <3>2. jobs' = [jobs EXCEPT ![j] = job]
      BY <2>2
    <3> HIDE DEF job
    <3> QED BY <3>1, <3>2
  <2> QED BY <2>1, <2>2 DEF Restart, Resume, Pause, Cancel, Acknowledge, JobsFrame
<1>2. /\ op' \in OpRecord
      /\ op'.at \in {"idle", "retry", "resume", "cancel", "acknowledge"}
      /\ op'.at # "idle" => op'.task = t /\ record[t].state # "none"
      /\ op'.at = "acknowledge" => record[t].state = "blocked"
      /\ op'.ready = {}
      /\ \A u \in Task : /\ op'.envs[u] = "none"
                         /\ op'.kept[u] \in {"none", checkpoint[u]}
                         /\ u # t => op'.kept[u] = "none"
  <2>0. {"retry", "cancel", "acknowledge"} \subseteq OpAt
    BY DEF OpAt, Handling
  <2>1. CASE Restart(t)
    <3>1. op' = [Idle EXCEPT !.at = "retry", !.task = t] /\ record[t].state # "none"
      BY <2>1 DEF Restart
    <3>2. /\ op' \in OpRecord /\ op'.at = "retry" /\ op'.task = t /\ op'.ready = {}
          /\ op'.kept = NoCheckpoints /\ op'.envs = NoEnvironments
      BY <2>0, <3>1, IdleFields DEF OpRecord, OpAt
    <3> QED BY <3>1, <3>2, IdleFields
  <2>2. CASE Resume(t)
    <3>1. NoCheckpoints \in [Task -> Checkpoint]
      BY ConstantTypes
    <3> DEFINE kept == [NoCheckpoints EXCEPT ![t] = checkpoint[t]]
    <3>2. kept \in [Task -> Checkpoint] /\ kept[t] = checkpoint[t]
          /\ \A u \in Task \ {t} : kept[u] = "none"
      BY <3>1, IdleFields
    <3>3. op' = [Idle EXCEPT !.at = "resume", !.task = t, !.kept = kept]
      BY <2>2, IdleFields DEF Resume, Idle
    <3> HIDE DEF kept
    <3>4. /\ op' \in OpRecord /\ op'.at = "resume" /\ op'.task = t
          /\ op'.kept = kept /\ op'.ready = {} /\ op'.envs = NoEnvironments
      BY <3>2, <3>3, IdleFields DEF OpRecord, Handling
    <3> QED BY <2>2, <3>2, <3>4, IdleFields DEF Resume
  <2>3. CASE Pause(t)
    BY <2>3, <1>0, IdleFields DEF Pause
  <2>4. CASE Cancel(t)
    <3>1. op' = [Idle EXCEPT !.at = "cancel", !.task = t] /\ record[t].state # "none"
      BY <2>4 DEF Cancel, TasksAreKnown, Known
    <3>2. /\ op' \in OpRecord /\ op'.at = "cancel" /\ op'.task = t /\ op'.ready = {}
          /\ op'.kept = NoCheckpoints /\ op'.envs = NoEnvironments
      BY <2>0, <3>1, IdleFields DEF OpRecord, OpAt
    <3> QED BY <3>1, <3>2, IdleFields
  <2>5. CASE Acknowledge(t)
    <3>1. op' = [Idle EXCEPT !.at = "acknowledge", !.task = t, !.snap = record]
          /\ record[t].state = "blocked"
      BY <2>5 DEF Acknowledge
    <3>2. /\ op' \in OpRecord /\ op'.at = "acknowledge" /\ op'.task = t
          /\ op'.ready = {} /\ op'.kept = NoCheckpoints /\ op'.envs = NoEnvironments
      BY <2>0, <3>1, IdleFields DEF OpRecord, OpAt
    <3> QED BY <3>1, <3>2, IdleFields
  <2> QED BY <2>1, <2>2, <2>3, <2>4, <2>5
<1>3. /\ checkpoint' \in [Task -> Checkpoint]
      /\ \A u \in Task : checkpoint'[u] = checkpoint[u] \/ ~Resumable(checkpoint'[u])
  <2>1. CASE checkpoint' = checkpoint
    BY <2>1
  <2>2. CASE checkpoint' = [checkpoint EXCEPT ![t] = IF @ = "none" THEN @ ELSE "scratch"]
    BY <2>2, NotResumable DEF Checkpoint
  <2> QED BY <2>1, <2>2 DEF Restart, Resume, Pause, Cancel, Acknowledge, disk
<1>4. Typed'
  BY <1>0, <1>1, <1>2, <1>3
<1>5. \A u \in Task : ~CancelFrees(u)
  BY <1>0, IdleFields DEF CancelFrees
<1>6. QuietCommand
  BY <1>0, <1>1, <1>2, <1>3, <1>5, IdleFields
  DEF QuietCommand, Boot, OfTask, StartsAgain, WritesBack, Known
<1> QED BY <1>4, <1>6

\* Commands that go on, and the reconciliation of live tasks but for its marks.
LEMMA ContinuingCommands ==
    ASSUME IInv,
           \/ Prepare \/ CancelCleanUp \/ CancelStore \/ ResumeCheckpoint
           \/ AcknowledgeRead \/ AcknowledgeWrite
           \/ Reconcile \/ StoreReconciled \/ ReconciledEnvs
    PROVE  Typed' /\ QuietCommand
<1> USE DEF IInv, Typed
<1>1. CASE Reconcile
  <2>1. /\ op.at = "idle"
        /\ reconciles' \in 0..MaxReconciles
        /\ op' = [Idle EXCEPT !.at = "reconcile", !.kept = checkpoint]
        /\ UNCHANGED <<record, env, active, jobs, runFile, envFile, checkpoint,
                       gone, crashes, sent, disturbed, held>>
    BY <1>1, IdleFields, RecoveryAssumption DEF Reconcile, JobsFrame, disk
  <2>2. /\ op' \in OpRecord /\ op'.at = "reconcile" /\ op'.kept = checkpoint
        /\ op'.envs = NoEnvironments /\ op'.ready = {}
    BY <2>1, IdleFields DEF OpRecord, Handling
  <2>3. Typed'
    BY <2>1, <2>2
  <2>4. QuietCommand
    BY <2>1, <2>2, IdleFields
    DEF QuietCommand, Boot, OfTask, StartsAgain, WritesBack, CancelFrees
  <2> QED BY <2>3, <2>4
<1>3. CASE AcknowledgeRead
  <2> DEFINE t == op.task
             kept == IF checkpoint[t] = "none" THEN op.kept
                     ELSE [op.kept EXCEPT ![t] = checkpoint[t]]
             at == IF checkpoint[t] = "none" THEN "store_acknowledged"
                   ELSE "acknowledge_checkpoint"
  <2>1. /\ op.at = "acknowledge" /\ t \in Known(record) /\ t \in Task
        /\ op' = [op EXCEPT !.at = at, !.kept = kept]
        /\ UNCHANGED <<record, env, active, jobs, runFile, envFile, checkpoint, gone,
                       crashes, reconciles, sent, disturbed, held>>
    BY <1>3 DEF AcknowledgeRead, JobsFrame, OpFrame, disk, TasksAreKnown, OfTask, Known,
                OpRecord
  <2>2. /\ kept \in [Task -> Checkpoint]
        /\ kept[t] \in {op.kept[t], checkpoint[t]}
        /\ \A u \in Task \ {t} : kept[u] = op.kept[u]
    BY <2>1 DEF OpRecord
  <2>3. at \in {"store_acknowledged", "acknowledge_checkpoint"}
        /\ at \in OpAt
    BY DEF OpAt, Handling
  <2>8. at = "acknowledge_checkpoint" => kept[t] = checkpoint[t]
    BY <2>1, <2>2 DEF OpRecord
  <2> HIDE DEF kept, at
  <2>4. /\ op' \in OpRecord /\ op'.at = at /\ op'.task = t /\ op'.kept = kept
        /\ op'.envs = op.envs /\ op'.ready = op.ready
    BY <2>1, <2>2, <2>3 DEF OpRecord, OpAt
  <2>5. \A u \in Task : u # t => op.kept[u] = "none"
    BY <2>1 DEF PublishedIsFinal
  <2>6. Typed'
    BY <2>1, <2>4
  <2>7. QuietCommand
    BY <2>1, <2>2, <2>3, <2>4, <2>5, <2>8
    DEF QuietCommand, Boot, OfTask, StartsAgain, WritesBack, CancelFrees
  <2> QED BY <2>6, <2>7
<1>2. ASSUME ~Reconcile, ~AcknowledgeRead
      PROVE  Typed' /\ QuietCommand
  <2>1. /\ \/ op.at = "prepare" /\ op'.at = "store_retry"
           \/ op.at = "cancel_store" /\ op'.at = "store_cancel"
           \/ op.at = "cancel_cleanup" /\ op'.at = "cancel_store"
           \/ op.at = "resume_checkpoint" /\ op'.at = "store_resume"
           \/ op.at = "acknowledge_checkpoint" /\ op'.at = "store_acknowledged"
           \/ op.at = "store_reconciled" /\ op'.at = "reconciled_envs"
           \/ op.at = "reconciled_envs" /\ op'.at = "reconciled_checkpoints"
        /\ op' \in OpRecord /\ op'.task = op.task /\ op'.kept = op.kept
        /\ op'.envs = op.envs /\ op'.ready = op.ready
    <3>1. CASE Prepare
      <4>1. op.at = "prepare" /\ op' = [op EXCEPT !.at = "store_retry", !.snap = record]
        BY <3>1 DEF Prepare
      <4> QED BY <4>1 DEF OpRecord, Handling
    <3>2. CASE CancelStore
      <4>1. op.at = "cancel_store" /\ op' = [op EXCEPT !.at = "store_cancel", !.snap = record]
        BY <3>2 DEF CancelStore
      <4> QED BY <4>1 DEF OpRecord, Handling
    <3>3. CASE CancelCleanUp
      <4>1. op.at = "cancel_cleanup" /\ op' = [op EXCEPT !.at = "cancel_store"]
        BY <3>3 DEF CancelCleanUp, OpGoes
      <4> QED BY <4>1 DEF OpRecord, Handling
    <3>4. CASE ResumeCheckpoint
      <4>1. op.at = "resume_checkpoint" /\ op' = [op EXCEPT !.at = "store_resume"]
        BY <3>4 DEF ResumeCheckpoint, OpGoes
      <4> QED BY <4>1 DEF OpRecord, Handling
    <3>5. CASE StoreReconciled
      <4>1. op.at = "store_reconciled" /\ op' = [op EXCEPT !.at = "reconciled_envs"]
        BY <3>5 DEF StoreReconciled, OpGoes
      <4> QED BY <4>1 DEF OpRecord, Handling
    <3>6. CASE ReconciledEnvs
      <4>1. op.at = "reconciled_envs" /\ op' = [op EXCEPT !.at = "reconciled_checkpoints"]
        BY <3>6 DEF ReconciledEnvs, OpGoes
      <4> QED BY <4>1 DEF OpRecord, Handling
    <3>7. CASE AcknowledgeWrite
      <4>1. /\ op.at = "acknowledge_checkpoint"
            /\ op' = [op EXCEPT !.at = "store_acknowledged"]
        BY <3>7 DEF AcknowledgeWrite, OpGoes
      <4> QED BY <4>1 DEF OpRecord, Handling
    <3> QED BY <1>2, <3>1, <3>2, <3>3, <3>4, <3>5, <3>6, <3>7
  <2>2. UNCHANGED <<record, active, jobs, crashes, reconciles, sent, disturbed, held>>
    BY <1>2 DEF Prepare, AcknowledgeWrite, CancelCleanUp, CancelStore, ResumeCheckpoint, StoreReconciled,
                ReconciledEnvs, JobsFrame, OpFrame
  <2>3. op.at \in OfTask => op.task \in Task
    BY DEF TasksAreKnown, Known
  <2>4. /\ runFile' \in Snapshots
        /\ gone' \subseteq Task
        /\ env' \in [Task -> Environment]
        /\ envFile' \in [Task -> Environment]
    BY <1>2, <2>3 DEF Prepare, AcknowledgeWrite, CancelCleanUp, CancelStore, ResumeCheckpoint,
         StoreReconciled, ReconciledEnvs, StoreEnvironment, Environment, disk, OpRecord
  <2>5. \A t \in Task :
          env'[t] = "leased" => \/ env[t] = "leased" /\ ~CancelFrees(t)
                                \/ t \notin Known(record)
    <3>1. CASE ReconciledEnvs
      BY <3>1 DEF ReconciledEnvs, LeaseHasHolder
    <3>2. CASE CancelCleanUp
      BY <2>3, <3>2 DEF CancelCleanUp, CancelFrees
    <3>3. CASE ~ReconciledEnvs /\ ~CancelCleanUp
      BY <1>2, <3>3 DEF Prepare, AcknowledgeWrite, CancelStore, ResumeCheckpoint, StoreReconciled,
                        StoreEnvironment, CancelFrees
    <3> QED BY <3>1, <3>2, <3>3
  <2>6. checkpoint' \in [Task -> Checkpoint]
        /\ \A t \in Task : \/ checkpoint'[t] = checkpoint[t]
                           \/ /\ op.at \in WritesBack \cup {"acknowledge_checkpoint"}
                              /\ checkpoint'[t] = op.kept[t]
    BY <1>2 DEF Prepare, AcknowledgeWrite, CancelCleanUp, CancelStore, ResumeCheckpoint, StoreReconciled,
                ReconciledEnvs, KeptWritten, WritesBack, OpRecord, disk
  <2>7. Typed'
    BY <2>1, <2>2, <2>4, <2>6
  <2>8. QuietCommand
    BY <2>1, <2>2, <2>5, <2>6
    DEF QuietCommand, Boot, TasksAreKnown, OfTask, StartsAgain, WritesBack
  <2> QED BY <2>7, <2>8
<1> QED BY <1>1, <1>2, <1>3

-----------------------------------------------------------------------------
(* Commands that will start their task *)

\* retry_task and resume_task_from_checkpoint queue the task, which the
\* operator has then started again.
Queues(t) ==
    /\ op.at \notin Boot
    /\ op'.at \in {"prepare", "resume_checkpoint"}
    /\ op'.task = t
    /\ op'.ready \subseteq op.ready
    /\ \A u \in Task :
        /\ op'.envs[u] = "leased" => op.envs[u] = "leased"
        /\ op'.kept[u] \in {"none", op.kept[u]}
        /\ u # t => op'.kept[u] = "none"
        /\ u # t => record'[u] = record[u]
    /\ record'[t].state = "queued"
    /\ ~CancelFrees(t)
    /\ disturbed' = disturbed \cup {t}
    /\ held' = held \ {t}
    /\ UNCHANGED <<env, active, jobs, checkpoint, sent>>

\* Queueing a task that nothing executes keeps the invariant.
LEMMA QueuesKeeps ==
    ASSUME IInv, NEW t \in Known(record), Queues(t), op.at # "cancel_cleanup", Typed'
    PROVE  IInv'
<1>0. t \in Task
  BY DEF Known
<1>1. Known(record)' = Known(record)
  BY <1>0 DEF Queues, Known
<1>2. TasksAreKnown'
  BY <1>1 DEF IInv, Queues, TasksAreKnown
<1>3. BootIsAlone'
  BY DEF Queues, BootIsAlone, Boot
<1>4. HeldAtRest'
  <2>1. \A u \in held' : ~Resumable(checkpoint[u]) /\ ~Resumable(op'.kept[u])
    BY NotResumable DEF IInv, Queues, HeldAtRest, Typed
  <2> QED BY <2>1 DEF IInv, Queues, HeldAtRest, GatedIsHeld
<1>5. RunningIsActive'
  BY <1>0 DEF IInv, Queues, RunningIsActive
<1>6. OneStart'
  BY <1>0 DEF IInv, Queues, OneStart, Busy, StartsAgain
<1>7. ExecutionCounts'
  BY <1>0 DEF IInv, Queues, ExecutionCounts, CancelFrees
<1>8. LeaseHasHolder'
  BY <1>0, <1>1 DEF IInv, Queues, LeaseHasHolder, CancelFrees, Known
<1>9. PublishedIsFinal'
  BY <1>0 DEF IInv, Queues, PublishedIsFinal, WritesBack, Boot
<1>10. BlockedIsQuiet'
  <2>1. \A i \in Job, u \in Task : /\ Busy(i, u)' <=> Busy(i, u)
                                   /\ Quiet(i)' <=> Quiet(i)
                                   /\ jobs'[i].at = jobs[i].at
    BY DEF Queues, Busy, Quiet
  <2>2. op'.at \notin Acknowledging \cup {"store_delegate"}
    BY DEF Queues, Acknowledging
  <2>3. /\ \A u \in Task \ disturbed' : u \notin disturbed /\ record'[u] = record[u]
        /\ op'.ready \subseteq op.ready
    BY DEF Queues
  <2> QED BY <2>1, <2>2, <2>3 DEF IInv, BlockedIsQuiet
<1> QED BY <1>2, <1>3, <1>4, <1>5, <1>6, <1>7, <1>8, <1>9, <1>10 DEF IInv

\* A retry queues its task.
LEMMA RequeueStep ==
    ASSUME IInv, NEW t \in Known(record), CanRetry(t), Requeue(t),
           op.at \in {"idle", "retry"}
    PROVE  IInv'
<1> USE DEF IInv, Typed
<1> DEFINE r == [NoRecord EXCEPT !.state = "queued", !.attempts = record[t].attempts + 1]
<1>0. t \in Task /\ record[t].attempts + 1 \in 0..MaxAttempts
  BY RecoveryAssumption DEF Known, CanRetry, Snapshots, Record
<1>1. r \in Record /\ r.state = "queued"
  BY <1>0, ConstantTypes DEF Record, State
<1> HIDE DEF r
<1>2. /\ record' = [record EXCEPT ![t] = r]
      /\ op' = [Idle EXCEPT !.at = "prepare", !.task = t]
      /\ disturbed' = disturbed \cup {t}
      /\ held' = held \ {t}
      /\ UNCHANGED <<env, active, jobs, runFile, envFile, checkpoint, gone, crashes,
                     reconciles, sent>>
  BY DEF Requeue, Excuses, JobsFrame, OpFrame, disk, r
<1>3. "prepare" \in OpAt
  BY DEF OpAt, Handling
<1>4. /\ op' \in OpRecord /\ op'.at = "prepare" /\ op'.task = t
      /\ op'.kept = NoCheckpoints /\ op'.envs = NoEnvironments /\ op'.ready = {}
  BY <1>0, <1>2, <1>3, IdleFields DEF OpRecord, OpAt
<1>5. record' \in Snapshots /\ record'[t] = r
      /\ \A u \in Task \ {t} : record'[u] = record[u]
  BY <1>0, <1>1, <1>2 DEF Snapshots
<1>6. Typed'
  BY <1>0, <1>2, <1>4, <1>5
<1>7. Queues(t)
  BY <1>1, <1>2, <1>4, <1>5, IdleFields DEF Queues, Boot, CancelFrees
<1> QED BY <1>6, <1>7, QueuesKeeps

\* A resumption with nothing left to wait for queues its task.
LEMMA ResumeDecidesStep ==
    ASSUME IInv, ResumeDecides, record[op.task].reasons \ {op.kept[op.task]} = {}
    PROVE  IInv'
<1> USE DEF IInv, Typed
<1> DEFINE t == op.task
           r == [record[t] EXCEPT !.reasons = {}, !.state = "queued",
                                  !.result = FALSE, !.finished = FALSE]
           queued == [record EXCEPT ![t] = r]
<1>0. op.at = "resume" /\ t \in Known(record) /\ t \in Task /\ record[t] \in Record
  BY DEF ResumeDecides, TasksAreKnown, OfTask, Known, Snapshots
<1>1. r \in Record /\ r.state = "queued"
  BY <1>0 DEF Record, State
<1>2. queued = [record EXCEPT ![t].reasons = {}, ![t].state = "queued",
                              ![t].result = FALSE, ![t].finished = FALSE]
  BY <1>0 DEF Snapshots
<1> HIDE DEF r
<1>3. queued \in Snapshots /\ queued[t] = r /\ \A u \in Task \ {t} : queued[u] = record[u]
  BY <1>0, <1>1 DEF Snapshots
<1> HIDE DEF queued
<1>4. /\ record' = queued
      /\ op' = [op EXCEPT !.at = "resume_checkpoint", !.snap = queued]
      /\ disturbed' = disturbed \cup {t}
      /\ held' = held \ {t}
      /\ UNCHANGED <<env, active, jobs, runFile, envFile, checkpoint, gone, crashes,
                     reconciles, sent>>
  BY <1>2 DEF ResumeDecides, Excuses, JobsFrame, OpFrame, disk
<1>5. "resume_checkpoint" \in OpAt
  BY DEF OpAt, Handling
<1>6. /\ op' \in OpRecord /\ op'.at = "resume_checkpoint" /\ op'.task = t
      /\ op'.kept = op.kept /\ op'.envs = op.envs /\ op'.ready = op.ready
  BY <1>3, <1>4, <1>5 DEF OpRecord, OpAt
<1>7. Typed'
  BY <1>0, <1>3, <1>4, <1>6
<1>8. Queues(t)
  BY <1>0, <1>1, <1>3, <1>4, <1>6
  DEF Queues, Boot, CancelFrees, PublishedIsFinal
<1> QED BY <1>0, <1>7, <1>8, QueuesKeeps

\* delegate_task: a new task, of which nothing is left from before.
LEMMA DelegateKeeps ==
    ASSUME IInv, NEW t \in Task, Delegate(t)
    PROVE  IInv'
<1> USE DEF IInv, Typed
<1> DEFINE r == [record[t] EXCEPT !.state = "queued"]
           queued == [record EXCEPT ![t] = r]
<1>0. /\ op = Idle /\ record[t].state = "none" /\ env[t] = "none"
      /\ checkpoint[t] = "none" /\ record[t] \in Record
  BY DEF Delegate, Snapshots
<1>1. r \in Record /\ r.state = "queued" /\ r.attempts = record[t].attempts
  BY <1>0 DEF Record, State
<1>2. queued = [record EXCEPT ![t].state = "queued"]
  BY <1>0 DEF Snapshots
<1> HIDE DEF r
<1>3. queued \in Snapshots /\ queued[t] = r /\ \A u \in Task \ {t} : queued[u] = record[u]
  BY <1>0, <1>1 DEF Snapshots
<1> HIDE DEF queued
<1>4. /\ record' = queued
      /\ env' = [env EXCEPT ![t] = "free"]
      /\ envFile' = [envFile EXCEPT ![t] = "free"]
      /\ op' = [Idle EXCEPT !.at = "store_delegate", !.task = t, !.snap = queued]
      /\ sent' = [sent EXCEPT ![t] = {}]
      /\ held' = held \ {t}
      /\ UNCHANGED <<active, jobs, runFile, checkpoint, gone, crashes, reconciles,
                     disturbed>>
  BY <1>2 DEF Delegate, StoreEnvironment, JobsFrame
<1>5. /\ op' \in OpRecord /\ op'.at = "store_delegate" /\ op'.task = t
      /\ op'.kept = NoCheckpoints /\ op'.envs = NoEnvironments /\ op'.ready = {}
  BY <1>3, <1>4, IdleFields DEF OpRecord, Handling
<1>6. Typed'
  BY <1>3, <1>4, <1>5 DEF Environment
<1>7. Known(record)' = Known(record) \cup {t} /\ t \notin Known(record)
  BY <1>0, <1>1, <1>3, <1>4 DEF Known
<1>8. \A j \in Job : ~Busy(j, t)
  BY <1>7 DEF TasksAreKnown, Busy
<1>9. TasksAreKnown'
  BY <1>4, <1>5, <1>7 DEF TasksAreKnown
<1>10. BootIsAlone'
  BY <1>5 DEF BootIsAlone, Boot
<1>11. HeldAtRest'
  BY <1>4, <1>5, IdleFields, NotResumable DEF HeldAtRest, GatedIsHeld
<1>12. RunningIsActive'
  BY <1>1, <1>3, <1>4 DEF RunningIsActive
<1>13. OneStart'
  BY <1>4, <1>5, <1>8 DEF OneStart, Busy, StartsAgain
<1>14. ExecutionCounts'
  BY <1>0, <1>3, <1>4, <1>5, <1>8, IdleFields DEF ExecutionCounts, CancelFrees, Busy, Executing
<1>15. LeaseHasHolder'
  BY <1>0, <1>4, <1>5, <1>7, IdleFields DEF LeaseHasHolder, CancelFrees
<1>16. PublishedIsFinal'
  BY <1>0, <1>4, <1>5, IdleFields DEF PublishedIsFinal, WritesBack, Boot
<1>17. BlockedIsQuiet'
  <2>1. \A i \in Job, u \in Task : /\ Busy(i, u)' <=> Busy(i, u)
                                   /\ Quiet(i)' <=> Quiet(i)
                                   /\ jobs'[i].at = jobs[i].at
    BY <1>4 DEF Busy, Quiet
  <2>2. record'[t].state = "queued" /\ \A u \in Task \ {t} : record'[u] = record[u]
    BY <1>1, <1>3, <1>4
  <2> QED BY <1>4, <1>5, <1>8, <2>1, <2>2 DEF BlockedIsQuiet, Acknowledging
<1> QED BY <1>6, <1>9, <1>10, <1>11, <1>12, <1>13, <1>14, <1>15, <1>16, <1>17

\* The second step of cancel_task marks the record.
LEMMA CancelMarkKeeps ==
    ASSUME IInv, CancelMark
    PROVE  IInv'
<1> USE DEF IInv, Typed
<1> DEFINE t == op.task
           r == [record[t] EXCEPT !.state = "cancelled", !.finished = TRUE]
<1>0. op.at = "cancel" /\ t \in Known(record) /\ t \in Task /\ record[t] \in Record
  BY DEF CancelMark, TasksAreKnown, OfTask, Known, Snapshots
<1>1. r \in Record /\ r.state = "cancelled" /\ r.attempts = record[t].attempts
  BY <1>0 DEF Record, State
<1>2. /\ record' = [record EXCEPT ![t] = r]
      /\ op' = [op EXCEPT !.at = "cancel_cleanup"]
      /\ UNCHANGED <<env, active, jobs, runFile, envFile, checkpoint, gone, crashes,
                     reconciles, sent, disturbed, held>>
  BY <1>0 DEF CancelMark, OpGoes, JobsFrame, OpFrame, disk, Snapshots
<1> HIDE DEF r
<1>3. record' \in Snapshots /\ record'[t] = r
      /\ \A u \in Task \ {t} : record'[u] = record[u]
  BY <1>0, <1>1, <1>2 DEF Snapshots
<1>4. /\ op' \in OpRecord /\ op'.at = "cancel_cleanup" /\ op'.task = op.task
      /\ op'.kept = op.kept /\ op'.envs = op.envs /\ op'.ready = op.ready
  BY <1>2 DEF OpRecord, Handling
<1>5. Typed'
  BY <1>2, <1>3, <1>4
<1>6. Known(record)' = Known(record)
  BY <1>0, <1>1, <1>3 DEF Known
<1>7. TasksAreKnown'
  BY <1>0, <1>2, <1>4, <1>6 DEF TasksAreKnown
<1>8. BootIsAlone'
  BY <1>4 DEF BootIsAlone, Boot
<1>9. HeldAtRest'
  BY <1>2, <1>4 DEF HeldAtRest, GatedIsHeld, WillStart, StartsAgain
<1>10. RunningIsActive'
  BY <1>1, <1>2, <1>3 DEF RunningIsActive
<1>11. OneStart'
  BY <1>2, <1>4 DEF OneStart, Busy, StartsAgain
<1>12. ExecutionCounts'
  BY <1>0, <1>1, <1>2, <1>3, <1>4 DEF ExecutionCounts, CancelFrees
<1>13. LeaseHasHolder'
  BY <1>0, <1>2, <1>4, <1>6 DEF LeaseHasHolder, CancelFrees
<1>14. PublishedIsFinal'
  BY <1>0, <1>2, <1>4 DEF PublishedIsFinal, WritesBack, Boot
<1>15. BlockedIsQuiet'
  <2>1. \A i \in Job, u \in Task : /\ Busy(i, u)' <=> Busy(i, u)
                                   /\ Quiet(i)' <=> Quiet(i)
                                   /\ jobs'[i].at = jobs[i].at
    BY <1>2 DEF Busy, Quiet
  <2>2. /\ record'[t].state = "cancelled" /\ "cancelled" \in Terminal
        /\ \A u \in Task \ {t} : record'[u] = record[u]
    BY <1>1, <1>3 DEF Terminal
  <2> QED BY <1>2, <1>4, <2>1, <2>2 DEF BlockedIsQuiet, Acknowledging
<1> QED BY <1>5, <1>7, <1>8, <1>9, <1>10, <1>11, <1>12, <1>13, <1>14, <1>15

\* Reconciliation blocks what was running and releases what was leased: a task
\* it changes is disturbed.
LEMMA ReconcileMarksKeeps ==
    ASSUME IInv, ReconcileMarks
    PROVE  IInv'
<1> USE DEF IInv, Typed
<1>1. /\ op.at = "reconcile"
      /\ op' = [ToWrite(record, env, op.kept) EXCEPT !.at = "store_reconciled"]
      /\ record' = op'.snap
      /\ env' = op'.envs
      /\ disturbed' = disturbed \cup {t \in Task : record'[t] # record[t]}
      /\ UNCHANGED <<active, jobs, runFile, envFile, checkpoint, gone, crashes,
                     reconciles, sent, held>>
  BY DEF ReconcileMarks, JobsFrame, OpFrame, disk
<1>2. op.kept \in [Task -> Checkpoint]
  BY DEF OpRecord
<1>3. /\ op' \in OpRecord /\ op'.at = "store_reconciled"
      /\ record' = ReconciledRun(record, env, op.kept)
      /\ env' = LeasesReleased(record, env)
      /\ op'.envs = LeasesReleased(record, env)
      /\ op'.kept = [t \in Task |-> IF record[t].state = "running"
                                    THEN op.kept[t] ELSE "none"]
      /\ op'.ready = {}
  <2> DEFINE w == ToWrite(record, env, op.kept)
  <2>1. /\ w \in OpRecord
        /\ w.snap = ReconciledRun(record, env, op.kept)
        /\ w.envs = LeasesReleased(record, env)
        /\ w.kept = [t \in Task |-> IF record[t].state = "running"
                                     THEN op.kept[t] ELSE "none"]
        /\ w.ready = {}
    BY <1>2, ToWriteType
  <2> HIDE DEF w
  <2>2. op' = [w EXCEPT !.at = "store_reconciled"]
    BY <1>1 DEF w
  <2>3. /\ op' \in OpRecord /\ op'.at = "store_reconciled" /\ op'.snap = w.snap
        /\ op'.envs = w.envs /\ op'.kept = w.kept /\ op'.ready = w.ready
    BY <2>1, <2>2 DEF OpRecord, Handling
  <2> QED BY <1>1, <2>1, <2>3
<1>4. /\ record' \in Snapshots /\ env' \in [Task -> Environment]
  BY <1>2, <1>3, RunTypes, EnvTypes
<1>5. Typed'
  BY <1>1, <1>3, <1>4
<1>6. \A t \in Task : /\ record'[t].attempts = record[t].attempts
                      /\ record'[t].state # "running"
                      /\ record'[t].state = "none" <=> record[t].state = "none"
  BY <1>2, <1>3, ReconciledFacts
<1>7. Known(record)' = Known(record)
  BY <1>6 DEF Known
<1>8. \A t \in Task : /\ env'[t] = "leased" => env[t] = "leased" /\ t \notin Known(record)
                      /\ op'.envs[t] = env'[t]
  BY <1>3 DEF LeasesReleased
<1>9. \A t \in Task \ disturbed' : record'[t] = record[t] /\ record[t].state # "running"
                                   /\ op'.kept[t] = "none"
  BY <1>1, <1>3, <1>6
<1>10. TasksAreKnown'
  BY <1>1, <1>3, <1>7 DEF TasksAreKnown, OfTask
<1>11. BootIsAlone'
  BY <1>3 DEF BootIsAlone, Boot
<1>12. HeldAtRest'
  BY <1>1, <1>3, NotResumable DEF HeldAtRest, GatedIsHeld, WillStart, StartsAgain
<1>13. RunningIsActive'
  BY <1>6 DEF RunningIsActive
<1>14. OneStart'
  BY <1>1, <1>3 DEF OneStart, Busy, StartsAgain
<1>15. ExecutionCounts'
  BY <1>1, <1>8, <1>9 DEF ExecutionCounts, CancelFrees
<1>16. LeaseHasHolder'
  <2>1. Known(record) \subseteq Task
    BY DEF Known
  <2> QED BY <1>7, <1>8, <2>1 DEF LeaseHasHolder
<1>17. PublishedIsFinal'
  BY <1>1, <1>3, <1>9 DEF PublishedIsFinal, Boot
<1>18. BlockedIsQuiet'
  <2>1. \A i \in Job, u \in Task : /\ Busy(i, u)' <=> Busy(i, u)
                                   /\ Quiet(i)' <=> Quiet(i)
                                   /\ jobs'[i].at = jobs[i].at
    BY <1>1 DEF Busy, Quiet
  <2> QED BY <1>1, <1>3, <1>9, <2>1 DEF BlockedIsQuiet, Acknowledging
<1> QED BY <1>5, <1>10, <1>11, <1>12, <1>13, <1>14, <1>15, <1>16, <1>17, <1>18

-----------------------------------------------------------------------------
(* Commands and restarts that start a task *)

\* A command ends with the start of its task, or a restart starts one of those
\* it resumes.
StartsTask(k, t) ==
    /\ NewStart(k, t)
    /\ \A i \in Job \ {k} : jobs'[i] = jobs[i]
    /\ t \in disturbed \/ sent[t] = {}
    /\ t \in disturbed \/ \A i \in Job : ~Busy(i, t)
    /\ t \in disturbed \/ record[t].state # "blocked"
    /\ op'.at \in {"idle", "boot_schedule"}
    /\ op'.ready \subseteq op.ready \ {t}
    /\ \A u \in Task :
        /\ op'.envs[u] = "leased" => op.envs[u] = "leased"
        /\ op'.kept[u] \in {"none", op.kept[u]}
        /\ ~CancelFrees(u)
    /\ UNCHANGED <<record, env, active, checkpoint, sent, disturbed, held>>

\* Giving a slot to a queued task keeps the invariant.
LEMMA StartsTaskKeeps ==
    ASSUME IInv, NEW k \in Job, NEW t \in Known(record), StartsTask(k, t),
           t \notin held, Typed'
    PROVE  IInv'
<1>0. t \in Task /\ jobs'[k].at = "lease" /\ jobs'[k].task = t /\ jobs'[k].ready = {}
      /\ jobs[k].at = "free"
  BY ScheduledSlot DEF Known, StartsTask, NewStart
<1>1. Known(record)' = Known(record)
  BY DEF StartsTask
<1>2. TasksAreKnown'
  BY <1>0, <1>1 DEF IInv, StartsTask, TasksAreKnown, OfTask
<1>3. BootIsAlone'
  BY DEF StartsTask, BootIsAlone, Boot
<1>4. HeldAtRest'
  <2>1. \A u \in held : ~Resumable(op'.kept[u])
    BY NotResumable DEF IInv, StartsTask, HeldAtRest, Typed
  <2> QED BY <1>0, <2>1 DEF IInv, StartsTask, HeldAtRest, GatedIsHeld, WillStart, StartsAgain
<1>5. RunningIsActive'
  BY <1>0 DEF IInv, StartsTask, RunningIsActive, Executing
<1>6. OneStart'
  BY <1>0 DEF IInv, StartsTask, OneStart, Busy, StartsAgain
<1>7. ExecutionCounts'
  BY <1>0 DEF IInv, StartsTask, ExecutionCounts, CancelFrees, Executing
<1>8. LeaseHasHolder'
  <2>1. \A i \in Job : jobs[i].at \in Holding => jobs'[i] = jobs[i]
    BY <1>0 DEF StartsTask, Holding, Executing
  <2>2. Known(record) \subseteq Task
    BY DEF Known
  <2> QED BY <1>1, <2>1, <2>2 DEF IInv, StartsTask, LeaseHasHolder
<1>9. PublishedIsFinal'
  BY <1>0 DEF IInv, StartsTask, PublishedIsFinal, WritesBack, Boot
<1>10. BlockedIsQuiet'
  <2>1. \A i \in Job \ {k}, u \in Task : /\ Busy(i, u)' <=> Busy(i, u)
                                         /\ Quiet(i)' <=> Quiet(i)
                                         /\ jobs'[i].at = jobs[i].at
    BY DEF StartsTask, Busy, Quiet
  <2>2. jobs'[k].at \notin Completing /\ \A u \in Task : Busy(k, u)' => u = t
    BY <1>0 DEF Busy, Completing
  <2>3. /\ record' = record /\ disturbed' = disturbed /\ op'.ready \subseteq op.ready
        /\ op'.at \notin Acknowledging \cup {"store_delegate"}
        /\ t \in disturbed \/ record[t].state # "blocked"
    BY DEF StartsTask, Acknowledging
  <2> QED BY <2>1, <2>2, <2>3 DEF IInv, BlockedIsQuiet
<1> QED BY <1>2, <1>3, <1>4, <1>5, <1>6, <1>7, <1>8, <1>9, <1>10 DEF IInv

\* The save of a command after which it starts its task keeps the invariant.
LEMMA StoreAndStartKeeps ==
    ASSUME IInv, NEW at \in {"store_delegate", "store_retry", "store_resume"},
           StoreAndStart(at)
    PROVE  IInv'
<1> USE DEF IInv, Typed
<1> DEFINE t == op.task
<1>0. /\ op.at = at /\ t \in Known(record) /\ t \in Task /\ t \notin held
  BY DEF StoreAndStart, TasksAreKnown, OfTask, Known, HeldAtRest, WillStart, StartsAgain
<1>1. PICK k \in Job : jobs[k] = Free /\ jobs' = [jobs EXCEPT ![k] = Scheduled(t)]
  BY DEF StoreAndStart, Started
<1>2. /\ op' = Idle /\ runFile' = op.snap
      /\ UNCHANGED <<record, env, active, envFile, checkpoint, gone, crashes, reconciles,
                     sent, disturbed, held>>
  BY DEF StoreAndStart, OpFrame
<1>3. Scheduled(t) \in JobRecord
  BY <1>0, ConstantTypes
<1>4. /\ jobs' \in [Job -> JobRecord] /\ jobs'[k] = Scheduled(t)
      /\ \A i \in Job \ {k} : jobs'[i] = jobs[i]
  BY <1>1, <1>3
<1>5. Typed'
  BY <1>2, <1>4, IdleFields DEF OpRecord
<1>6. \/ t \in disturbed
      \/ sent[t] = {} /\ (\A i \in Job : ~Busy(i, t)) /\ record[t].state # "blocked"
  BY <1>0 DEF OneStart, StartsAgain, PublishedIsFinal, BlockedIsQuiet
<1>7. StartsTask(k, t)
  BY <1>0, <1>1, <1>2, <1>4, <1>6, IdleFields, ScheduledSlot
  DEF StartsTask, NewStart, CancelFrees
<1> QED BY <1>0, <1>5, <1>7, StartsTaskKeeps

\* The start of a task by the restart keeps the invariant.
LEMMA BootScheduleKeeps ==
    ASSUME IInv, BootSchedule
    PROVE  IInv'
<1> USE DEF IInv, Typed
<1>0. /\ op.at = "boot_schedule"
      /\ UNCHANGED <<record, env, active, runFile, envFile, checkpoint, gone, crashes,
                     reconciles, sent, disturbed, held>>
  BY DEF BootSchedule, OpFrame, disk
<1>1. CASE op.ready = {}
  <2>1. op' = Idle /\ jobs' = jobs
    BY <1>1 DEF BootSchedule
  <2>2. Typed'
    BY <1>0, <2>1, IdleFields
  <2>3. Known(record)' = Known(record)
    BY <1>0
  <2>4. TasksAreKnown' /\ BootIsAlone'
    BY <1>0, <2>1, <2>3, IdleFields DEF TasksAreKnown, BootIsAlone, OfTask, Boot
  <2>5. HeldAtRest'
    BY <1>0, <2>1, IdleFields, NotResumable DEF HeldAtRest, GatedIsHeld, WillStart, StartsAgain
  <2>6. RunningIsActive' /\ OneStart' /\ ExecutionCounts'
    BY <1>0, <2>1, IdleFields
    DEF RunningIsActive, OneStart, ExecutionCounts, Busy, CancelFrees, StartsAgain
  <2>7. LeaseHasHolder'
    BY <1>0, <2>1, <2>3, IdleFields DEF LeaseHasHolder, CancelFrees
  <2>8. PublishedIsFinal'
    BY <1>0, <2>1, IdleFields DEF PublishedIsFinal, WritesBack, Boot
  <2>9. BlockedIsQuiet'
    BY <1>0, <2>1, IdleFields DEF BlockedIsQuiet, Quiet, Busy, Acknowledging
  <2> QED BY <2>2, <2>4, <2>5, <2>6, <2>7, <2>8, <2>9
<1>2. CASE op.ready # {}
  <2>1. PICK t \in op.ready : Started(t) /\ op' = [op EXCEPT !.ready = op.ready \ {t}]
    BY <1>2 DEF BootSchedule
  <2>2. t \in Known(record) /\ t \in Task /\ t \notin held
    BY DEF TasksAreKnown, Known, HeldAtRest, GatedIsHeld
  <2>3. PICK k \in Job : jobs[k] = Free /\ jobs' = [jobs EXCEPT ![k] = Scheduled(t)]
    BY <2>1 DEF Started
  <2>4. /\ op' \in OpRecord /\ op'.at = "boot_schedule" /\ op'.ready = op.ready \ {t}
        /\ op'.envs = op.envs /\ op'.kept = op.kept
    BY <1>0, <2>1 DEF OpRecord
  <2>5. Scheduled(t) \in JobRecord
    BY <2>2, ConstantTypes
  <2>6. /\ jobs' \in [Job -> JobRecord] /\ jobs'[k] = Scheduled(t)
        /\ \A i \in Job \ {k} : jobs'[i] = jobs[i]
    BY <2>3, <2>5
  <2>7. Typed'
    BY <1>0, <2>4, <2>6
  <2>8. \/ t \in disturbed
        \/ sent[t] = {} /\ (\A i \in Job : ~Busy(i, t)) /\ record[t].state # "blocked"
    BY <2>2 DEF OneStart, PublishedIsFinal, BlockedIsQuiet
  <2>9. StartsTask(k, t)
    BY <1>0, <2>3, <2>4, <2>6, <2>8, ScheduledSlot DEF StartsTask, NewStart, CancelFrees
  <2> QED BY <2>2, <2>7, <2>9, StartsTaskKeeps
<1> QED BY <1>1, <1>2

-----------------------------------------------------------------------------
(* Crashes and restarts *)

\* Files of their types, no checkpoint of which is a new one.
FilesLeft ==
    /\ runFile' \in Snapshots
    /\ envFile' \in [Task -> Environment]
    /\ checkpoint' \in [Task -> Checkpoint]
    /\ gone' \subseteq Task
    /\ \A t \in Task : checkpoint'[t] \in {checkpoint[t], "none"}

\* A crash may cut a write in two.
LEMMA TornTypes ==
    ASSUME Typed, Torn
    PROVE  FilesLeft
<1> USE DEF Typed, FilesLeft
<1>1. CASE UNCHANGED disk
  BY <1>1 DEF disk
<1>2. CASE runFile' = NoSnapshot /\ UNCHANGED <<envFile, checkpoint, gone>>
  BY <1>2, ConstantTypes
<1>3. ASSUME NEW t, envFile' = [envFile EXCEPT ![t] = "none"],
             UNCHANGED <<runFile, checkpoint, gone>>
      PROVE  FilesLeft
  BY <1>3 DEF Environment
<1>4. ASSUME NEW t, checkpoint' = [checkpoint EXCEPT ![t] = "none"],
             UNCHANGED <<runFile, envFile, gone>>
      PROVE  FilesLeft
  BY <1>4 DEF Checkpoint
<1> QED BY <1>1, <1>2, <1>3, <1>4 DEF Torn

\* A crash, in the middle of any write, leaves a state of the invariant.
LEMMA CrashKeeps ==
    ASSUME IInv, Crash
    PROVE  IInv'
<1> USE DEF IInv, Typed
<1>1. /\ record' = NoSnapshot
      /\ env' = NoEnvironments
      /\ active' = [t \in Task |-> NoJob]
      /\ jobs' = [j \in Job |-> Free]
      /\ op' = [Idle EXCEPT !.at = "down"]
      /\ crashes' \in 0..MaxCrashes
      /\ Torn
      /\ UNCHANGED <<reconciles, sent, disturbed, held>>
  BY RecoveryAssumption DEF Crash, history
<1>2. /\ op' \in OpRecord /\ op'.at = "down" /\ op'.kept = NoCheckpoints
      /\ op'.envs = NoEnvironments /\ op'.ready = {}
  BY <1>1, IdleFields DEF OpRecord, Boot
<1>3. Typed'
  BY <1>1, <1>2, TornTypes, ConstantTypes DEF FilesLeft
<1>4. \A t \in Task : checkpoint'[t] \in {checkpoint[t], "none"}
  BY <1>1, TornTypes DEF FilesLeft
<1>5. \A j \in Job : jobs'[j].at = "free" /\ jobs'[j].ready = {}
  BY <1>1 DEF Free
<1>6. \A t \in Task : record'[t].state = "none" /\ active'[t] = NoJob /\ env'[t] = "none"
  BY <1>1 DEF NoSnapshot, NoRecord, NoEnvironments
<1>7. TasksAreKnown' /\ BootIsAlone'
  BY <1>2, <1>5, <1>6 DEF TasksAreKnown, BootIsAlone, OfTask
<1>8. HeldAtRest'
  BY <1>1, <1>2, <1>4, <1>5, IdleFields, NotResumable
  DEF HeldAtRest, GatedIsHeld, WillStart, StartsAgain
<1>9. RunningIsActive' /\ OneStart' /\ ExecutionCounts'
  BY <1>2, <1>5, <1>6 DEF RunningIsActive, OneStart, ExecutionCounts, Busy, StartsAgain,
                          Executing
<1>10. LeaseHasHolder'
  BY <1>2, <1>6, IdleFields DEF LeaseHasHolder, Known
<1>11. PublishedIsFinal'
  BY <1>1, <1>2, <1>4, <1>5, IdleFields, NotResumable DEF PublishedIsFinal, WritesBack
<1>12. BlockedIsQuiet'
  BY <1>2, <1>5, <1>6 DEF BlockedIsQuiet, Busy, Acknowledging
<1> QED BY <1>3, <1>7, <1>8, <1>9, <1>10, <1>11, <1>12

\* Loading, and reconciliation in memory.
LEMMA LoadKeeps ==
    ASSUME IInv, Load
    PROVE  IInv'
<1> USE DEF IInv, Typed
<1>1. /\ op.at = "down"
      /\ op' = [ToWrite(runFile, envFile, checkpoint) EXCEPT !.at = "boot_runs"]
      /\ record' = op'.snap
      /\ env' = op'.envs
      /\ held' = held \cup {t \in Task : /\ runFile[t].state = "running"
                                         /\ checkpoint[t] = "gated"}
      /\ UNCHANGED <<active, jobs, runFile, envFile, checkpoint, gone, crashes,
                     reconciles, sent, disturbed>>
  BY DEF Load, BootFrame, JobsFrame, OpFrame
<1>2. /\ op' \in OpRecord /\ op'.at = "boot_runs"
      /\ record' = ReconciledRun(runFile, envFile, checkpoint)
      /\ env' = LeasesReleased(runFile, envFile)
      /\ op'.envs = LeasesReleased(runFile, envFile)
      /\ op'.kept = [t \in Task |-> IF runFile[t].state = "running"
                                    THEN checkpoint[t] ELSE "none"]
      /\ op'.ready = {}
  <2> DEFINE w == ToWrite(runFile, envFile, checkpoint)
  <2>1. /\ w \in OpRecord
        /\ w.snap = ReconciledRun(runFile, envFile, checkpoint)
        /\ w.envs = LeasesReleased(runFile, envFile)
        /\ w.kept = [t \in Task |-> IF runFile[t].state = "running"
                                     THEN checkpoint[t] ELSE "none"]
        /\ w.ready = {}
    BY ToWriteType
  <2> HIDE DEF w
  <2>2. op' = [w EXCEPT !.at = "boot_runs"]
    BY <1>1 DEF w
  <2>3. /\ op' \in OpRecord /\ op'.at = "boot_runs" /\ op'.snap = w.snap
        /\ op'.envs = w.envs /\ op'.kept = w.kept /\ op'.ready = w.ready
    BY <2>1, <2>2 DEF OpRecord, Boot
  <2> QED BY <1>1, <2>1, <2>3
<1>3. record' \in Snapshots /\ env' \in [Task -> Environment]
  BY <1>2, RunTypes, EnvTypes
<1>4. Typed'
  BY <1>1, <1>2, <1>3
<1>5. \A j \in Job : jobs[j].at = "free"
  BY <1>1 DEF BootIsAlone, Boot
<1>6. \A t \in Task : /\ record'[t].state # "running"
                      /\ record'[t].state = "none" <=> runFile[t].state = "none"
  BY <1>2, ReconciledFacts
<1>7. \A t \in Task : op'.envs[t] = "leased" => record'[t].state = "none"
  BY <1>2, <1>6 DEF LeasesReleased, Known
<1>8. TasksAreKnown' /\ BootIsAlone'
  <2>1. /\ \A j \in Job : jobs[j].ready = {}
        /\ \A t \in Task : active[t] = NoJob
    BY <1>1 DEF BootIsAlone, Boot
  <2> QED BY <1>1, <1>2, <1>5, <2>1 DEF TasksAreKnown, BootIsAlone, OfTask
<1>9. HeldAtRest'
  <2>1. \A t \in held' : ~Resumable(checkpoint[t]) /\ ~Resumable(op'.kept[t])
    BY <1>1, <1>2, NotResumable DEF HeldAtRest, Resumable, Disposition
  <2> QED BY <1>1, <1>2, <1>5, <2>1 DEF HeldAtRest, GatedIsHeld, WillStart, StartsAgain
<1>10. RunningIsActive' /\ OneStart' /\ ExecutionCounts'
  BY <1>1, <1>2, <1>5, <1>6
  DEF RunningIsActive, OneStart, ExecutionCounts, Busy, StartsAgain, Executing
<1>11. LeaseHasHolder'
  BY <1>1, <1>2, <1>7 DEF LeaseHasHolder, Known
<1>12. PublishedIsFinal'
  BY <1>1, <1>2, <1>5 DEF PublishedIsFinal, WritesBack
<1>13. BlockedIsQuiet'
  BY <1>1, <1>2, <1>5 DEF BlockedIsQuiet, Busy, Acknowledging
<1> QED BY <1>4, <1>8, <1>9, <1>10, <1>11, <1>12, <1>13

\* The writes of a restart.
LEMMA BootWritesKeep ==
    ASSUME IInv, \/ BootRuns \/ BootEnvs \/ BootCheckpoints \/ BootResumed
                 \/ BootResumedCheckpoints
    PROVE  IInv'
<1> USE DEF IInv, Typed
<1>1. /\ op.at \in {"boot_runs", "boot_envs", "boot_checkpoints", "boot_resumed",
                    "boot_resumed_checkpoints"}
      /\ UNCHANGED <<record, env, active, jobs, gone, crashes, reconciles, sent,
                     disturbed, held>>
  BY DEF BootRuns, BootEnvs, BootCheckpoints, BootResumed, BootResumedCheckpoints,
         BootFrame, JobsFrame, OpFrame
<1>2. /\ op' \in OpRecord
      /\ \/ op.at = "boot_runs" /\ op'.at = "boot_envs"
         \/ op.at = "boot_envs" /\ op'.at = "boot_checkpoints"
         \/ op.at = "boot_checkpoints" /\ op'.at = "boot_resume"
         \/ op.at = "boot_resumed" /\ op'.at = "boot_resumed_checkpoints"
         \/ op.at = "boot_resumed_checkpoints" /\ op'.at = "boot_schedule"
      /\ op'.ready = op.ready
      /\ \A t \in Task : /\ op'.envs[t] \in {op.envs[t], "none"}
                         /\ op'.kept[t] \in {op.kept[t], "none"}
  <2>1. CASE BootResumedCheckpoints
    <3>1. op.at = "boot_resumed_checkpoints" /\ op.ready \in SUBSET Task
          /\ op' = [Idle EXCEPT !.at = "boot_schedule", !.ready = op.ready]
      BY <2>1 DEF BootResumedCheckpoints, OpRecord
    <3>2. /\ op' \in OpRecord /\ op'.at = "boot_schedule" /\ op'.ready = op.ready
          /\ op'.envs = NoEnvironments /\ op'.kept = NoCheckpoints
      BY <3>1, IdleFields DEF OpRecord, Boot
    <3> QED BY <3>1, <3>2, IdleFields
  <2>2. CASE BootRuns
    <3>1. op.at = "boot_runs" /\ op' = [op EXCEPT !.at = "boot_envs"]
      BY <2>2 DEF BootRuns, OpGoes
    <3> QED BY <3>1 DEF OpRecord, Boot
  <2>3. CASE BootEnvs
    <3>1. op.at = "boot_envs" /\ op' = [op EXCEPT !.at = "boot_checkpoints"]
      BY <2>3 DEF BootEnvs, OpGoes
    <3> QED BY <3>1 DEF OpRecord, Boot
  <2>4. CASE BootCheckpoints
    <3>1. op.at = "boot_checkpoints" /\ op' = [op EXCEPT !.at = "boot_resume"]
      BY <2>4 DEF BootCheckpoints, OpGoes
    <3> QED BY <3>1 DEF OpRecord, Boot
  <2>5. CASE BootResumed
    <3>1. op.at = "boot_resumed" /\ op' = [op EXCEPT !.at = "boot_resumed_checkpoints"]
      BY <2>5 DEF BootResumed, OpGoes
    <3> QED BY <3>1 DEF OpRecord, Boot
  <2> QED BY <2>1, <2>2, <2>3, <2>4, <2>5
<1>3. /\ runFile' \in Snapshots
      /\ envFile' \in [Task -> Environment]
      /\ checkpoint' \in [Task -> Checkpoint]
      /\ \A t \in Task : checkpoint'[t] = checkpoint[t] \/ checkpoint'[t] = op.kept[t]
  BY DEF BootRuns, BootEnvs, BootCheckpoints, BootResumed, BootResumedCheckpoints,
         KeptWritten, OpRecord
<1>4. Typed'
  BY <1>1, <1>2, <1>3
<1>5. TasksAreKnown' /\ BootIsAlone'
  BY <1>1, <1>2 DEF TasksAreKnown, BootIsAlone, OfTask, Boot, Known
<1>6. HeldAtRest'
  <2>1. \A t \in held : ~Resumable(checkpoint'[t]) /\ ~Resumable(op'.kept[t])
    BY <1>2, <1>3, NotResumable DEF HeldAtRest
  <2> QED BY <1>1, <1>2, <2>1 DEF HeldAtRest, GatedIsHeld, WillStart, StartsAgain
<1>7. RunningIsActive' /\ OneStart' /\ ExecutionCounts'
  BY <1>1, <1>2
  DEF RunningIsActive, OneStart, ExecutionCounts, Busy, CancelFrees, StartsAgain
<1>8. LeaseHasHolder'
  <2>1. Known(record)' = Known(record) /\ Known(record) \subseteq Task
    BY <1>1 DEF Known
  <2> QED BY <1>1, <1>2, <2>1 DEF LeaseHasHolder, CancelFrees
<1>9. PublishedIsFinal'
  <2>1. \A t \in Task \ disturbed : op.kept[t] \in {"none", checkpoint[t]}
    BY <1>1 DEF PublishedIsFinal, Boot
  <2>2. \A t \in Task \ disturbed : \/ checkpoint'[t] = checkpoint[t]
                                    \/ checkpoint'[t] = "none"
    BY <1>3, <2>1
  <2>3. \A t \in Task \ disturbed : op'.kept[t] \in {"none", checkpoint'[t]}
    <3>1. \A t \in Task : \/ checkpoint'[t] = checkpoint[t]
                          \/ checkpoint'[t] = op.kept[t] /\ op.kept[t] # "none"
      BY DEF BootRuns, BootEnvs, BootCheckpoints, BootResumed, BootResumedCheckpoints,
             KeptWritten
    <3> QED BY <1>2, <2>1, <3>1
  <2> QED BY <1>1, <1>2, <2>2, <2>3, NotResumable DEF PublishedIsFinal, WritesBack
<1>10. BlockedIsQuiet'
  BY <1>1, <1>2 DEF BlockedIsQuiet, Quiet, Busy, Acknowledging
<1> QED BY <1>4, <1>5, <1>6, <1>7, <1>8, <1>9, <1>10

\* The restart queues what it resumes.
LEMMA BootResumeKeeps ==
    ASSUME IInv, BootResume
    PROVE  IInv'
<1> USE DEF IInv, Typed
<1> DEFINE ready == {t \in Task : /\ record[t].state = "blocked"
                                  /\ Resumable(checkpoint[t])}
           run == [t \in Task |->
                     IF t \in ready
                     THEN [record[t] EXCEPT !.state = "queued",
                                            !.reasons = @ \ {checkpoint[t]}]
                     ELSE record[t]]
           kept == [t \in Task |-> IF t \in ready THEN checkpoint[t] ELSE "none"]
<1>1. /\ op.at = "boot_resume"
      /\ record' = run
      /\ op' = [Idle EXCEPT !.at = "boot_resumed", !.snap = run, !.ready = ready,
                            !.kept = kept]
      /\ UNCHANGED <<env, active, jobs, runFile, envFile, checkpoint, gone, crashes,
                     reconciles, sent, disturbed, held>>
  BY DEF BootResume, BootFrame, JobsFrame, OpFrame
<1>2. \A t \in Task : run[t] \in Record /\ run[t].state = IF t \in ready THEN "queued"
                                                        ELSE record[t].state
  <2> SUFFICES ASSUME NEW t \in Task
               PROVE  /\ run[t] \in Record
                      /\ run[t].state = IF t \in ready THEN "queued" ELSE record[t].state
    OBVIOUS
  <2>1. record[t] \in Record /\ record[t].reasons \ {checkpoint[t]} \in SUBSET Reason
    BY DEF Snapshots, Record
  <2>2. LET r == [record[t] EXCEPT !.state = "queued",
                                   !.reasons = record[t].reasons \ {checkpoint[t]}]
        IN  r \in Record /\ r.state = "queued"
    BY <2>1 DEF Record, State
  <2> QED BY <2>1, <2>2
<1>3. run \in Snapshots
  BY <1>2 DEF Snapshots
<1>4. ready \in SUBSET Task /\ \A t \in ready : record[t].state = "blocked"
                                               /\ Resumable(checkpoint[t])
  OBVIOUS
<1>14. kept \in [Task -> Checkpoint]
       /\ \A t \in Task : kept[t] = "none" \/ (t \in ready /\ kept[t] = checkpoint[t])
  BY <1>4 DEF Checkpoint
<1> HIDE DEF run, ready, kept
<1>5. /\ op' \in OpRecord /\ op'.at = "boot_resumed" /\ op'.ready = ready
      /\ op'.envs = NoEnvironments /\ op'.kept = kept
  BY <1>1, <1>3, <1>4, <1>14, IdleFields DEF OpRecord, Boot
<1>6. Typed'
  BY <1>1, <1>3, <1>5
<1>7. Known(record)' = Known(record) /\ ready \subseteq Known(record)
  BY <1>1, <1>2, <1>4 DEF Known
<1>8. \A j \in Job : jobs[j].at = "free"
  BY <1>1 DEF BootIsAlone, Boot
<1>9. TasksAreKnown' /\ BootIsAlone'
  BY <1>1, <1>5, <1>7 DEF TasksAreKnown, BootIsAlone, OfTask, Boot
<1>10. HeldAtRest'
  BY <1>1, <1>4, <1>5, <1>14, IdleFields, NotResumable
  DEF HeldAtRest, GatedIsHeld, WillStart, StartsAgain
<1>11. RunningIsActive' /\ OneStart' /\ ExecutionCounts'
  BY <1>1, <1>2, <1>5, <1>8
  DEF RunningIsActive, OneStart, ExecutionCounts, Busy, StartsAgain, Executing
<1>12. LeaseHasHolder'
  <2>1. Known(record) \subseteq Task
    BY DEF Known
  <2> QED BY <1>1, <1>5, <1>7, <2>1, IdleFields DEF LeaseHasHolder, CancelFrees
<1>13. PublishedIsFinal'
  BY <1>1, <1>4, <1>5, <1>8, <1>14 DEF PublishedIsFinal, WritesBack
<1>15. BlockedIsQuiet'
  BY <1>1, <1>2, <1>5, <1>8 DEF BlockedIsQuiet, Busy, Acknowledging
<1> QED BY <1>6, <1>9, <1>10, <1>11, <1>12, <1>13, <1>15

-----------------------------------------------------------------------------
(* Theorems *)

LEMMA InitInv == Init => IInv
<1> SUFFICES ASSUME Init PROVE IInv
  OBVIOUS
<1>1. Typed
  BY ConstantTypes, RecoveryAssumption DEF Init, Typed
<1>2. /\ \A j \in Job : jobs[j].at = "free" /\ jobs[j].ready = {}
      /\ \A t \in Task : /\ record[t].state = "none" /\ env[t] = "none"
                         /\ active[t] = NoJob /\ sent[t] = {}
      /\ held = {}
      /\ op = Idle
  BY DEF Init, Free, NoSnapshot, NoRecord, NoEnvironments
<1>3. TasksAreKnown /\ BootIsAlone /\ HeldAtRest
  BY <1>2, IdleFields
  DEF TasksAreKnown, BootIsAlone, HeldAtRest, GatedIsHeld, OfTask, Boot
<1>4. RunningIsActive /\ OneStart /\ ExecutionCounts
  BY <1>2, IdleFields
  DEF RunningIsActive, OneStart, ExecutionCounts, Busy, StartsAgain, Executing
<1>5. LeaseHasHolder /\ PublishedIsFinal /\ BlockedIsQuiet
  BY <1>2, IdleFields
  DEF LeaseHasHolder, PublishedIsFinal, BlockedIsQuiet, Known, WritesBack, Boot, Busy,
      Acknowledging
<1> QED BY <1>1, <1>3, <1>4, <1>5 DEF IInv

\* Every block of every command keeps the invariant.
LEMMA CommandKeeps ==
    ASSUME IInv, (\E t \in Task : CommandBegins(t)) \/ CommandGoesOn
    PROVE  IInv'
<1>0. op.at \in {"retry", "resume"} => op.task \in Known(record)
  BY DEF IInv, TasksAreKnown, OfTask
<1>1. ASSUME NEW t \in Task, Delegate(t) PROVE IInv'
  BY <1>1, DelegateKeeps
<1>2. ASSUME NEW t \in Task, Retry(t) PROVE IInv'
  <2>1. t \in Known(record) /\ CanRetry(t) /\ Requeue(t) /\ op.at = "idle"
    BY <1>2, IdleFields DEF Retry, CanRetry, Known
  <2> QED BY <2>1, RequeueStep
<1>3. ASSUME NEW t \in Task,
             Restart(t) \/ Resume(t) \/ Pause(t) \/ Cancel(t) \/ Acknowledge(t)
      PROVE  IInv'
  BY <1>3, BeginningCommands, QuietCommandKeeps
<1>4. CASE \/ StoreAndStart("store_delegate") \/ StoreAndStart("store_retry")
           \/ StoreAndStart("store_resume")
  BY <1>4, StoreAndStartKeeps
<1>5. CASE \/ Store("store_cancel") \/ Store("store_acknowledged")
           \/ PrepareFails \/ RestartRefused \/ ReconciledCheckpoints
  BY <1>5, EndingCommands, QuietCommandKeeps
<1>6. CASE \/ Prepare \/ CancelCleanUp \/ CancelStore \/ ResumeCheckpoint
           \/ AcknowledgeRead \/ AcknowledgeWrite
           \/ Reconcile \/ StoreReconciled \/ ReconciledEnvs
  BY <1>6, ContinuingCommands, QuietCommandKeeps
<1>7. CASE RestartRetries
  BY <1>0, <1>7, RequeueStep DEF RestartRetries
<1>8. CASE ResumeDecides
  BY <1>8, EndingCommands, QuietCommandKeeps, ResumeDecidesStep
<1>9. CASE CancelMark
  BY <1>9, CancelMarkKeeps
<1>10. CASE ReconcileMarks
  BY <1>10, ReconcileMarksKeeps
<1> QED BY <1>1, <1>2, <1>3, <1>4, <1>5, <1>6, <1>7, <1>8, <1>9, <1>10
        DEF CommandBegins, CommandGoesOn

\* Every step keeps the invariant.
LEMMA NextInv == IInv /\ [Next]_vars => IInv'
<1> SUFFICES ASSUME IInv, [Next]_vars PROVE IInv'
  OBVIOUS
<1>1. ASSUME NEW j \in Job, JobStep(j) PROVE IInv'
  BY <1>1, JobStepKeeps
<1>2. CASE (\E t \in Task : CommandBegins(t)) \/ CommandGoesOn
  BY <1>2, CommandKeeps
<1>3. CASE Crash
  BY <1>3, CrashKeeps
<1>4. CASE Restarts
  BY <1>4, LoadKeeps, BootWritesKeep, BootResumeKeeps, BootScheduleKeeps DEF Restarts
<1>5. CASE UNCHANGED vars
  BY <1>5
  DEF vars, memory, disk, history, IInv, Typed, TasksAreKnown, BootIsAlone, HeldAtRest,
      GatedIsHeld, RunningIsActive, OneStart, ExecutionCounts, LeaseHasHolder,
      BlockedIsQuiet, Quiet, PublishedIsFinal, Known, Busy, CancelFrees
<1> QED BY <1>1, <1>2, <1>3, <1>4, <1>5 DEF Next

\* The invariant holds in every reachable state.
LEMMA Invariance == Spec => []IInv
BY InitInv, NextInv, PTL DEF Spec

\* Every block of a start, an execution, a completion, a command, a crash and a
\* restart keeps the types of the memory, the files and the copies of either
\* that are still to be written, and is about tasks of the run.
THEOREM TypeCorrect == Spec => []TypeOK
<1>1. IInv => TypeOK
  BY DEF IInv, TypeOK
<1> QED BY <1>1, Invariance, PTL

\* Whatever commands and crashes came before, a task that is running in memory
\* has the execution that will complete it (complete_task_execution).
THEOREM RunningTasksAreBacked == Spec => []RunningIsBacked
<1>1. IInv => RunningIsBacked
  BY DEF IInv, RunningIsActive, RunningIsBacked
<1> QED BY <1>1, Invariance, PTL

\* No lease of a task of the run outlives its holder, a crash before, after or
\* in the middle of any write included (reconcile_environment_record).
THEOREM LeasesAreHeld == Spec => []LeaseIsHeld
<1>1. IInv => LeaseIsHeld
  <2> SUFFICES ASSUME IInv, NEW t \in Known(record) \ disturbed, env[t] = "leased",
                      op.task # t
               PROVE  \E j \in Job :
                        /\ jobs[j].at \in {"store_lease", "launch", "cleanup"} \cup Executing
                        /\ jobs[j].task = t
    BY DEF LeaseIsHeld
  <2> QED BY DEF IInv, LeaseHasHolder, CancelFrees, Holding
<1> QED BY <1>1, Invariance, PTL

\* However many crashes follow, no restart starts a task that one of them has
\* found before a gated tool, unless somebody else has started it since
\* (prepare_resumable_tasks_from_checkpoints_sync).
THEOREM GatedTasksAreHeld == Spec => []GatedIsHeld
<1>1. IInv => GatedIsHeld
  BY DEF IInv, HeldAtRest
<1> QED BY <1>1, Invariance, PTL

\* No restart starts a task again whose result is out, whichever files are lost
\* or old, with all commands of the operator (delegated_terminal_checkpoint).
THEOREM PublishedTasksStayEnded == Spec => []PublishedStaysEnded
<1>1. IInv => PublishedStaysEnded
  BY DEF IInv, PublishedIsFinal, PublishedStaysEnded, Typed, OpRecord
<1> QED BY <1>1, Invariance, PTL
=============================================================================
