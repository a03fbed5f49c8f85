------------------------- MODULE OrchestratorProofs -------------------------
(***************************************************************************)
(* Theorems about Orchestrator, for every set of tasks, clients and        *)
(* execution slots, every dependency relation and every bound.             *)
(***************************************************************************)
EXTENDS Orchestrator, TLAPS

-----------------------------------------------------------------------------
(* Types of the values that the actions write *)

\* The fixed values that actions write have the types of their variables.
LEMMA ConstantTypes ==
    /\ NoEnv \in Env
    /\ NoGate \in Gate
    /\ NoExecution \in Execution
    /\ NoCall \in Call
    /\ NotActive \in Control
    /\ Undelegated \in Record
    /\ Prepared \subseteq Env
    /\ \A t \in Task : Starting(t) \in Execution
<1>1. NoEnv \in Env
  BY DEF NoEnv, Env, EnvState
<1>2. NoGate \in Gate
  BY DEF NoGate, Gate, ApprovalState, Scope
<1>3. NoExecution \in Execution
  BY <1>1 DEF NoExecution, Execution, ExecAt, Token, State
<1>4. NoCall \in Call
  BY <1>1 DEF NoCall, Call, CallAt
<1>5. NotActive \in Control
  BY DEF NotActive, Control
<1>6. Undelegated \in Record
  BY <1>2 DEF Undelegated, Record, State, Reason, Thread
<1>7. Prepared \subseteq Env
  <2> SUFFICES ASSUME NEW env \in Prepared PROVE env \in Env
    OBVIOUS
  <2>1. PICK s \in {"ready", "failed"} : env = [state |-> s, leased |-> FALSE]
    BY DEF Prepared
  <2> QED BY <2>1 DEF Env, EnvState
<1>8. \A t \in Task : Starting(t) \in Execution
  BY <1>3 DEF Starting, Execution, ExecAt
<1> QED BY <1>1, <1>2, <1>3, <1>4, <1>5, <1>6, <1>7, <1>8

\* Requests and decisions are gates.
LEMMA GateTypes ==
    /\ \A s \in Scope : Requested(s) \in Gate
    /\ \A s \in ApprovalState : Decided(s) \in Gate
    /\ \A gate \in Gate : ClearedGate(gate) \in Gate
BY ConstantTypes
DEF Requested, Decided, ClearedGate, Gate, ApprovalState, Scope

\* Every clean-up leaves an environment without a lease.
LEMMA CleanUpTypes ==
    ASSUME NEW t \in Task, NEW success \in BOOLEAN
    PROVE  Finalized(t, success) \subseteq Env
<1> SUFFICES ASSUME NEW env \in Finalized(t, success) PROVE env \in Env
  OBVIOUS
<1>1. PICK s \in CleanedStates(t, success) : env = [state |-> s, leased |-> FALSE]
  BY DEF Finalized
<1>2. s \in {"ready", "removed", "archived"}
  BY DEF CleanedStates
<1> QED BY <1>1, <1>2 DEF Env, EnvState

\* Queueing the ready tasks keeps the type of the records.
LEMMA RequeuedType ==
    ASSUME NEW ts \in [Task -> Record], NEW ready
    PROVE  Requeued(ts, ready) \in [Task -> Record]
BY DEF Requeued, Record, State, Reason

\* A start takes a free slot or, when the write before it fails, nothing.
LEMMA StartType ==
    ASSUME TypeOK, NEW t \in Task, Start(t)
    PROVE  /\ execs' \in [Exec -> Execution]
           /\ \A e \in Exec : execs'[e].at \notin {"idle", "schedule"}
                                => execs'[e].task \in Task
<1>1. CASE UNCHANGED execs
  BY <1>1 DEF TypeOK
<1>2. ASSUME NEW e \in FreeExecs, execs' = [execs EXCEPT ![e] = Starting(t)]
      PROVE  /\ execs' \in [Exec -> Execution]
             /\ \A f \in Exec : execs'[f].at \notin {"idle", "schedule"}
                                  => execs'[f].task \in Task
  <2>1. e \in Exec /\ Starting(t) \in Execution /\ Starting(t).task = t
    BY ConstantTypes DEF FreeExecs, Starting, NoExecution
  <2> QED BY <1>2, <2>1 DEF TypeOK
<1> QED BY <1>1, <1>2 DEF Start

\* The updates of a record that the commands make.
LEMMA RecordUpdates ==
    ASSUME NEW record \in Record, NEW state \in State, NEW gate \in Gate,
           NEW reasons \in SUBSET Reason
    PROVE  /\ [record EXCEPT !.state = state] \in Record
           /\ [record EXCEPT !.state = state, !.gate = gate] \in Record
           /\ [record EXCEPT !.state = state, !.reasons = reasons] \in Record
           /\ [record EXCEPT !.state = state, !.gate = gate, !.reasons = reasons]
                \in Record
BY DEF Record

\* An update of a call leaves its task alone.
LEMMA CallUpdates ==
    ASSUME NEW call \in Call, NEW at \in CallAt, NEW env \in Env
    PROVE  /\ [call EXCEPT !.at = at] \in Call
           /\ [call EXCEPT !.at = at].task = call.task
           /\ [call EXCEPT !.at = at, !.env = env] \in Call
           /\ [call EXCEPT !.at = at, !.env = env].task = call.task
BY DEF Call

\* A slot is given to an execution of a task, or emptied.
LEMMA ExecutionReplaced ==
    ASSUME TypeOK, NEW e \in Exec, NEW exec \in Execution,
           exec.at \notin {"idle", "schedule"} => exec.task \in Task,
           execs' = [execs EXCEPT ![e] = exec]
    PROVE  /\ execs' \in [Exec -> Execution]
           /\ \A f \in Exec : execs'[f].at \notin {"idle", "schedule"}
                                => execs'[f].task \in Task
BY DEF TypeOK

\* A record that is queued, or blocked by its dependencies, is a record.
LEMMA QueuedOrBlockedType ==
    ASSUME NEW record \in Record, NEW t \in Task
    PROVE  QueuedOrBlocked(record, t) \in Record
BY DEF QueuedOrBlocked, Record, State, Reason

\* approve_task writes a record.
LEMMA ApprovedRecordType ==
    ASSUME NEW record \in Record, NEW t \in Task
    PROVE  ApprovedRecord(t, record) \in Record
BY QueuedOrBlockedType, GateTypes
DEF ApprovedRecord, Record, State, Scope

\* retry_task writes a record.
LEMMA RetriedType ==
    ASSUME TypeOK, NEW t \in Task
    PROVE  Retried(t) \in Record
<1>1. Reset(tasks[t]) \in Record
  <2>1. tasks[t] \in Record /\ tasks[t].attempts + 1 \in Nat
    BY DEF TypeOK, Record
  <2> QED BY <2>1, ConstantTypes DEF Reset, Record
<1>2. Requested("pre_execution") \in Gate
  BY GateTypes DEF Scope
<1> QED BY <1>1, <1>2, QueuedOrBlockedType DEF Retried, Record, State

\* A completion writes a record, whatever the outcome.
LEMMA CompletedRecordType ==
    ASSUME TypeOK, NEW t \in Task, NEW outcome \in Outcome
    PROVE  CompletedRecord(t, outcome) \in Record
<1>1. tasks[t] \in Record /\ ClearedGate(tasks[t].gate) \in Gate
  BY GateTypes DEF TypeOK, Record
<1>2. Requested("review") \in Gate /\ Requested("test_validation") \in Gate
  BY GateTypes DEF Scope
<1> QED BY <1>1, <1>2 DEF CompletedRecord, Record, State, Reason, Outcome

\* A blocker keeps the type of the record it is posted on.
LEMMA WithBlockerType ==
    ASSUME NEW record \in Record, NEW reason \in Reason
    PROVE  WithBlocker(record, reason) \in Record
BY DEF WithBlocker, Record, State

\* A state that waits for a decision fixes the scope of the decision.
LEMMA ScopeOfType ==
    ASSUME NEW state, ScopeOf(state) # "none"
    PROVE  ScopeOf(state) \in Scope
BY DEF ScopeOf, Scope

-----------------------------------------------------------------------------
(* Type correctness *)

\* The orchestrator starts with well-typed state.
LEMMA InitType == Init => TypeOK
<1> SUFFICES ASSUME Init PROVE TypeOK
  OBVIOUS
<1>1. 0 \in 0..ResultCapacity
  BY BoundsAssumption
<1> QED BY <1>1, ConstantTypes DEF Init, TypeOK, NoExecution, NoCall

\* A command that an operator issues.
LEMMA OperatorType ==
    ASSUME TypeOK, NEW c \in Client, Operator(c)
    PROVE  TypeOK'
<1> PICK t \in Task :
        \/ Delegate(c, t)
        \/ \E actor \in ActorKind : Approve(c, t, actor) \/ Reject(c, t, actor)
        \/ Retry(c, t)
        \/ CancelRequest(c, t)
  BY DEF Operator
<1> USE DEF TypeOK
<1>1. CASE Delegate(c, t)
  <2>0. PICK env \in Prepared :
        LET failed  == env.state = "failed"
            waiting == ~DependenciesMet(tasks, t)
            state   == IF failed THEN "blocked"
                       ELSE IF t \in ApprovalRequired THEN "pending_approval"
                       ELSE IF waiting THEN "blocked" ELSE "queued"
            reasons == (IF waiting THEN {"dependency"} ELSE {})
                       \cup (IF failed THEN {"environment"} ELSE {})
            gate    == IF t \in ApprovalRequired THEN Requested("pre_execution")
                                                 ELSE NoGate
        IN  /\ envs' = [envs EXCEPT ![t] = env]
            /\ tasks' = [tasks EXCEPT ![t].state = state, ![t].gate = gate,
                                      ![t].reasons = reasons]
            /\ StartIf(state = "queued", t)
    BY <1>1 DEF Delegate
  <2>1. env \in Env
    BY ConstantTypes
  <2>2. NoGate \in Gate /\ Requested("pre_execution") \in Gate
    BY ConstantTypes, GateTypes DEF Scope
  <2>3. tasks' \in [Task -> Record]
    <3>1. PICK state \in State, gate \in Gate, reasons \in SUBSET Reason :
            tasks' = [tasks EXCEPT ![t].state = state, ![t].gate = gate,
                                   ![t].reasons = reasons]
      BY <2>0, <2>2 DEF State, Reason
    <3>2. [tasks[t] EXCEPT !.state = state, !.gate = gate, !.reasons = reasons] \in Record
      <4>1. tasks[t] \in Record
        OBVIOUS
      <4> QED BY <4>1, RecordUpdates
    <3> QED BY <3>1, <3>2
  <2>4. /\ execs' \in [Exec -> Execution]
        /\ \A e \in Exec : execs'[e].at \notin {"idle", "schedule"}
                             => execs'[e].task \in Task
    <3>1. Start(t) \/ UNCHANGED execs
      BY <2>0 DEF StartIf
    <3> QED BY <3>1, StartType
  <2> QED BY <1>1, <2>0, <2>1, <2>3, <2>4 DEF Delegate
<1>2. ASSUME NEW actor \in ActorKind, Approve(c, t, actor)
      PROVE  TypeOK'
  <2> DEFINE scope  == ScopeOf(tasks[t].state)
             record == ApprovedRecord(t, [tasks[t] EXCEPT !.gate = Decided("approved")])
  <2>1. [tasks[t] EXCEPT !.gate = Decided("approved")] \in Record
    BY GateTypes DEF Record, ApprovalState
  <2>2. record \in Record
    BY <2>1, ApprovedRecordType
  <2>3. scope \in Scope
    BY <1>2, ScopeOfType DEF Approve
  <2>4. tasks' = [tasks EXCEPT ![t] = record] /\ StartIf(record.state = "queued", t)
    BY <1>2 DEF Approve
  <2>5. tasks' \in [Task -> Record]
    BY <2>2, <2>4
  <2>6. granted' \in [Task -> SUBSET Scope]
    BY <1>2, <2>3 DEF Approve
  <2>7. /\ execs' \in [Exec -> Execution]
        /\ \A e \in Exec : execs'[e].at \notin {"idle", "schedule"}
                             => execs'[e].task \in Task
    <3>1. Start(t) \/ UNCHANGED execs
      BY <2>4 DEF StartIf
    <3> QED BY <3>1, StartType
  <2>8. [NoCall EXCEPT !.at = "cleanup", !.task = t, !.success = TRUE] \in Call
    BY ConstantTypes DEF Call, CallAt
  <2>9. /\ calls' \in [Client -> Call]
        /\ \A d \in Client : calls'[d].at # "idle" => calls'[d].task \in Task
        /\ succeeded' \in SUBSET Task
    <3>1. CASE record.state = "completed"
      <4>1. /\ succeeded' = succeeded \cup {t}
            /\ calls' = [calls EXCEPT ![c] = [NoCall EXCEPT
                            !.at = "cleanup", !.task = t, !.success = TRUE]]
        BY <1>2, <3>1 DEF Approve
      <4> QED BY <4>1, <2>8 DEF NoCall
    <3>2. CASE record.state # "completed"
      BY <1>2, <3>2 DEF Approve
    <3> QED BY <3>1, <3>2
  <2> QED BY <1>2, <2>5, <2>6, <2>7, <2>9 DEF Approve
<1>3. ASSUME NEW actor \in ActorKind, Reject(c, t, actor)
      PROVE  TypeOK'
  <2>1. Decided("needs_revision") \in Gate
    BY GateTypes DEF ApprovalState
  <2>2. tasks' \in [Task -> Record]
    <3>1. [tasks[t] EXCEPT !.state = "failed", !.gate = Decided("needs_revision")]
            \in Record
      <4>1. tasks[t] \in Record /\ "failed" \in State
        BY DEF State
      <4> QED BY <2>1, <4>1, RecordUpdates
    <3> QED BY <1>3, <3>1 DEF Reject
  <2>3. [NoCall EXCEPT !.at = "cleanup", !.task = t] \in Call
    BY ConstantTypes DEF Call, CallAt
  <2>4. /\ calls' \in [Client -> Call]
        /\ \A d \in Client : calls'[d].at # "idle" => calls'[d].task \in Task
    BY <1>3, <2>3 DEF Reject, NoCall
  <2> QED BY <1>3, <2>2, <2>4 DEF Reject
<1>4. CASE Retry(c, t)
  <2>1. tasks' \in [Task -> Record]
    BY <1>4, RetriedType DEF Retry
  <2>2. [NoCall EXCEPT !.at = "prepare", !.task = t,
                       !.start = Retried(t).state = "queued"] \in Call
    BY ConstantTypes DEF Call, CallAt
  <2>3. /\ calls' \in [Client -> Call]
        /\ \A d \in Client : calls'[d].at # "idle" => calls'[d].task \in Task
    BY <1>4, <2>2 DEF Retry, NoCall
  <2> QED BY <1>4, <2>1, <2>3 DEF Retry
<1>5. CASE CancelRequest(c, t)
  <2>1. /\ execs' \in [Exec -> Execution]
        /\ \A e \in Exec : execs'[e].at \notin {"idle", "schedule"}
                              => execs'[e].task \in Task
    <3>1. CASE execs' = [execs EXCEPT ![active[t].exec].token = "cancelled"]
      <4>1. \A e \in Exec : [execs[e] EXCEPT !.token = "cancelled"] \in Execution
        BY DEF Execution, Token
      <4>2. \A e \in Exec : execs'[e] \in {execs[e],
                                            [execs[e] EXCEPT !.token = "cancelled"]}
        BY <3>1
      <4>3. execs' \in [Exec -> Execution]
        BY <3>1, <4>1, <4>2
      <4> QED BY <4>2, <4>3 DEF Execution
    <3>2. CASE UNCHANGED execs
      BY <3>2
    <3> QED BY <1>5, <3>1, <3>2 DEF CancelRequest
  <2>3. PICK at \in {"cancel_remove", "cancel_mark"} :
          calls' = [calls EXCEPT ![c] = [NoCall EXCEPT !.at = at, !.task = t]]
    BY <1>5 DEF CancelRequest
  <2>4. [NoCall EXCEPT !.at = at, !.task = t] \in Call
    BY ConstantTypes DEF Call, CallAt
  <2>5. /\ calls' \in [Client -> Call]
        /\ \A d \in Client : calls'[d].at # "idle" => calls'[d].task \in Task
    BY <2>3, <2>4 DEF NoCall
  <2> QED BY <1>5, <2>1, <2>5 DEF CancelRequest
<1> QED BY <1>1, <1>2, <1>3, <1>4, <1>5

\* The later steps of a command, and the steps of no handler.
LEMMA CallType ==
    ASSUME TypeOK, NEW c \in Client, CallStep(c) \/ AbortCall(c)
    PROVE  TypeOK'
<1> USE DEF TypeOK
<1>0. NoCall \in Call /\ NoCall.at = "idle"
  BY ConstantTypes DEF NoCall
<1>1. CASE CancelMark(c)
  <2>1. calls[c].task \in Task
    BY <1>1 DEF CancelMark
  <2>2. tasks' \in [Task -> Record]
    <3>1. tasks[calls[c].task] \in Record /\ "cancelled" \in State
      BY <2>1 DEF State
    <3>2. [tasks[calls[c].task] EXCEPT !.state = "cancelled", !.finished = TRUE]
            \in Record
      BY <3>1 DEF Record
    <3> QED BY <1>1, <3>2 DEF CancelMark
  <2>3. /\ calls' \in [Client -> Call]
        /\ \A d \in Client : calls'[d].at # "idle" => calls'[d].task \in Task
    <3>1. calls[c] \in Call /\ "cleanup" \in CallAt /\ NoEnv \in Env
      BY ConstantTypes DEF CallAt
    <3>2. calls' = [calls EXCEPT ![c] = [calls[c] EXCEPT !.at = "cleanup"]]
      BY <1>1 DEF CancelMark
    <3> QED BY <2>1, <3>1, <3>2, CallUpdates
  <2> QED BY <1>1, <2>2, <2>3 DEF CancelMark
<1>2. CASE RetryPrepare(c)
  <2>1. calls[c].task \in Task
    BY <1>2 DEF RetryPrepare
  <2>2. PICK env \in Env :
          /\ envs' = [envs EXCEPT ![calls[c].task] = env]
          /\ calls' = [calls EXCEPT ![c].at = "prepared", ![c].env = env]
    BY <1>2, ConstantTypes DEF RetryPrepare
  <2>3. /\ calls' \in [Client -> Call]
        /\ \A d \in Client : calls'[d].at # "idle" => calls'[d].task \in Task
    <3> DEFINE call == [calls[c] EXCEPT !.at = "prepared", !.env = env]
    <3>1. call \in Call /\ call.task = calls[c].task
      <4>1. calls[c] \in Call /\ "prepared" \in CallAt
        BY DEF CallAt
      <4> QED BY <4>1 DEF Call
    <3>2. calls' = [calls EXCEPT ![c] = call]
      BY <2>2
    <3> HIDE DEF call
    <3> QED BY <2>1, <3>1, <3>2
  <2> QED BY <1>2, <2>2, <2>3 DEF RetryPrepare
<1>3. CASE RetryFinish(c)
  <2>1. calls[c].task \in Task
    BY <1>3 DEF RetryFinish
  <2>2. [tasks[calls[c].task] EXCEPT !.state = "blocked", !.reasons = {"environment"}]
          \in Record
    <3>1. /\ tasks[calls[c].task] \in Record
          /\ "blocked" \in State /\ {"environment"} \in SUBSET Reason
      BY <2>1 DEF State, Reason
    <3> QED BY <3>1, ConstantTypes, RecordUpdates
  <2>3. tasks' \in [Task -> Record]
    BY <1>3, <2>2 DEF RetryFinish
  <2>4. /\ execs' \in [Exec -> Execution]
        /\ \A e \in Exec : execs'[e].at \notin {"idle", "schedule"}
                             => execs'[e].task \in Task
    <3>1. Start(calls[c].task) \/ UNCHANGED execs
      BY <1>3 DEF RetryFinish, StartIf
    <3> QED BY <2>1, <3>1, StartType
  <2> QED BY <1>0, <1>3, <2>3, <2>4 DEF RetryFinish
<1>4. CASE CallCleanUp(c)
  <2>1. calls[c].task \in Task /\ calls[c].success \in BOOLEAN
    BY <1>4 DEF CallCleanUp, Call
  <2>2. CASE \E env \in Finalized(calls[c].task, calls[c].success) :
                /\ envs' = [envs EXCEPT ![calls[c].task] = env]
                /\ calls' = [calls EXCEPT ![c].at = "store", ![c].env = env]
    <3>1. PICK env \in Env :
            /\ envs' = [envs EXCEPT ![calls[c].task] = env]
            /\ calls' = [calls EXCEPT ![c].at = "store", ![c].env = env]
      BY <2>1, <2>2, CleanUpTypes
    <3>2. /\ calls' \in [Client -> Call]
          /\ \A d \in Client : calls'[d].at # "idle" => calls'[d].task \in Task
      <4> DEFINE call == [calls[c] EXCEPT !.at = "store", !.env = env]
      <4>1. call \in Call /\ call.task = calls[c].task
        <5>1. calls[c] \in Call /\ "store" \in CallAt
          BY DEF CallAt
        <5> QED BY <5>1 DEF Call
      <4>2. calls' = [calls EXCEPT ![c] = call]
        BY <3>1
      <4> HIDE DEF call
      <4> QED BY <2>1, <4>1, <4>2
    <3> QED BY <1>4, <3>1, <3>2 DEF CallCleanUp
  <2>3. CASE /\ envs' = [envs EXCEPT ![calls[c].task] =
                          [state |-> "cleaning", leased |-> FALSE]]
             /\ calls' = [calls EXCEPT ![c] = NoCall]
    <3>1. [state |-> "cleaning", leased |-> FALSE] \in Env
      BY DEF Env, EnvState
    <3> QED BY <1>0, <1>4, <2>3, <3>1 DEF CallCleanUp
  <2> QED BY <1>4, <2>2, <2>3 DEF CallCleanUp
<1>5. CASE CallStore(c)
  <2>1. calls[c].env \in Env
    BY DEF Call
  <2> QED BY <1>0, <1>5, <2>1 DEF CallStore
<1>6. CASE AbortCall(c)
  BY <1>0, <1>6 DEF AbortCall
<1>7. CASE CancelRemove(c)
  <2>1. calls[c].task \in Task
    BY <1>7 DEF CancelRemove
  <2>2. active' \in [Task -> Control]
    BY <1>7, ConstantTypes DEF CancelRemove
  <2>3. /\ calls' \in [Client -> Call]
        /\ \A d \in Client : calls'[d].at # "idle" => calls'[d].task \in Task
    <3>1. calls[c] \in Call /\ "cancel_mark" \in CallAt /\ NoEnv \in Env
      BY ConstantTypes DEF CallAt
    <3>2. calls' = [calls EXCEPT ![c] = [calls[c] EXCEPT !.at = "cancel_mark"]]
      BY <1>7 DEF CancelRemove
    <3> QED BY <2>1, <3>1, <3>2, CallUpdates
  <2> QED BY <1>7, <2>2, <2>3 DEF CancelRemove
<1> QED BY <1>1, <1>2, <1>3, <1>4, <1>5, <1>6, <1>7 DEF CallStep

\* Pausing, and blocker threads.
LEMMA EnvironmentType ==
    ASSUME TypeOK, NEW t \in Task,
           Pause(t) \/ PostBlocker(t) \/ ResolveBlocker(t)
    PROVE  TypeOK'
<1> USE DEF TypeOK
<1>1. CASE Pause(t)
  <2> DEFINE e == active[t].exec
  <2>1. e \in Exec /\ "paused" \in Token
    BY <1>1 DEF Pause, Control, NotActive, Token
  <2> DEFINE exec == [execs[e] EXCEPT !.token = "paused"]
  <2>2. execs' = [execs EXCEPT ![e] = exec]
    BY <1>1 DEF Pause
  <2>3. exec \in Execution /\ exec.task = execs[e].task /\ exec.at = execs[e].at
    BY <2>1 DEF Execution
  <2>4. /\ execs' \in [Exec -> Execution]
        /\ \A f \in Exec : execs'[f].at \notin {"idle", "schedule"}
                             => execs'[f].task \in Task
    <3> HIDE DEF exec
    <3> QED BY <2>1, <2>2, <2>3
  <2> QED BY <1>1, <2>4 DEF Pause
<1>2. CASE PostBlocker(t)
  <2>1. WithBlocker(tasks[t], "blocker") \in Record
    BY WithBlockerType DEF Reason
  <2>2. [WithBlocker(tasks[t], "blocker") EXCEPT !.thread = "open"] \in Record
    BY <2>1 DEF Record, Thread
  <2> QED BY <1>2, <2>2 DEF PostBlocker
<1>3. CASE ResolveBlocker(t)
  <2>1. PICK state \in State, reasons \in SUBSET Reason :
          tasks' = [tasks EXCEPT ![t].thread = "closed", ![t].reasons = reasons,
                                 ![t].state = state]
    <3>1. tasks[t].state \in State /\ "queued" \in State
          /\ tasks[t].reasons \ {"blocker"} \in SUBSET Reason
      BY DEF Record, State
    <3> QED BY <1>3, <3>1 DEF ResolveBlocker
  <2>2. [tasks[t] EXCEPT !.thread = "closed", !.reasons = reasons, !.state = state]
          \in Record
    <3>1. tasks[t] \in Record /\ "closed" \in Thread
      BY DEF Thread
    <3> QED BY <3>1 DEF Record
  <2>3. tasks' \in [Task -> Record]
    BY <2>1, <2>2
  <2> QED BY <1>3, <2>3 DEF ResolveBlocker
<1> QED BY <1>1, <1>2, <1>3

\* A step of an execution.
LEMMA ExecutionType ==
    ASSUME TypeOK, NEW e \in Exec, ExecStep(e) \/ RemoteBlocked(e) \/ Abort(e)
    PROVE  TypeOK'
<1> DEFINE t == execs[e].task
<1>0. /\ NoExecution \in Execution
      /\ NoExecution.at = "idle"
      /\ NoExecution.attempt \in Nat
  BY ConstantTypes DEF NoExecution
<1>1. execs[e] \in Execution
  BY DEF TypeOK
<1>2. CASE AcquireLease(e)
  <2> DEFINE env  == [state |-> "in_use", leased |-> TRUE]
             exec == [execs[e] EXCEPT !.at = "store_lease", !.env = env]
  <2>1. env \in Env
    BY DEF Env, EnvState
  <2>2. t \in Task
    BY <1>2 DEF AcquireLease, TypeOK
  <2>3. exec \in Execution /\ exec.task = t
    BY <1>1, <2>1 DEF Execution, ExecAt
  <2>4. execs' = [execs EXCEPT ![e] = exec] /\ envs' = [envs EXCEPT ![t] = env]
    BY <1>2 DEF AcquireLease, TypeOK
  <2> HIDE DEF exec, env
  <2> QED BY <1>2, <2>1, <2>2, <2>3, <2>4, ExecutionReplaced DEF AcquireLease, TypeOK
<1>3. CASE StoreLease(e)
  <2> DEFINE exec == [execs[e] EXCEPT !.at = "launch"]
  <2>1. t \in Task /\ execs[e].env \in Env
    BY <1>1, <1>3 DEF StoreLease, TypeOK, Execution
  <2>2. exec \in Execution /\ exec.task = t
    BY <1>1 DEF Execution, ExecAt
  <2>3. execs' = [execs EXCEPT ![e] = exec]
    BY <1>3 DEF StoreLease, TypeOK
  <2> HIDE DEF exec
  <2> QED BY <1>3, <2>1, <2>2, <2>3, ExecutionReplaced DEF StoreLease, TypeOK
<1>4. CASE Launch(e)
  <2> DEFINE attempt == tasks[t].attempts
             exec    == [execs[e] EXCEPT !.at = "spawn", !.attempt = attempt]
             record  == [tasks[t] EXCEPT !.state = "running", !.reasons = {}]
  <2>1. t \in Task
    BY <1>4 DEF Launch, TypeOK
  <2>2. tasks[t] \in Record
    BY <2>1 DEF TypeOK
  <2>3. record \in Record /\ attempt \in Nat
    BY <2>2 DEF Record, State
  <2>4. exec \in Execution /\ exec.task = t
    BY <1>1, <2>3 DEF Execution, ExecAt
  <2>5. /\ execs' = [execs EXCEPT ![e] = exec]
        /\ tasks' = [tasks EXCEPT ![t] = record]
        /\ active' = [active EXCEPT ![t] = [exec |-> e, attempt |-> attempt]]
    BY <1>4 DEF Launch, LaunchedAttempt, TypeOK
  <2>6. [exec |-> e, attempt |-> attempt] \in Control
    BY <2>3 DEF Control
  <2> HIDE DEF exec, record, attempt
  <2> QED BY <1>4, <2>1, <2>3, <2>4, <2>5, <2>6, ExecutionReplaced DEF Launch, TypeOK
<1>5. CASE Spawn(e)
  <2> DEFINE exec == [execs[e] EXCEPT !.at = "running"]
  <2>1. exec \in Execution /\ exec.task \in Task
    BY <1>1, <1>5 DEF Spawn, TypeOK, Execution, ExecAt
  <2>2. execs' = [execs EXCEPT ![e] = exec]
    BY <1>5 DEF Spawn, TypeOK
  <2> HIDE DEF exec
  <2> QED BY <1>5, <2>1, <2>2, ExecutionReplaced DEF Spawn, TypeOK
<1>6. CASE RemoteBlocked(e)
  <2> DEFINE exec   == [execs[e] EXCEPT !.at = "remote_blocked"]
             record == [tasks[t] EXCEPT !.state = "blocked", !.reasons = {"remote"}]
  <2>1. exec \in Execution /\ exec.task \in Task /\ t \in Task
    BY <1>1, <1>6 DEF RemoteBlocked, TypeOK, Execution, ExecAt
  <2>2. record \in Record
    <3>1. tasks[t] \in Record
      BY <2>1 DEF TypeOK
    <3> QED BY <3>1 DEF Record, State, Reason
  <2>3. /\ execs' = [execs EXCEPT ![e] = exec]
        /\ tasks' = [tasks EXCEPT ![t] = record]
    BY <1>6, <2>1 DEF RemoteBlocked, TypeOK
  <2> HIDE DEF exec, record
  <2> QED BY <1>6, <2>1, <2>2, <2>3, ExecutionReplaced DEF RemoteBlocked, TypeOK
<1>7. CASE Ignore(e)
  <2>1. /\ execs' \in [Exec -> Execution]
        /\ \A f \in Exec : execs'[f].at \notin {"idle", "schedule"}
                             => execs'[f].task \in Task
    BY <1>0, <1>7, ExecutionReplaced DEF Ignore
  <2>2. active' \in [Task -> Control]
    BY <1>7, ConstantTypes DEF Ignore, ControlAfterIgnored, TypeOK
  <2> QED BY <1>7, <2>1, <2>2 DEF Ignore, TypeOK
<1>8. ASSUME NEW outcome \in Outcomes(e), Complete(e, outcome)
      PROVE  TypeOK'
  <2> DEFINE record == CompletedRecord(t, outcome)
             ts     == [tasks EXCEPT ![t] = record]
             ready  == ReadyTasks(ts, IF outcome = "paused" THEN {t} ELSE {})
             exec   == [NoExecution EXCEPT !.at = "cleanup", !.task = t,
                          !.attempt = execs[e].attempt,
                          !.final = record.state, !.ready = ready]
  <2>1. t \in Task
    BY <1>8 DEF Complete, Ended, TypeOK
  <2>2. outcome \in Outcome
    BY <1>8 DEF Outcomes, Outcome
  <2>3. record \in Record
    BY <2>1, <2>2, CompletedRecordType
  <2>4. record.state \in State /\ ready \in SUBSET Task
    <3>1. record.state \in State
      BY <2>3 DEF Record
    <3>2. ready \in SUBSET Task
      BY DEF ReadyTasks
    <3> QED BY <3>1, <3>2
  <2>5. exec \in Execution /\ exec.task = t
    <3> HIDE DEF record, ready
    <3>1. execs[e].attempt \in Nat
      BY <1>1 DEF Execution
    <3> QED BY <1>0, <2>1, <2>4, <3>1 DEF Execution, ExecAt
  <2>6. tasks' \in [Task -> Record]
    <3>1. ts \in [Task -> Record]
      <4> HIDE DEF record
      <4> QED BY <2>3 DEF TypeOK
    <3>2. tasks' = Requeued(ts, ready)
      BY <1>8 DEF Complete
    <3> HIDE DEF ts, ready
    <3> QED BY <3>1, <3>2, RequeuedType
  <2>7. execs' = [execs EXCEPT ![e] = exec]
    BY <1>8 DEF Complete
  <2>8. /\ granted' \in [Task -> SUBSET Scope]
        /\ succeeded' \in SUBSET Task
        /\ active' \in [Task -> Control]
    <3>1. succeeded' = succeeded \cup {t} \/ succeeded' = succeeded
      BY <1>8 DEF Complete
    <3>2. /\ granted' = [granted EXCEPT ![t] = @ \cap {"pre_execution"}]
          /\ active' = [active EXCEPT ![t] = NotActive]
      BY <1>8 DEF Complete
    <3> QED BY <2>1, <3>1, <3>2, ConstantTypes DEF TypeOK
  <2>9. UNCHANGED <<envs, calls, results>>
    BY <1>8 DEF Complete
  <2> HIDE DEF exec
  <2> QED BY <2>1, <2>5, <2>6, <2>7, <2>8, <2>9, ExecutionReplaced DEF TypeOK
<1>9. CASE CleanUp(e)
  <2>1. t \in Task
    BY <1>9 DEF CleanUp, TypeOK
  <2>2. ASSUME NEW env \in Env,
               envs' = [envs EXCEPT ![t] = env],
               execs' = [execs EXCEPT ![e].at = "store_cleanup", ![e].env = env]
        PROVE  TypeOK'
    <3> DEFINE exec == [execs[e] EXCEPT !.at = "store_cleanup", !.env = env]
    <3>1. exec \in Execution /\ exec.task = t
      BY <1>1 DEF Execution, ExecAt
    <3>2. execs' = [execs EXCEPT ![e] = exec]
      BY <2>2 DEF TypeOK
    <3> HIDE DEF exec
    <3> QED BY <1>9, <2>1, <2>2, <3>1, <3>2, ExecutionReplaced DEF CleanUp, TypeOK
  <2>3. Released(envs[t]) \in Env
    BY <2>1 DEF Released, TypeOK, Env, EnvState
  <2>4. Finalized(t, execs[e].final = "completed") \subseteq Env
    BY <2>1, CleanUpTypes
  <2>5. CASE /\ envs' = [envs EXCEPT ![t] = [state |-> "cleaning", leased |-> FALSE]]
             /\ execs' = [execs EXCEPT ![e] = NoExecution]
    <3>1. [state |-> "cleaning", leased |-> FALSE] \in Env
      BY DEF Env, EnvState
    <3> QED BY <1>0, <1>9, <2>1, <2>5, <3>1, ExecutionReplaced DEF CleanUp, TypeOK
  <2> QED BY <1>9, <2>2, <2>3, <2>4, <2>5 DEF CleanUp
<1>10. CASE StoreCleanUp(e)
  <2>1. t \in Task /\ execs[e].env \in Env
    BY <1>1, <1>10 DEF StoreCleanUp, TypeOK, Execution
  <2>2. PICK at \in {"handoff", "publish"} :
          execs' = [execs EXCEPT ![e] = [execs[e] EXCEPT !.at = at]]
    BY <1>10 DEF StoreCleanUp, TypeOK
  <2> DEFINE exec == [execs[e] EXCEPT !.at = at]
  <2>3. exec \in Execution /\ exec.task = t
    BY <1>1 DEF Execution, ExecAt
  <2>4. execs' = [execs EXCEPT ![e] = exec]
    BY <2>2
  <2> HIDE DEF exec
  <2> QED BY <1>10, <2>1, <2>3, <2>4, ExecutionReplaced DEF StoreCleanUp, TypeOK
<1>11. CASE PublishHandoff(e)
  <2> DEFINE exec == [execs[e] EXCEPT !.at = "publish"]
  <2>1. t \in Task
    BY <1>11 DEF PublishHandoff, TypeOK
  <2>2. exec \in Execution /\ exec.task = t
    BY <1>1 DEF Execution, ExecAt
  <2>3. WithBlocker(tasks[t], "handoff") \in Record
    BY <2>1, WithBlockerType DEF Reason, TypeOK
  <2>4. /\ execs' = [execs EXCEPT ![e] = exec]
        /\ \/ tasks' = [tasks EXCEPT ![t] = WithBlocker(tasks[t], "handoff")]
           \/ tasks' = tasks
    BY <1>11, <2>1 DEF PublishHandoff, TypeOK
  <2> HIDE DEF exec
  <2> QED BY <1>11, <2>1, <2>2, <2>3, <2>4, ExecutionReplaced
        DEF PublishHandoff, TypeOK
<1>12. CASE SendResult(e)
  <2>1. AfterSend(e) \in Execution /\ AfterSend(e).at \in {"idle", "schedule"}
    BY <1>0, <1>1 DEF AfterSend, Execution, ExecAt
  <2>2. results' \in 0..ResultCapacity
    BY <1>12, BoundsAssumption DEF SendResult, TypeOK
  <2>3. execs' = [execs EXCEPT ![e] = AfterSend(e)]
    BY <1>12 DEF SendResult
  <2> QED BY <1>12, <2>1, <2>2, <2>3, ExecutionReplaced DEF SendResult, TypeOK
<1>13. CASE Schedule(e)
  <2>1. PICK u \in execs[e].ready, f \in FreeExecs :
          execs' = [execs EXCEPT ![f] = Starting(u), ![e] = AfterStart(e, u)]
    BY <1>13 DEF Schedule
  <2>2. u \in Task /\ f \in Exec
    BY <1>1 DEF FreeExecs, Execution
  <2>3. AfterStart(e, u) \in Execution /\ AfterStart(e, u).at \in {"idle", "schedule"}
    BY <1>0, <1>1, <1>13 DEF AfterStart, Schedule, Execution
  <2>4. Starting(u) \in Execution /\ Starting(u).task = u
    BY <2>2, ConstantTypes DEF Starting, NoExecution
  <2>5. /\ execs' \in [Exec -> Execution]
        /\ \A g \in Exec : execs'[g].at \notin {"idle", "schedule"}
                             => execs'[g].task \in Task
    BY <2>1, <2>2, <2>3, <2>4 DEF TypeOK
  <2> QED BY <1>13, <2>5 DEF Schedule, TypeOK
<1>14. CASE Abort(e)
  BY <1>0, <1>14, ExecutionReplaced DEF Abort, TypeOK
<1> QED BY <1>2, <1>3, <1>4, <1>5, <1>6, <1>7, <1>8, <1>9, <1>10, <1>11, <1>12,
           <1>13, <1>14 DEF ExecStep

\* Every variable keeps its type: no handler writes a value that the code's
\* types rule out, and the result channel never holds more than its capacity.
THEOREM TypeCorrect == Spec => []TypeOK
<1>1. Init => TypeOK
  BY InitType
<1>2. TypeOK /\ [Next]_vars => TypeOK'
  <2> SUFFICES ASSUME TypeOK, [Next]_vars PROVE TypeOK'
    OBVIOUS
  <2>1. CASE UNCHANGED vars
    BY <2>1 DEF TypeOK, vars
  <2>2. CASE PollResult
    BY <2>2, BoundsAssumption DEF PollResult, TypeOK
  <2> QED BY <2>1, <2>2, OperatorType, CallType, ExecutionType, EnvironmentType
          DEF Next
<1> QED BY <1>1, <1>2, PTL DEF Spec

-----------------------------------------------------------------------------
(* Gates *)

\* The states in which a gate is awaited or has been passed for good.
GateStates == {"pending_approval", "review_pending", "test_pending", "completed"}

\* A step that puts no task in such a state, and changes neither the gate nor
\* the approvals of a task that is in one.
KeepsGates ==
    \A t \in Task : tasks'[t].state \in GateStates =>
        /\ tasks'[t].state = tasks[t].state
        /\ tasks'[t].gate = tasks[t].gate
        /\ granted'[t] = granted[t]

\* The inductive invariant: a task that reached its test gate through a review
\* keeps the approval of that review until the tests are approved as well.
GateInv ==
    /\ GatedTaskIsDecidable
    /\ GatesBeforeCompletion
    /\ \A t \in ReviewerRequired :
          tasks[t].state = "test_pending" => "review" \in granted[t]

\* No task is at a gate before it is delegated.
LEMMA InitGates == Init => GateInv
BY TasksAssumption
DEF Init, Undelegated, GateInv, GatedTaskIsDecidable, GatesBeforeCompletion, ScopeOf

\* Steps that keep the gates preserve the invariant.
LEMMA KeepsGatesInv ==
    ASSUME TypeOK, GateInv, KeepsGates
    PROVE  GateInv'
BY TasksAssumption
DEF GateInv, GatedTaskIsDecidable, GatesBeforeCompletion, KeepsGates, GateStates, ScopeOf

\* Only delegate, approve, retry and a completion touch the gates.
LEMMA CallKeepsGates ==
    ASSUME TypeOK, NEW c \in Client, CallStep(c) \/ AbortCall(c)
    PROVE  KeepsGates
<1>1. CASE CancelMark(c)
  BY <1>1 DEF CancelMark, TypeOK, KeepsGates, GateStates, Record
<1>2. CASE RetryFinish(c)
  BY <1>2 DEF RetryFinish, TypeOK, KeepsGates, GateStates, Record
<1>3. CASE UNCHANGED <<tasks, granted>>
  BY <1>3 DEF KeepsGates
<1> QED BY <1>1, <1>2, <1>3
        DEF CallStep, AbortCall, CancelRemove, RetryPrepare, CallCleanUp, CallStore

\* Pausing and blocker threads leave the gates alone.
LEMMA EnvironmentKeepsGates ==
    ASSUME TypeOK, NEW t \in Task,
           Pause(t) \/ PostBlocker(t) \/ ResolveBlocker(t)
    PROVE  KeepsGates
<1>0. tasks \in [Task -> Record] /\ tasks[t] \in Record
  BY DEF TypeOK
<1>1. CASE Pause(t)
  BY <1>1 DEF Pause, KeepsGates
<1>2. CASE PostBlocker(t)
  BY <1>0, <1>2 DEF PostBlocker, WithBlocker, KeepsGates, GateStates, Record
<1>3. CASE ResolveBlocker(t)
  BY <1>0, <1>3 DEF ResolveBlocker, KeepsGates, GateStates, Record
<1> QED BY <1>1, <1>2, <1>3

\* The hand-off of an output blocks its task, or leaves it as it is.
LEMMA HandoffMayBlock ==
    ASSUME TypeOK, NEW e \in Exec, PublishHandoff(e), NEW t \in Task
    PROVE  /\ tasks'[t].state \in {tasks[t].state, "blocked"}
           /\ tasks'[t].gate = tasks[t].gate
           /\ tasks'[t].thread = tasks[t].thread
<1>1. tasks \in [Task -> Record] /\ tasks[t] \in Record
  BY DEF TypeOK
<1>2. CASE tasks' = [tasks EXCEPT ![execs[e].task] =
                        WithBlocker(tasks[execs[e].task], "handoff")]
  <2>1. CASE t = execs[e].task
    <3>1. tasks'[t] = WithBlocker(tasks[t], "handoff")
      BY <1>1, <1>2, <2>1
    <3> QED BY <1>1, <3>1 DEF WithBlocker, Record
  <2>2. CASE t # execs[e].task
    BY <1>1, <1>2, <2>2
  <2> QED BY <2>1, <2>2
<1>3. CASE UNCHANGED tasks
  BY <1>3
<1> QED BY <1>2, <1>3 DEF PublishHandoff

\* So do the steps of an execution, but for the one that records its result.
LEMMA ExecutionKeepsGates ==
    ASSUME TypeOK, NEW e \in Exec,
           \/ ExecStep(e) /\ ~\E outcome \in Outcomes(e) : Complete(e, outcome)
           \/ RemoteBlocked(e) \/ Abort(e)
    PROVE  KeepsGates
<1> DEFINE t == execs[e].task
<1>0. tasks \in [Task -> Record]
  BY DEF TypeOK
<1>1. CASE Launch(e)
  BY <1>0, <1>1 DEF Launch, KeepsGates, GateStates, Record
<1>2. CASE RemoteBlocked(e)
  BY <1>0, <1>2 DEF RemoteBlocked, KeepsGates, GateStates, Record
<1>3. CASE PublishHandoff(e)
  BY <1>3, HandoffMayBlock DEF PublishHandoff, KeepsGates, GateStates
<1>4. CASE UNCHANGED <<tasks, granted>>
  BY <1>4 DEF KeepsGates
<1> QED BY <1>1, <1>2, <1>3, <1>4
        DEF ExecStep, Abort, AcquireLease, StoreLease, Spawn, Ignore, CleanUp,
            StoreCleanUp, SendResult, Schedule

\* A command that an operator issues preserves the invariant.
LEMMA OperatorGates ==
    ASSUME TypeOK, GateInv, NEW c \in Client, Operator(c)
    PROVE  GateInv'
<1>0. PICK t \in Task :
        \/ Delegate(c, t)
        \/ \E actor \in ActorKind : Approve(c, t, actor) \/ Reject(c, t, actor)
        \/ Retry(c, t)
        \/ CancelRequest(c, t)
  BY DEF Operator
<1>1. tasks \in [Task -> Record] /\ granted \in [Task -> SUBSET Scope]
  BY DEF TypeOK
<1>2. tasks[t] \in Record
  BY <1>1
<1> USE DEF GateInv, GatedTaskIsDecidable, GatesBeforeCompletion
<1>3. CASE Delegate(c, t)
  <2> DEFINE waiting == ~DependenciesMet(tasks, t)
             state(env) == IF env.state = "failed" THEN "blocked"
                           ELSE IF t \in ApprovalRequired THEN "pending_approval"
                           ELSE IF waiting THEN "blocked" ELSE "queued"
             reasons(env) == (IF waiting THEN {"dependency"} ELSE {})
                             \cup (IF env.state = "failed" THEN {"environment"} ELSE {})
             gate == IF t \in ApprovalRequired THEN Requested("pre_execution")
                                               ELSE NoGate
  <2>1. PICK env \in Prepared :
          tasks' = [tasks EXCEPT ![t].state = state(env), ![t].gate = gate,
                                 ![t].reasons = reasons(env)]
    BY <1>3 DEF Delegate
  <2>2. /\ granted' = granted
        /\ state(env) \in {"blocked", "pending_approval", "queued"}
        /\ state(env) = "pending_approval" => gate = Requested("pre_execution")
    BY <1>3 DEF Delegate
  <2> HIDE DEF state, gate, reasons
  <2>3. /\ tasks'[t].state = state(env) /\ tasks'[t].gate = gate
        /\ \A u \in Task \ {t} : tasks'[u] = tasks[u]
    BY <1>1, <1>2, <2>1 DEF Record
  <2> QED BY <2>2, <2>3, TasksAssumption DEF ScopeOf
<1>4. ASSUME NEW actor \in ActorKind, Approve(c, t, actor)
      PROVE  GateInv'
  <2> DEFINE scope  == ScopeOf(tasks[t].state)
             record == ApprovedRecord(t, [tasks[t] EXCEPT !.gate = Decided("approved")])
  <2>1. /\ scope # "none" /\ Required(t, scope)
        /\ tasks' = [tasks EXCEPT ![t] = record]
        /\ granted' = [granted EXCEPT ![t] = granted[t] \cup {scope}]
    BY <1>4 DEF Approve, MayDecide
  <2>2. \/ tasks[t].state = "pending_approval" /\ record.state \in {"queued", "blocked"}
        \/ /\ tasks[t].state = "review_pending" /\ t \in TestRequired
           /\ record.state = "test_pending"
           /\ record.gate = Requested("test_validation")
        \/ /\ tasks[t].state = "review_pending" /\ t \notin TestRequired
           /\ record.state = "completed"
        \/ tasks[t].state = "test_pending" /\ record.state = "completed"
    BY <1>2, <2>1 DEF ScopeOf, ApprovedRecord, QueuedOrBlocked, Record
  <2>3. /\ tasks'[t] = record /\ granted'[t] = granted[t] \cup {scope}
        /\ \A u \in Task \ {t} : tasks'[u] = tasks[u] /\ granted'[u] = granted[u]
    BY <1>1, <2>1
  <2> HIDE DEF record
  <2>4. ScopeOf(tasks'[t].state) # "none"
          => tasks'[t].gate = Requested(ScopeOf(tasks'[t].state))
    BY <2>2, <2>3 DEF ScopeOf
  <2>5. tasks'[t].state = "completed" => \A s \in {"review", "test_validation"} :
            Required(t, s) => s \in granted'[t]
    BY <2>2, <2>3 DEF ScopeOf, Required
  <2>6. t \in ReviewerRequired /\ tasks'[t].state = "test_pending"
          => "review" \in granted'[t]
    BY <2>2, <2>3 DEF ScopeOf
  <2> QED BY <2>3, <2>4, <2>5, <2>6, TasksAssumption
<1>5. ASSUME NEW actor \in ActorKind, Reject(c, t, actor)
      PROVE  GateInv'
  <2>1. KeepsGates
    BY <1>1, <1>2, <1>5 DEF Reject, KeepsGates, GateStates, Record
  <2> QED BY <2>1, KeepsGatesInv
<1>6. CASE Retry(c, t)
  <2>1. /\ tasks' = [tasks EXCEPT ![t] = Retried(t)]
        /\ granted' = [granted EXCEPT ![t] = {}]
    BY <1>6 DEF Retry
  <2>2. \/ Retried(t).state \in {"queued", "blocked"}
        \/ /\ Retried(t).state = "pending_approval"
           /\ Retried(t).gate = Requested("pre_execution")
    BY <1>2 DEF Retried, Reset, QueuedOrBlocked, Record
  <2>3. /\ tasks'[t] = Retried(t)
        /\ \A u \in Task \ {t} : tasks'[u] = tasks[u] /\ granted'[u] = granted[u]
    BY <1>1, <2>1
  <2> QED BY <2>2, <2>3, TasksAssumption DEF ScopeOf
<1>7. CASE CancelRequest(c, t)
  <2>1. KeepsGates
    BY <1>7 DEF CancelRequest, KeepsGates
  <2> QED BY <2>1, KeepsGatesInv
<1> QED BY <1>0, <1>3, <1>4, <1>5, <1>6, <1>7

\* A result takes back the approvals of the result it replaces, and makes the
\* request of the gate it has to pass.
LEMMA CompleteGates ==
    ASSUME TypeOK, GateInv, NEW e \in Exec, NEW outcome \in Outcomes(e),
           Complete(e, outcome)
    PROVE  GateInv'
<1> DEFINE t      == execs[e].task
           record == CompletedRecord(t, outcome)
           ts     == [tasks EXCEPT ![t] = record]
           ready  == ReadyTasks(ts, IF outcome = "paused" THEN {t} ELSE {})
<1>1. /\ tasks \in [Task -> Record] /\ granted \in [Task -> SUBSET Scope]
      /\ t \in Task
  BY DEF Complete, Ended, TypeOK
<1>2. tasks[t] \in Record /\ outcome \in Outcome
  BY <1>1 DEF Outcomes, Outcome
<1>3. /\ ScopeOf(record.state) # "none" => record.gate = Requested(ScopeOf(record.state))
      /\ record.state = "completed" => t \notin ReviewerRequired \cup TestRequired
      /\ record.state = "test_pending" => t \notin ReviewerRequired
  BY <1>2 DEF CompletedRecord, Outcome, ScopeOf, Record
<1>4. record \in Record
  BY <1>1, <1>2, CompletedRecordType
<1> HIDE DEF record
<1>5. /\ ts[t] = record
      /\ \A u \in Task \ {t} : ts[u] = tasks[u]
      /\ \A u \in Task : ts[u] \in Record
  BY <1>1, <1>4
<1>6. /\ tasks' = Requeued(ts, ready)
      /\ granted' = [granted EXCEPT ![t] = granted[t] \cap {"pre_execution"}]
  BY DEF Complete, record
<1> HIDE DEF ts, ready
<1>7. \A u \in Task : \/ tasks'[u].state = "queued"
                      \/ tasks'[u] = ts[u]
  BY <1>5, <1>6 DEF Requeued, Record
<1>8. \A u \in Task \ {t} : granted'[u] = granted[u]
  BY <1>1, <1>6
<1> QED BY <1>3, <1>5, <1>7, <1>8, TasksAssumption
        DEF GateInv, GatedTaskIsDecidable, GatesBeforeCompletion, ScopeOf, Required

\* Every step preserves the invariant.
LEMMA GatesInductive == TypeOK /\ GateInv /\ [Next]_vars => GateInv'
<1> SUFFICES ASSUME TypeOK, GateInv, [Next]_vars PROVE GateInv'
  OBVIOUS
<1>1. ASSUME NEW c \in Client, Operator(c) \/ CallStep(c) \/ AbortCall(c)
      PROVE  GateInv'
  BY <1>1, OperatorGates, CallKeepsGates, KeepsGatesInv
<1>2. ASSUME NEW e \in Exec, ExecStep(e) \/ RemoteBlocked(e) \/ Abort(e)
      PROVE  GateInv'
  <2>1. CASE \E outcome \in Outcomes(e) : Complete(e, outcome)
    BY <2>1, CompleteGates
  <2>2. CASE ~\E outcome \in Outcomes(e) : Complete(e, outcome)
    BY <1>2, <2>2, ExecutionKeepsGates, KeepsGatesInv
  <2> QED BY <2>1, <2>2
<1>3. ASSUME NEW t \in Task, Pause(t) \/ PostBlocker(t) \/ ResolveBlocker(t)
      PROVE  GateInv'
  BY <1>3, EnvironmentKeepsGates, KeepsGatesInv
<1>4. CASE UNCHANGED vars \/ PollResult
  BY <1>4, KeepsGatesInv DEF vars, PollResult, KeepsGates
<1> QED BY <1>1, <1>2, <1>3, <1>4 DEF Next

\* The invariant that the two theorems on gates rest on: approve_task,
\* retry_task and complete_task_execution change state, request and approvals
\* of a task together.
THEOREM GatesInvariant == Spec => []GateInv
<1>1. Init => GateInv
  BY InitGates
<1>2. TypeOK /\ GateInv /\ [Next]_vars => GateInv'
  BY GatesInductive
<1> QED BY <1>1, <1>2, TypeCorrect, PTL DEF Spec

\* No interleaving of results, decisions, retries and failing writes completes
\* a task past a review or a test gate that its present result has not passed.
THEOREM GatesAreNotSkipped == Spec => []GatesBeforeCompletion
<1>1. GateInv => GatesBeforeCompletion
  BY DEF GateInv
<1> QED BY <1>1, GatesInvariant, PTL

\* approve_task and reject_task never refuse a task that waits at a gate for
\* want of an open request.
THEOREM GatesAreDecidable == Spec => []GatedTaskIsDecidable
<1>1. GateInv => GatedTaskIsDecidable
  BY DEF GateInv
<1> QED BY <1>1, GatesInvariant, PTL

-----------------------------------------------------------------------------
(* Dependencies *)

\* Completed tasks are remembered, and every start that is under way, in a
\* handler of an execution or of a command, is one whose dependencies have
\* been completed.
DependencyInv ==
    /\ \A t \in Task : tasks[t].state = "completed" => t \in succeeded
    /\ \A e \in Exec : execs[e].task \in Task => DependsOn[execs[e].task] \subseteq succeeded
    /\ \A e \in Exec : \A t \in execs[e].ready : DependsOn[t] \subseteq succeeded
    /\ \A c \in Client : calls[c].start => DependsOn[calls[c].task] \subseteq succeeded

\* Nothing is completed and nothing starts at first.
LEMMA InitDependencies == Init => DependencyInv
BY TasksAssumption
DEF Init, Undelegated, NoExecution, NoCall, DependencyInv

\* What a task's dependencies have met is remembered.
LEMMA MetIsRemembered ==
    ASSUME DependencyInv, NEW t \in Task, DependenciesMet(tasks, t)
    PROVE  DependsOn[t] \subseteq succeeded
BY TasksAssumption DEF DependencyInv, DependenciesMet

\* The start of a task whose dependencies have been completed.
LEMMA StartDependencies ==
    ASSUME TypeOK, DependencyInv, NEW t \in Task, DependsOn[t] \subseteq succeeded,
           Start(t) \/ UNCHANGED execs
    PROVE  /\ \A e \in Exec : execs'[e].task \in Task
                                => DependsOn[execs'[e].task] \subseteq succeeded
           /\ \A e \in Exec : \A u \in execs'[e].ready : DependsOn[u] \subseteq succeeded
<1>1. CASE UNCHANGED execs
  BY <1>1 DEF DependencyInv
<1>2. ASSUME NEW e \in FreeExecs, execs' = [execs EXCEPT ![e] = Starting(t)]
      PROVE  /\ \A f \in Exec : execs'[f].task \in Task
                                  => DependsOn[execs'[f].task] \subseteq succeeded
             /\ \A f \in Exec : \A u \in execs'[f].ready : DependsOn[u] \subseteq succeeded
  <2>1. Starting(t).task = t /\ Starting(t).ready = {}
    BY DEF Starting, NoExecution
  <2> QED BY <1>2, <2>1 DEF TypeOK, DependencyInv
<1> QED BY <1>1, <1>2 DEF Start

\* Steps that complete no task and start none.
KeepsDependencies ==
    /\ succeeded' = succeeded
    /\ \A t \in Task : tasks'[t].state = "completed" => tasks[t].state = "completed"
    /\ \A e \in Exec : \/ execs'[e].task = execs[e].task
                       \/ execs'[e].task \notin Task
    /\ \A e \in Exec : execs'[e].ready \subseteq execs[e].ready
    /\ \A c \in Client : \/ ~calls'[c].start
                         \/ calls'[c].start = calls[c].start /\ calls'[c].task = calls[c].task

\* Steps that complete and start nothing preserve the invariant.
LEMMA KeepsDependenciesInv ==
    ASSUME DependencyInv, KeepsDependencies
    PROVE  DependencyInv'
BY DEF DependencyInv, KeepsDependencies

\* Commands start a task only when its dependencies are met.
LEMMA OperatorDependencies ==
    ASSUME TypeOK, DependencyInv, NEW c \in Client, Operator(c)
    PROVE  DependencyInv'
<1>0. PICK t \in Task :
        \/ Delegate(c, t)
        \/ \E actor \in ActorKind : Approve(c, t, actor) \/ Reject(c, t, actor)
        \/ Retry(c, t)
        \/ CancelRequest(c, t)
  BY DEF Operator
<1>1. tasks \in [Task -> Record] /\ tasks[t] \in Record
  BY DEF TypeOK
<1>2. CASE Delegate(c, t)
  <2>1. \A u \in Task : tasks'[u].state = "completed" => tasks[u].state = "completed"
    BY <1>1, <1>2 DEF Delegate, Record
  <2>2. \/ UNCHANGED execs
        \/ Start(t) /\ DependenciesMet(tasks, t)
    BY <1>2 DEF Delegate, StartIf
  <2>3. UNCHANGED <<calls, succeeded>>
    BY <1>2 DEF Delegate
  <2>4. CASE UNCHANGED execs
    BY <2>1, <2>3, <2>4 DEF DependencyInv
  <2>5. CASE Start(t) /\ DependenciesMet(tasks, t)
    BY <2>1, <2>3, <2>5, MetIsRemembered, StartDependencies DEF DependencyInv
  <2> QED BY <2>2, <2>4, <2>5
<1>3. ASSUME NEW actor \in ActorKind, Approve(c, t, actor)
      PROVE  DependencyInv'
  <2> DEFINE record == ApprovedRecord(t, [tasks[t] EXCEPT !.gate = Decided("approved")])
  <2>1. /\ tasks' = [tasks EXCEPT ![t] = record]
        /\ StartIf(record.state = "queued", t)
    BY <1>3 DEF Approve
  <2>2. record.state = "queued" => DependenciesMet(tasks, t)
    BY <1>1 DEF ApprovedRecord, QueuedOrBlocked, Record
  <2>3. CASE record.state = "completed"
    <3>1. /\ succeeded' = succeeded \cup {t}
          /\ UNCHANGED execs
          /\ calls' = [calls EXCEPT ![c] = [NoCall EXCEPT
                          !.at = "cleanup", !.task = t, !.success = TRUE]]
      BY <1>3, <2>3 DEF Approve, StartIf
    <3>2. \A d \in Client : \/ ~calls'[d].start
                            \/ calls'[d] = calls[d]
      BY <3>1 DEF NoCall, TypeOK
    <3> HIDE DEF record
    <3> QED BY <1>1, <2>1, <3>1, <3>2 DEF DependencyInv
  <2>4. CASE record.state # "completed"
    <3>1. UNCHANGED <<succeeded, calls>>
      BY <1>3, <2>4 DEF Approve
    <3> HIDE DEF record
    <3>2. \A u \in Task : tasks'[u].state = "completed" => tasks[u].state = "completed"
      BY <1>1, <2>1, <2>4
    <3>3. UNCHANGED execs \/ (Start(t) /\ DependenciesMet(tasks, t))
      BY <2>1, <2>2 DEF StartIf
    <3>4. CASE UNCHANGED execs
      BY <3>1, <3>2, <3>4 DEF DependencyInv
    <3>5. CASE Start(t) /\ DependenciesMet(tasks, t)
      BY <3>1, <3>2, <3>5, MetIsRemembered, StartDependencies DEF DependencyInv
    <3> QED BY <3>3, <3>4, <3>5
  <2> QED BY <2>3, <2>4
<1>4. ASSUME NEW actor \in ActorKind, Reject(c, t, actor)
      PROVE  DependencyInv'
  <2>1. KeepsDependencies
    BY <1>1, <1>4 DEF Reject, KeepsDependencies, Record, NoCall, TypeOK
  <2> QED BY <2>1, KeepsDependenciesInv
<1>5. CASE Retry(c, t)
  <2>1. /\ tasks' = [tasks EXCEPT ![t] = Retried(t)]
        /\ calls' = [calls EXCEPT ![c] = [NoCall EXCEPT !.at = "prepare",
                        !.task = t, !.start = Retried(t).state = "queued"]]
        /\ UNCHANGED <<execs, succeeded>>
    BY <1>5 DEF Retry
  <2>2. /\ Retried(t).state # "completed"
        /\ Retried(t).state = "queued" => DependenciesMet(tasks, t)
    BY <1>1 DEF Retried, Reset, QueuedOrBlocked, Record
  <2>3. /\ calls'[c].task = t
        /\ calls'[c].start => DependenciesMet(tasks, t)
        /\ \A d \in Client \ {c} : calls'[d] = calls[d]
    BY <2>1, <2>2 DEF NoCall, TypeOK
  <2>4. \A u \in Task : tasks'[u].state = "completed" => tasks[u].state = "completed"
    BY <1>1, <2>1, <2>2
  <2> QED BY <2>1, <2>3, <2>4, MetIsRemembered DEF DependencyInv
<1>6. CASE CancelRequest(c, t)
  <2>1. KeepsDependencies
    <3>1. \A e \in Exec : execs'[e].task = execs[e].task /\ execs'[e].ready = execs[e].ready
      BY <1>6 DEF CancelRequest, TypeOK, Execution
    <3>2. \A d \in Client : ~calls'[d].start \/ calls'[d] = calls[d]
      BY <1>6 DEF CancelRequest, NoCall, TypeOK
    <3> QED BY <1>6, <3>1, <3>2 DEF CancelRequest, KeepsDependencies
  <2> QED BY <2>1, KeepsDependenciesInv
<1> QED BY <1>0, <1>2, <1>3, <1>4, <1>5, <1>6

\* The later steps of a command start what its first step decided to start.
LEMMA CallDependencies ==
    ASSUME TypeOK, DependencyInv, NEW c \in Client, CallStep(c) \/ AbortCall(c)
    PROVE  DependencyInv'
<1>1. CASE CancelMark(c)
  <2>1. KeepsDependencies
    BY <1>1 DEF CancelMark, KeepsDependencies, TypeOK, Record, Call
  <2> QED BY <2>1, KeepsDependenciesInv
<1>2. CASE RetryPrepare(c)
  <2>1. KeepsDependencies
    BY <1>2 DEF RetryPrepare, KeepsDependencies, TypeOK, Call
  <2> QED BY <2>1, KeepsDependenciesInv
<1>3. CASE RetryFinish(c)
  <2> DEFINE t == calls[c].task
  <2>1. t \in Task
    BY <1>3 DEF RetryFinish, TypeOK
  <2>2. \A u \in Task : tasks'[u].state = "completed" => tasks[u].state = "completed"
    BY <1>3, <2>1 DEF RetryFinish, TypeOK, Record
  <2>3. \A d \in Client : ~calls'[d].start \/ calls'[d] = calls[d]
    BY <1>3 DEF RetryFinish, NoCall, TypeOK
  <2>4. /\ succeeded' = succeeded
        /\ UNCHANGED execs \/ (Start(t) /\ calls[c].start)
    BY <1>3 DEF RetryFinish, StartIf
  <2>5. CASE UNCHANGED execs
    BY <2>2, <2>3, <2>4, <2>5 DEF DependencyInv
  <2>6. CASE Start(t) /\ calls[c].start
    <3>1. DependsOn[t] \subseteq succeeded
      BY <2>6 DEF DependencyInv
    <3> HIDE DEF t
    <3> QED BY <2>1, <2>2, <2>3, <2>4, <2>6, <3>1, StartDependencies DEF DependencyInv
  <2> QED BY <2>4, <2>5, <2>6
<1>4. CASE CallCleanUp(c) \/ CallStore(c) \/ AbortCall(c)
  <2>1. \A d \in Client : \/ ~calls'[d].start
                          \/ /\ calls'[d].start = calls[d].start
                             /\ calls'[d].task = calls[d].task
    BY <1>4 DEF CallCleanUp, CallStore, AbortCall, NoCall, TypeOK, Call
  <2>2. KeepsDependencies
    BY <1>4, <2>1 DEF CallCleanUp, CallStore, AbortCall, KeepsDependencies
  <2> QED BY <2>2, KeepsDependenciesInv
<1>5. CASE CancelRemove(c)
  <2>1. KeepsDependencies
    BY <1>5 DEF CancelRemove, KeepsDependencies, TypeOK, Call
  <2> QED BY <2>1, KeepsDependenciesInv
<1> QED BY <1>1, <1>2, <1>3, <1>4, <1>5 DEF CallStep

\* Pausing and blocker threads start nothing.
LEMMA EnvironmentDependencies ==
    ASSUME TypeOK, DependencyInv, NEW t \in Task,
           Pause(t) \/ PostBlocker(t) \/ ResolveBlocker(t)
    PROVE  DependencyInv'
<1>0. tasks \in [Task -> Record] /\ tasks[t] \in Record
  BY DEF TypeOK
<1>1. CASE Pause(t)
  <2>1. \A e \in Exec : execs'[e].task = execs[e].task /\ execs'[e].ready = execs[e].ready
    BY <1>1 DEF Pause, TypeOK, Execution
  <2> QED BY <1>1, <2>1 DEF Pause, DependencyInv
<1>2. CASE PostBlocker(t)
  BY <1>0, <1>2 DEF PostBlocker, WithBlocker, DependencyInv, Record
<1>3. CASE ResolveBlocker(t)
  BY <1>0, <1>3 DEF ResolveBlocker, DependencyInv, Record
<1> QED BY <1>1, <1>2, <1>3

\* A completion queues only tasks whose dependencies are met, its own included.
LEMMA CompleteDependencies ==
    ASSUME TypeOK, DependencyInv, NEW e \in Exec, NEW outcome \in Outcomes(e),
           Complete(e, outcome)
    PROVE  DependencyInv'
<1> DEFINE t      == execs[e].task
           record == CompletedRecord(t, outcome)
           ts     == [tasks EXCEPT ![t] = record]
           ready  == ReadyTasks(ts, IF outcome = "paused" THEN {t} ELSE {})
           exec   == [NoExecution EXCEPT !.at = "cleanup", !.task = t,
                        !.attempt = execs[e].attempt,
                        !.final = record.state, !.ready = ready]
<1>1. /\ tasks \in [Task -> Record] /\ execs \in [Exec -> Execution]
      /\ t \in Task
  BY DEF Complete, Ended, TypeOK
<1>2. /\ tasks' = Requeued(ts, ready)
      /\ execs' = [execs EXCEPT ![e] = exec]
      /\ succeeded' = IF record.state = "completed" THEN succeeded \cup {t} ELSE succeeded
      /\ UNCHANGED calls
  BY DEF Complete
<1>3. exec.task = t /\ exec.ready = ready
  BY DEF NoExecution
<1>4. record \in Record
  <2>1. outcome \in Outcome
    BY DEF Outcomes, Outcome
  <2> QED BY <1>1, <2>1, CompletedRecordType
<1>5. \A u \in ready : u \in Task /\ DependenciesMet(ts, u)
  BY DEF ReadyTasks
<1> HIDE DEF record, ready, exec
<1>6. \A u \in Task : ts[u].state = "completed" => u \in succeeded'
  BY <1>1, <1>2 DEF DependencyInv
<1>7. \A u \in ready : DependsOn[u] \subseteq succeeded'
  BY <1>5, <1>6, TasksAssumption DEF DependenciesMet
<1>8. ts \in [Task -> Record]
  BY <1>1, <1>4
<1> HIDE DEF ts
<1>9. \A u \in Task : tasks'[u].state = "completed" => u \in succeeded'
  BY <1>2, <1>6, <1>8 DEF Requeued, Record
<1> QED BY <1>1, <1>2, <1>3, <1>7, <1>9 DEF DependencyInv

\* The steps of an execution start only what its completion queued.
LEMMA ExecutionDependencies ==
    ASSUME TypeOK, DependencyInv, NEW e \in Exec,
           ExecStep(e) \/ RemoteBlocked(e) \/ Abort(e)
    PROVE  DependencyInv'
<1>1. execs \in [Exec -> Execution] /\ tasks \in [Task -> Record]
  BY DEF TypeOK
<1>2. execs[e] \in Execution
  BY <1>1
<1>3. NoExecution.task \notin Task /\ NoExecution.ready = {}
  BY TasksAssumption DEF NoExecution
<1>4. CASE AcquireLease(e) \/ StoreLease(e) \/ Spawn(e) \/ StoreCleanUp(e)
  <2>1. \A f \in Exec : execs'[f].task = execs[f].task /\ execs'[f].ready = execs[f].ready
    BY <1>1, <1>2, <1>4
    DEF AcquireLease, StoreLease, Spawn, StoreCleanUp, Execution
  <2> QED BY <1>4, <2>1
      DEF AcquireLease, StoreLease, Spawn, StoreCleanUp, DependencyInv
<1>5. CASE Launch(e) \/ RemoteBlocked(e) \/ PublishHandoff(e)
  <2>1. \A f \in Exec : execs'[f].task = execs[f].task /\ execs'[f].ready = execs[f].ready
    BY <1>1, <1>2, <1>5 DEF Launch, RemoteBlocked, PublishHandoff, Execution
  <2>2. \A u \in Task : tasks'[u].state = "completed" => tasks[u].state = "completed"
    <3>1. CASE Launch(e) \/ RemoteBlocked(e)
      BY <1>1, <3>1 DEF Launch, RemoteBlocked, Record
    <3>2. CASE PublishHandoff(e)
      BY <3>2, HandoffMayBlock
    <3> QED BY <1>5, <3>1, <3>2
  <2> QED BY <1>5, <2>1, <2>2 DEF Launch, RemoteBlocked, PublishHandoff, DependencyInv
<1>6. CASE Ignore(e) \/ Abort(e)
  BY <1>1, <1>3, <1>6 DEF Ignore, Abort, DependencyInv
<1>7. CASE CleanUp(e)
  <2>1. \A f \in Exec : \/ /\ execs'[f].task = execs[f].task
                           /\ execs'[f].ready = execs[f].ready
                        \/ execs'[f] = NoExecution
    BY <1>1, <1>2, <1>7 DEF CleanUp, Execution
  <2> QED BY <1>3, <1>7, <2>1 DEF CleanUp, DependencyInv
<1>8. CASE SendResult(e)
  <2>1. /\ AfterSend(e).task \notin Task
        /\ AfterSend(e).ready \subseteq execs[e].ready
    BY <1>3 DEF AfterSend, NoExecution
  <2> QED BY <1>1, <1>8, <2>1 DEF SendResult, DependencyInv
<1>9. CASE Schedule(e)
  <2>1. PICK t \in execs[e].ready, f \in FreeExecs :
          execs' = [execs EXCEPT ![f] = Starting(t), ![e] = AfterStart(e, t)]
    BY <1>9 DEF Schedule
  <2>2. /\ Starting(t).task = t /\ Starting(t).ready = {}
        /\ f \in Exec /\ t \in Task
    BY <1>2 DEF Starting, NoExecution, FreeExecs, Execution
  <2>3. /\ AfterStart(e, t).task \in Task => AfterStart(e, t).task = execs[e].task
        /\ AfterStart(e, t).ready \subseteq execs[e].ready
    BY <1>2, <1>3 DEF AfterStart, Execution
  <2> QED BY <1>1, <1>9, <2>1, <2>2, <2>3 DEF Schedule, DependencyInv
<1>10. CASE \E outcome \in Outcomes(e) : Complete(e, outcome)
  BY <1>10, CompleteDependencies
<1> QED BY <1>4, <1>5, <1>6, <1>7, <1>8, <1>9, <1>10 DEF ExecStep

\* A task executes only after each of its dependencies has been completed,
\* although a start may be decided long before it launches, and the records
\* change in between.
THEOREM DependenciesComeFirst == Spec => []DependenciesFirst
<1>1. Init => DependencyInv
  BY InitDependencies
<1>2. TypeOK /\ DependencyInv /\ [Next]_vars => DependencyInv'
  <2> SUFFICES ASSUME TypeOK, DependencyInv, [Next]_vars PROVE DependencyInv'
    OBVIOUS
  <2>1. CASE UNCHANGED vars \/ PollResult
    BY <2>1 DEF vars, PollResult, DependencyInv
  <2> QED BY <2>1, OperatorDependencies, CallDependencies, ExecutionDependencies,
             EnvironmentDependencies DEF Next
<1>3. TypeOK /\ DependencyInv => DependenciesFirst
  BY DEF TypeOK, DependencyInv, DependenciesFirst, Executing, Ended
<1> QED BY <1>1, <1>2, <1>3, TypeCorrect, PTL DEF Spec

-----------------------------------------------------------------------------
(* Approval before the queue *)

\* Without blocker threads nothing queues a task but the handlers that look at
\* its gate.
QueueInv ==
    /\ QueuedNeedsNoApproval
    /\ \A t \in Task : tasks[t].thread = "none"

\* Steps that queue nothing and change no gate of a queued task.
KeepsQueue ==
    \A t \in Task :
        /\ tasks'[t].thread = tasks[t].thread
        /\ tasks'[t].state = "queued" =>
              tasks[t].state = "queued" /\ tasks'[t].gate = tasks[t].gate

\* Steps that queue nothing preserve the invariant.
LEMMA KeepsQueueInv ==
    ASSUME QueueInv, KeepsQueue
    PROVE  QueueInv'
BY DEF QueueInv, QueuedNeedsNoApproval, KeepsQueue

\* A record written for one task preserves the invariant when it satisfies it.
LEMMA RecordWritten ==
    ASSUME TypeOK, QueueInv, NEW t \in Task, NEW record,
           tasks' = [tasks EXCEPT ![t] = record],
           record.thread = tasks[t].thread,
           record.state = "queued" => record.gate.state # "pending"
    PROVE  QueueInv'
BY DEF TypeOK, QueueInv, QueuedNeedsNoApproval

\* Commands queue no task whose approval is pending.
LEMMA OperatorQueue ==
    ASSUME TypeOK, QueueInv, NEW c \in Client, Operator(c)
    PROVE  QueueInv'
<1>0. PICK t \in Task :
        \/ Delegate(c, t)
        \/ \E actor \in ActorKind : Approve(c, t, actor) \/ Reject(c, t, actor)
        \/ Retry(c, t)
        \/ CancelRequest(c, t)
  BY DEF Operator
<1>1. tasks \in [Task -> Record] /\ tasks[t] \in Record
  BY DEF TypeOK
<1>2. CASE Delegate(c, t)
  <2> DEFINE waiting == ~DependenciesMet(tasks, t)
             state(env) == IF env.state = "failed" THEN "blocked"
                           ELSE IF t \in ApprovalRequired THEN "pending_approval"
                           ELSE IF waiting THEN "blocked" ELSE "queued"
             reasons(env) == (IF waiting THEN {"dependency"} ELSE {})
                             \cup (IF env.state = "failed" THEN {"environment"} ELSE {})
             gate == IF t \in ApprovalRequired THEN Requested("pre_execution")
                                               ELSE NoGate
             record(env) == [tasks[t] EXCEPT !.state = state(env), !.gate = gate,
                                             !.reasons = reasons(env)]
  <2>1. PICK env \in Prepared :
          tasks' = [tasks EXCEPT ![t].state = state(env), ![t].gate = gate,
                                 ![t].reasons = reasons(env)]
    BY <1>2 DEF Delegate
  <2>2. state(env) = "queued" => gate.state # "pending"
    BY DEF NoGate
  <2> HIDE DEF state, gate, reasons
  <2>3. tasks' = [tasks EXCEPT ![t] = record(env)]
    BY <1>1, <2>1 DEF Record
  <2>4. /\ record(env).thread = tasks[t].thread
        /\ record(env).state = "queued" => record(env).gate.state # "pending"
    BY <1>1, <2>2 DEF Record
  <2> HIDE DEF record
  <2> QED BY <2>3, <2>4, RecordWritten
<1>3. ASSUME NEW actor \in ActorKind, Approve(c, t, actor)
      PROVE  QueueInv'
  <2> DEFINE record == ApprovedRecord(t, [tasks[t] EXCEPT !.gate = Decided("approved")])
  <2>1. tasks' = [tasks EXCEPT ![t] = record]
    BY <1>3 DEF Approve
  <2>2. /\ record.thread = tasks[t].thread
        /\ record.state = "queued" => record.gate.state # "pending"
    BY <1>1, <1>3 DEF Approve, ApprovedRecord, QueuedOrBlocked, Record, Decided
  <2> HIDE DEF record
  <2> QED BY <2>1, <2>2, RecordWritten
<1>4. ASSUME NEW actor \in ActorKind, Reject(c, t, actor)
      PROVE  QueueInv'
  <2>1. KeepsQueue
    BY <1>1, <1>4 DEF Reject, KeepsQueue, Record
  <2> QED BY <2>1, KeepsQueueInv
<1>5. CASE Retry(c, t)
  <2>1. tasks' = [tasks EXCEPT ![t] = Retried(t)]
    BY <1>5 DEF Retry
  <2>2. /\ Retried(t).thread = tasks[t].thread
        /\ Retried(t).state = "queued" => Retried(t).gate.state # "pending"
    BY <1>1 DEF Retried, Reset, QueuedOrBlocked, Record, NoGate
  <2> QED BY <2>1, <2>2, RecordWritten
<1>6. CASE CancelRequest(c, t)
  BY <1>6, KeepsQueueInv DEF CancelRequest, KeepsQueue
<1> QED BY <1>0, <1>2, <1>3, <1>4, <1>5, <1>6

\* Neither do the later steps of a command,
LEMMA CallQueue ==
    ASSUME TypeOK, QueueInv, NEW c \in Client, CallStep(c) \/ AbortCall(c)
    PROVE  QueueInv'
<1>0. tasks \in [Task -> Record]
  BY DEF TypeOK
<1>1. CASE CancelMark(c)
  BY <1>0, <1>1, KeepsQueueInv DEF CancelMark, KeepsQueue, Record
<1>2. CASE RetryFinish(c)
  BY <1>0, <1>2, KeepsQueueInv DEF RetryFinish, KeepsQueue, Record
<1>3. CASE UNCHANGED tasks
  BY <1>3, KeepsQueueInv DEF KeepsQueue
<1> QED BY <1>1, <1>2, <1>3
        DEF CallStep, AbortCall, CancelRemove, RetryPrepare, CallCleanUp, CallStore

\* nor a completion, which looks at the gate of each task it queues,
LEMMA CompleteQueue ==
    ASSUME TypeOK, QueueInv, NEW e \in Exec, NEW outcome \in Outcomes(e),
           Complete(e, outcome)
    PROVE  QueueInv'
<1> DEFINE t      == execs[e].task
           record == CompletedRecord(t, outcome)
           ts     == [tasks EXCEPT ![t] = record]
           ready  == ReadyTasks(ts, IF outcome = "paused" THEN {t} ELSE {})
<1>1. tasks \in [Task -> Record] /\ t \in Task
  BY DEF Complete, Ended, TypeOK
<1>2. outcome \in Outcome
  BY DEF Outcomes, Outcome
<1>3. tasks' = Requeued(ts, ready)
  BY DEF Complete
<1>4. record \in Record /\ record.state # "queued" /\ record.thread = tasks[t].thread
  <2>1. tasks[t] \in Record
    BY <1>1
  <2>2. record.state # "queued" /\ record.thread = tasks[t].thread
    BY <1>2, <2>1 DEF CompletedRecord, Outcome, Record
  <2>3. record \in Record
    BY <1>1, <1>2, CompletedRecordType
  <2> QED BY <2>2, <2>3
<1>5. \A u \in ready : ts[u].gate.state # "pending"
  BY DEF ReadyTasks
<1> HIDE DEF record, ready
<1>6. /\ ts \in [Task -> Record]
      /\ \A u \in Task : /\ ts[u].thread = tasks[u].thread
                         /\ ts[u].state = "queued" => ts[u] = tasks[u]
  BY <1>1, <1>4
<1> HIDE DEF ts
<1>7. \A u \in Task : /\ tasks'[u].thread = ts[u].thread
                      /\ tasks'[u].gate = ts[u].gate
                      /\ tasks'[u].state = "queued" => u \in ready \/ ts[u].state = "queued"
  BY <1>3, <1>6 DEF Requeued, Record
<1> QED BY <1>5, <1>6, <1>7 DEF QueueInv, QueuedNeedsNoApproval

\* nor any other step of an execution.
LEMMA ExecutionQueue ==
    ASSUME TypeOK, QueueInv, NEW e \in Exec,
           ExecStep(e) \/ RemoteBlocked(e) \/ Abort(e)
    PROVE  QueueInv'
<1>0. tasks \in [Task -> Record]
  BY DEF TypeOK
<1>1. CASE Launch(e) \/ RemoteBlocked(e)
  BY <1>0, <1>1, KeepsQueueInv DEF Launch, RemoteBlocked, KeepsQueue, Record
<1>2. CASE PublishHandoff(e)
  BY <1>2, HandoffMayBlock, KeepsQueueInv DEF PublishHandoff, KeepsQueue
<1>3. CASE UNCHANGED tasks
  BY <1>3, KeepsQueueInv DEF KeepsQueue
<1>4. CASE \E outcome \in Outcomes(e) : Complete(e, outcome)
  BY <1>4, CompleteQueue
<1> QED BY <1>1, <1>2, <1>3, <1>4
        DEF ExecStep, Abort, AcquireLease, StoreLease, Spawn, Ignore, CleanUp,
            StoreCleanUp, SendResult, Schedule

\* Where no blocker thread can be opened, a queued task is never one whose
\* pre-execution approval is pending.
THEOREM QueuedTasksAreApproved ==
    ASSUME Escalating = {}
    PROVE  Spec => []QueuedNeedsNoApproval
<1>1. Init => QueueInv
  BY DEF Init, Undelegated, QueueInv, QueuedNeedsNoApproval
<1>2. TypeOK /\ QueueInv /\ [Next]_vars => QueueInv'
  <2> SUFFICES ASSUME TypeOK, QueueInv, [Next]_vars PROVE QueueInv'
    OBVIOUS
  <2>1. CASE UNCHANGED vars \/ PollResult
    BY <2>1, KeepsQueueInv DEF vars, PollResult, KeepsQueue
  <2>2. ASSUME NEW t \in Task, Pause(t) \/ PostBlocker(t) \/ ResolveBlocker(t)
        PROVE  QueueInv'
    <3>1. UNCHANGED tasks
      BY <2>2 DEF Pause, PostBlocker, ResolveBlocker, QueueInv
    <3> QED BY <3>1, KeepsQueueInv DEF KeepsQueue
  <2> QED BY <2>1, <2>2, OperatorQueue, CallQueue, ExecutionQueue DEF Next
<1>3. QueueInv => QueuedNeedsNoApproval
  BY DEF QueueInv
<1> QED BY <1>1, <1>2, <1>3, TypeCorrect, PTL DEF Spec

-----------------------------------------------------------------------------
(* Slots *)

\* A free slot is given to the start of a task.
Given(f, t) ==
    /\ execs[f].at = "idle"
    /\ \A u \in Task : active[u].exec # f
    /\ execs'[f] = Starting(t)
    /\ \A g \in Exec \ {f} : execs'[g] = execs[g]

\* A slot goes on to another block of the same execution.
Advances(e, at) ==
    /\ execs'[e] \in Execution
    /\ execs'[e].at = at
    /\ execs'[e].task = execs[e].task
    /\ execs'[e].attempt = execs[e].attempt
    /\ execs'[e].token = execs[e].token
    /\ execs'[e].final = execs[e].final
    /\ execs'[e].ready = execs[e].ready
    /\ \A g \in Exec \ {e} : execs'[g] = execs[g]

\* A slot is emptied.
Empties(e) ==
    /\ execs'[e] = NoExecution
    /\ \A g \in Exec \ {e} : execs'[g] = execs[g]

\* No execution goes on, although one of them may be told to stop.
OnlyTokens ==
    \A e \in Exec :
        /\ execs'[e].at = execs[e].at
        /\ execs'[e].task = execs[e].task
        /\ execs'[e].attempt = execs[e].attempt
        /\ execs'[e].final = execs[e].final
        /\ execs'[e].ready = execs[e].ready
        /\ execs'[e].env = execs[e].env

\* What an empty slot and a slot given to a task look like.
LEMMA FixedSlots ==
    /\ NoExecution.at = "idle" /\ NoExecution.task = NoTask
    /\ NoExecution.ready = {} /\ NoExecution.token = "running"
    /\ NoExecution.attempt = 0
    /\ \A t : /\ Starting(t).at = "acquire" /\ Starting(t).task = t
              /\ Starting(t).ready = {} /\ Starting(t).token = "running"
              /\ Starting(t).attempt = 0
BY DEF NoExecution, Starting

\* A start gives a slot to the task, or does nothing after a failed write.
LEMMA StartGives ==
    ASSUME TypeOK, NEW t \in Task, Start(t)
    PROVE  (DiskFaults /\ UNCHANGED execs) \/ \E f \in Exec : Given(f, t)
BY DEF TypeOK, Start, FreeExecs, Given

\* An update of the block of a slot keeps the rest of the execution.
LEMMA SlotUpdates ==
    ASSUME TypeOK, NEW e \in Exec, NEW at \in ExecAt
    PROVE  /\ execs' = [execs EXCEPT ![e].at = at]
                => Advances(e, at) /\ execs'[e].env = execs[e].env
           /\ \A env \in Env :
                execs' = [execs EXCEPT ![e].at = at, ![e].env = env]
                  => Advances(e, at) /\ execs'[e].env = env
<1>0. execs \in [Exec -> Execution] /\ execs[e] \in Execution
  BY DEF TypeOK
<1>1. ASSUME execs' = [execs EXCEPT ![e].at = at]
      PROVE  Advances(e, at) /\ execs'[e].env = execs[e].env
  <2>1. execs'[e] = [execs[e] EXCEPT !.at = at]
    BY <1>0, <1>1
  <2> QED BY <1>0, <1>1, <2>1 DEF Advances, Execution
<1>2. ASSUME NEW env \in Env, execs' = [execs EXCEPT ![e].at = at, ![e].env = env]
      PROVE  Advances(e, at) /\ execs'[e].env = env
  <2>1. execs'[e] = [execs[e] EXCEPT !.at = at, !.env = env]
    BY <1>0, <1>2
  <2> QED BY <1>0, <1>2, <2>1 DEF Advances, Execution
<1> QED BY <1>1, <1>2

\* The steps of an execution that take it from one block to the next.
LEMMA ExecutionAdvances ==
    ASSUME TypeOK, NEW e \in Exec
    PROVE  /\ AcquireLease(e) => Advances(e, "store_lease")
           /\ StoreLease(e) => Advances(e, "launch")
           /\ Spawn(e) => Advances(e, "running")
           /\ RemoteBlocked(e) => Advances(e, "remote_blocked")
           /\ PublishHandoff(e) => Advances(e, "publish")
           /\ StoreCleanUp(e) =>
                \E at \in {"handoff", "publish"} :
                    /\ Advances(e, at)
                    /\ at = "handoff" => execs[e].final \in HandedOffAsBlocker
           /\ CleanUp(e) => \/ Advances(e, "store_cleanup") /\ ~execs'[e].env.leased
                            \/ Empties(e) /\ EnvFaults
           /\ Ignore(e) \/ Abort(e) => Empties(e)
<1>0. /\ execs \in [Exec -> Execution] /\ execs[e] \in Execution
      /\ envs \in [Task -> Env]
  BY DEF TypeOK
<1>1. {"store_lease", "launch", "running", "remote_blocked", "publish", "handoff",
       "store_cleanup"} \subseteq ExecAt
  BY DEF ExecAt
<1>2. AcquireLease(e) => Advances(e, "store_lease")
  <2>1. [state |-> "in_use", leased |-> TRUE] \in Env
    BY DEF Env, EnvState
  <2> QED BY <1>1, <2>1, SlotUpdates DEF AcquireLease
<1>3. /\ StoreLease(e) => Advances(e, "launch")
      /\ Spawn(e) => Advances(e, "running")
      /\ RemoteBlocked(e) => Advances(e, "remote_blocked")
      /\ PublishHandoff(e) => Advances(e, "publish")
  BY <1>1, SlotUpdates DEF StoreLease, Spawn, RemoteBlocked, PublishHandoff
<1>4. ASSUME StoreCleanUp(e)
      PROVE  \E at \in {"handoff", "publish"} :
                /\ Advances(e, at)
                /\ at = "handoff" => execs[e].final \in HandedOffAsBlocker
  <2>1. PICK at \in {"handoff", "publish"} :
          /\ execs' = [execs EXCEPT ![e].at = at]
          /\ at = "handoff" => execs[e].final \in HandedOffAsBlocker
    BY <1>4 DEF StoreCleanUp
  <2> QED BY <1>1, <2>1, SlotUpdates
<1>5. Ignore(e) \/ Abort(e) => Empties(e)
  BY <1>0 DEF Ignore, Abort, Empties
<1>6. CleanUp(e) => \/ Advances(e, "store_cleanup") /\ ~execs'[e].env.leased
                    \/ Empties(e) /\ EnvFaults
  <2> SUFFICES ASSUME CleanUp(e)
               PROVE  \/ Advances(e, "store_cleanup") /\ ~execs'[e].env.leased
                      \/ Empties(e) /\ EnvFaults
    OBVIOUS
  <2> DEFINE t     == execs[e].task
             final == execs[e].final
  <2>1. t \in Task
    BY DEF CleanUp, TypeOK
  <2>2. ASSUME NEW env \in IF final \in Terminal
                           THEN Finalized(t, final = "completed")
                           ELSE {Released(envs[t])},
               execs' = [execs EXCEPT ![e].at = "store_cleanup", ![e].env = env]
        PROVE  Advances(e, "store_cleanup") /\ ~execs'[e].env.leased
    <3>1. env \in Env /\ ~env.leased
      <4>1. CASE final \in Terminal
        <5>1. env \in Finalized(t, final = "completed")
          BY <2>2, <4>1
        <5>2. ~env.leased
          BY <5>1 DEF Finalized
        <5> QED BY <2>1, <5>1, <5>2, CleanUpTypes
      <4>2. CASE final \notin Terminal
        <5>1. env = Released(envs[t]) /\ envs[t] \in Env
          BY <1>0, <2>1, <2>2, <4>2
        <5> QED BY <5>1 DEF Released, Env, EnvState
      <4> QED BY <4>1, <4>2
    <3> QED BY <1>1, <2>2, <3>1, SlotUpdates
  <2>3. CASE EnvFaults /\ execs' = [execs EXCEPT ![e] = NoExecution]
    BY <1>0, <2>3 DEF Empties
  <2> QED BY <2>2, <2>3 DEF CleanUp
<1> QED BY <1>2, <1>3, <1>4, <1>5, <1>6

\* A launch, a completion, a sent result and the start of a ready task.
LEMMA ExecutionSlots ==
    ASSUME TypeOK, NEW e \in Exec
    PROVE  /\ Launch(e) =>
                /\ execs'[e] \in Execution
                /\ execs'[e].at = "spawn"
                /\ execs'[e].task = execs[e].task
                /\ execs'[e].attempt = LaunchedAttempt(e)
                /\ execs'[e].token = execs[e].token
                /\ execs'[e].ready = execs[e].ready
                /\ \A g \in Exec \ {e} : execs'[g] = execs[g]
           /\ \A outcome : Complete(e, outcome) =>
                /\ execs'[e].at = "cleanup"
                /\ execs'[e].task = execs[e].task
                /\ execs'[e].attempt = execs[e].attempt
                /\ execs'[e].token = "running"
                /\ execs'[e].final = CompletedRecord(execs[e].task, outcome).state
                /\ \A g \in Exec \ {e} : execs'[g] = execs[g]
           /\ SendResult(e) =>
                \/ Empties(e) /\ execs[e].ready = {}
                \/ /\ execs'[e].at = "schedule" /\ execs'[e].task = NoTask
                   /\ execs'[e].token = "running"
                   /\ execs'[e].ready = execs[e].ready
                   /\ \A g \in Exec \ {e} : execs'[g] = execs[g]
           /\ Schedule(e) => \E t \in execs[e].ready, f \in Exec \ {e} :
                /\ execs[f].at = "idle"
                /\ \A u \in Task : active[u].exec # f
                /\ execs'[f] = Starting(t)
                /\ \/ execs'[e] = NoExecution /\ execs[e].ready = {t}
                   \/ /\ execs'[e].at = "schedule"
                      /\ execs'[e].task = execs[e].task
                      /\ execs'[e].token = execs[e].token
                      /\ execs'[e].attempt = execs[e].attempt
                      /\ execs'[e].ready = execs[e].ready \ {t}
                /\ \A g \in Exec \ {e, f} : execs'[g] = execs[g]
<1>0. /\ execs \in [Exec -> Execution] /\ execs[e] \in Execution
      /\ tasks \in [Task -> Record]
  BY DEF TypeOK
<1>1. ASSUME Launch(e)
      PROVE  /\ execs'[e] \in Execution
             /\ execs'[e].at = "spawn"
             /\ execs'[e].task = execs[e].task
             /\ execs'[e].attempt = LaunchedAttempt(e)
             /\ execs'[e].token = execs[e].token
             /\ execs'[e].ready = execs[e].ready
             /\ \A g \in Exec \ {e} : execs'[g] = execs[g]
  <2>1. execs' = [execs EXCEPT ![e].at = "spawn", ![e].attempt = LaunchedAttempt(e)]
    BY <1>1 DEF Launch
  <2>2. LaunchedAttempt(e) \in Nat /\ "spawn" \in ExecAt
    BY <1>0, <1>1 DEF Launch, LaunchedAttempt, TypeOK, Record, ExecAt
  <2>3. execs'[e] = [execs[e] EXCEPT !.at = "spawn", !.attempt = LaunchedAttempt(e)]
    BY <1>0, <2>1
  <2> HIDE DEF LaunchedAttempt
  <2> QED BY <1>0, <2>1, <2>2, <2>3 DEF Execution
<1>2. ASSUME NEW outcome, Complete(e, outcome)
      PROVE  /\ execs'[e].at = "cleanup"
             /\ execs'[e].task = execs[e].task
             /\ execs'[e].attempt = execs[e].attempt
             /\ execs'[e].token = "running"
             /\ execs'[e].final = CompletedRecord(execs[e].task, outcome).state
             /\ \A g \in Exec \ {e} : execs'[g] = execs[g]
  <2> DEFINE final == CompletedRecord(execs[e].task, outcome).state
  <2>1. \E ready : execs' = [execs EXCEPT ![e] = [NoExecution EXCEPT !.at = "cleanup",
                      !.task = execs[e].task, !.attempt = execs[e].attempt,
                      !.final = final, !.ready = ready]]
    BY <1>2 DEF Complete
  <2> HIDE DEF final
  <2>2. /\ execs'[e].at = "cleanup"
        /\ execs'[e].task = execs[e].task
        /\ execs'[e].attempt = execs[e].attempt
        /\ execs'[e].token = "running"
        /\ execs'[e].final = final
        /\ \A g \in Exec \ {e} : execs'[g] = execs[g]
    BY <1>0, <2>1 DEF NoExecution
  <2> QED BY <2>2 DEF final
<1>3. ASSUME SendResult(e)
      PROVE  \/ Empties(e) /\ execs[e].ready = {}
             \/ /\ execs'[e].at = "schedule" /\ execs'[e].task = NoTask
                /\ execs'[e].token = "running"
                /\ execs'[e].ready = execs[e].ready
                /\ \A g \in Exec \ {e} : execs'[g] = execs[g]
  <2>1. execs' = [execs EXCEPT ![e] = AfterSend(e)]
    BY <1>3 DEF SendResult
  <2> QED BY <1>0, <2>1 DEF AfterSend, Empties, NoExecution
<1>4. ASSUME Schedule(e)
      PROVE  \E t \in execs[e].ready, f \in Exec \ {e} :
                /\ execs[f].at = "idle"
                /\ \A u \in Task : active[u].exec # f
                /\ execs'[f] = Starting(t)
                /\ \/ execs'[e] = NoExecution /\ execs[e].ready = {t}
                   \/ /\ execs'[e].at = "schedule"
                      /\ execs'[e].task = execs[e].task
                      /\ execs'[e].token = execs[e].token
                      /\ execs'[e].attempt = execs[e].attempt
                      /\ execs'[e].ready = execs[e].ready \ {t}
                /\ \A g \in Exec \ {e, f} : execs'[g] = execs[g]
  <2>1. PICK t \in execs[e].ready, f \in FreeExecs :
          execs' = [execs EXCEPT ![f] = Starting(t), ![e] = AfterStart(e, t)]
    BY <1>4 DEF Schedule
  <2>2. f \in Exec \ {e} /\ execs[e].at = "schedule"
    BY <1>4 DEF FreeExecs, Schedule
  <2>3. /\ execs'[f] = Starting(t) /\ execs'[e] = AfterStart(e, t)
        /\ \A g \in Exec \ {e, f} : execs'[g] = execs[g]
    BY <1>0, <2>1, <2>2
  <2>4. \/ AfterStart(e, t) = NoExecution /\ execs[e].ready = {t}
        \/ /\ AfterStart(e, t).at = "schedule"
           /\ AfterStart(e, t).task = execs[e].task
           /\ AfterStart(e, t).token = execs[e].token
           /\ AfterStart(e, t).attempt = execs[e].attempt
           /\ AfterStart(e, t).ready = execs[e].ready \ {t}
    BY <1>0, <2>2 DEF AfterStart, Execution
  <2> QED BY <2>1, <2>2, <2>3, <2>4 DEF FreeExecs
<1> QED BY <1>1, <1>2, <1>3, <1>4

\* What commands and interventions do to the slots.
LEMMA OutsideSlots ==
    ASSUME TypeOK
    PROVE  /\ \A c \in Client, t \in Task : CancelRequest(c, t) =>
                /\ OnlyTokens
                /\ \A e \in Exec : execs'[e].token \in {execs[e].token, "cancelled"}
           /\ \A t \in Task : Pause(t) => OnlyTokens
           /\ UNCHANGED execs => OnlyTokens
<1>0. execs \in [Exec -> Execution]
  BY DEF TypeOK
<1>1. ASSUME NEW c \in Client, NEW t \in Task, CancelRequest(c, t)
      PROVE  /\ OnlyTokens
             /\ \A e \in Exec : execs'[e].token \in {execs[e].token, "cancelled"}
  <2>1. UNCHANGED execs \/ execs' = [execs EXCEPT ![active[t].exec].token = "cancelled"]
    BY <1>1 DEF CancelRequest
  <2> QED BY <1>0, <2>1 DEF OnlyTokens, Execution
<1>2. ASSUME NEW t \in Task, Pause(t) PROVE OnlyTokens
  <2>1. execs' = [execs EXCEPT ![active[t].exec].token = "paused"]
    BY <1>2 DEF Pause
  <2> QED BY <1>0, <2>1 DEF OnlyTokens, Execution
<1>3. UNCHANGED execs => OnlyTokens
  BY DEF OnlyTokens
<1> QED BY <1>1, <1>2, <1>3

-----------------------------------------------------------------------------
(* Records *)

\* Only the record of t is written.
Written(t) == \A u \in Task \ {t} : tasks'[u] = tasks[u]

\* The record of t goes to one of some states, of the same attempt.
Goes(t, states) ==
    /\ Written(t)
    /\ tasks'[t].state \in states
    /\ tasks'[t].attempts = tasks[t].attempts
    /\ tasks'[t].result = tasks[t].result
    /\ tasks'[t].thread = tasks[t].thread

\* A task is started, or a write fails before.
Started(t) == (DiskFaults /\ UNCHANGED execs) \/ \E f \in Exec : Given(f, t)

\* What delegate_task writes.
LEMMA DelegateRecord ==
    ASSUME TypeOK, NEW c \in Client, NEW t \in Task, Delegate(c, t)
    PROVE  /\ Goes(t, {"blocked", "pending_approval", "queued"})
           /\ tasks'[t].state = "blocked"
                => ~DependenciesMet(tasks, t) \/ EnvFaults
           /\ IF tasks'[t].state = "queued" THEN Started(t) ELSE UNCHANGED execs
           /\ t \in ApprovalRequired => /\ tasks'[t].gate = Requested("pre_execution")
                                        /\ tasks'[t].state # "queued"
           /\ ~envs'[t].leased
           /\ \A u \in Task \ {t} : envs'[u] = envs[u]
<1>0. tasks \in [Task -> Record] /\ tasks[t] \in Record /\ envs \in [Task -> Env]
  BY DEF TypeOK
<1> DEFINE waiting == ~DependenciesMet(tasks, t)
           state(env) == IF env.state = "failed" THEN "blocked"
                         ELSE IF t \in ApprovalRequired THEN "pending_approval"
                         ELSE IF waiting THEN "blocked" ELSE "queued"
           reasons(env) == (IF waiting THEN {"dependency"} ELSE {})
                           \cup (IF env.state = "failed" THEN {"environment"} ELSE {})
           gate == IF t \in ApprovalRequired THEN Requested("pre_execution")
                                             ELSE NoGate
           record(env) == [tasks[t] EXCEPT !.state = state(env), !.gate = gate,
                                           !.reasons = reasons(env)]
<1>1. PICK env \in Prepared :
        /\ tasks' = [tasks EXCEPT ![t].state = state(env), ![t].gate = gate,
                                  ![t].reasons = reasons(env)]
        /\ envs' = [envs EXCEPT ![t] = env]
        /\ StartIf(state(env) = "queued", t)
  BY DEF Delegate
<1>2. /\ state(env) \in {"blocked", "pending_approval", "queued"}
      /\ state(env) = "blocked" => waiting \/ EnvFaults
      /\ t \in ApprovalRequired => /\ gate = Requested("pre_execution")
                                   /\ state(env) # "queued"
      /\ ~env.leased
  BY <1>1 DEF Prepared
<1>3. IF state(env) = "queued" THEN Started(t) ELSE UNCHANGED execs
  BY <1>1, StartGives DEF StartIf, Started
<1> HIDE DEF state, gate, reasons, waiting
<1>4. tasks' = [tasks EXCEPT ![t] = record(env)]
  BY <1>0, <1>1 DEF Record
<1>5. /\ record(env).state = state(env) /\ record(env).gate = gate
      /\ record(env).attempts = tasks[t].attempts
      /\ record(env).result = tasks[t].result
      /\ record(env).thread = tasks[t].thread
  BY <1>0 DEF Record
<1> HIDE DEF record
<1>6. /\ tasks'[t] = record(env) /\ \A u \in Task \ {t} : tasks'[u] = tasks[u]
      /\ envs'[t] = env /\ \A u \in Task \ {t} : envs'[u] = envs[u]
  BY <1>0, <1>1, <1>4
<1> QED BY <1>2, <1>3, <1>5, <1>6 DEF Goes, Written, waiting

\* What approve_task writes.
LEMMA ApproveRecord ==
    ASSUME TypeOK, NEW c \in Client, NEW t \in Task, NEW actor \in ActorKind,
           Approve(c, t, actor)
    PROVE  /\ \/ tasks[t].state = "pending_approval" /\ Goes(t, {"queued", "blocked"})
              \/ /\ tasks[t].state \in {"review_pending", "test_pending"}
                 /\ Goes(t, {"test_pending", "completed"})
           /\ IF tasks'[t].state = "queued" THEN Started(t) ELSE UNCHANGED execs
           /\ tasks[t].state = "pending_approval" => "pre_execution" \in granted'[t]
           /\ \A u \in Task : granted[u] \subseteq granted'[u]
           /\ UNCHANGED <<active, envs, results>>
           /\ \/ UNCHANGED calls
              \/ calls' = [calls EXCEPT ![c] = [NoCall EXCEPT
                                !.at = "cleanup", !.task = t, !.success = TRUE]]
<1> DEFINE decided == [tasks[t] EXCEPT !.gate = Decided("approved")]
           record == ApprovedRecord(t, decided)
<1>0. /\ tasks \in [Task -> Record] /\ tasks[t] \in Record
      /\ granted \in [Task -> SUBSET Scope]
  BY DEF TypeOK
<1>1. /\ tasks' = [tasks EXCEPT ![t] = record]
      /\ StartIf(record.state = "queued", t)
      /\ ScopeOf(tasks[t].state) # "none"
      /\ granted' = [granted EXCEPT ![t] = granted[t] \cup {ScopeOf(tasks[t].state)}]
      /\ UNCHANGED <<active, envs, results>>
      /\ \/ UNCHANGED calls
         \/ calls' = [calls EXCEPT ![c] = [NoCall EXCEPT
                           !.at = "cleanup", !.task = t, !.success = TRUE]]
  BY DEF Approve
<1>2. tasks[t].state \in {"pending_approval", "review_pending", "test_pending"}
  BY <1>1 DEF ScopeOf
<1>3. /\ record.attempts = tasks[t].attempts
      /\ record.result = tasks[t].result
      /\ record.thread = tasks[t].thread
      /\ tasks[t].state = "pending_approval" => record.state \in {"queued", "blocked"}
      /\ tasks[t].state \in {"review_pending", "test_pending"}
            => record.state \in {"test_pending", "completed"}
  BY <1>0, <1>2 DEF ApprovedRecord, QueuedOrBlocked, Record
<1> HIDE DEF record
<1>4. tasks'[t] = record /\ \A u \in Task \ {t} : tasks'[u] = tasks[u]
  BY <1>0, <1>1
<1>5. IF record.state = "queued" THEN Started(t) ELSE UNCHANGED execs
  BY <1>1, StartGives DEF StartIf, Started
<1>6. /\ tasks[t].state = "pending_approval" => "pre_execution" \in granted'[t]
      /\ \A u \in Task : granted[u] \subseteq granted'[u]
  BY <1>0, <1>1 DEF ScopeOf
<1> QED BY <1>1, <1>2, <1>3, <1>4, <1>5, <1>6 DEF Goes, Written

\* What reject_task writes.
LEMMA RejectRecord ==
    ASSUME TypeOK, NEW c \in Client, NEW t \in Task, NEW actor \in ActorKind,
           Reject(c, t, actor)
    PROVE  /\ Goes(t, {"failed"})
           /\ tasks[t].state \in {"pending_approval", "review_pending", "test_pending"}
<1>0. tasks \in [Task -> Record] /\ tasks[t] \in Record
  BY DEF TypeOK
<1>1. tasks' = [tasks EXCEPT ![t] =
                  [tasks[t] EXCEPT !.state = "failed", !.gate = Decided("needs_revision")]]
  BY <1>0 DEF Reject, Record
<1>2. tasks[t].state \in {"pending_approval", "review_pending", "test_pending"}
  BY DEF Reject, ScopeOf
<1> QED BY <1>0, <1>1, <1>2 DEF Goes, Written, Record

\* What the first block of retry_task writes.
LEMMA RetryRecord ==
    ASSUME TypeOK, NEW c \in Client, NEW t \in Task, Retry(c, t)
    PROVE  /\ Written(t)
           /\ tasks'[t].state \in {"pending_approval", "queued", "blocked"}
           /\ tasks'[t].attempts = tasks[t].attempts + 1
           /\ tasks'[t].thread = tasks[t].thread
           /\ \A u \in Task \ {t} : granted'[u] = granted[u]
           /\ calls'[c].task = t /\ calls'[c].at = "prepare"
           /\ calls'[c].start <=> tasks'[t].state = "queued"
           /\ \A d \in Client \ {c} : calls'[d] = calls[d]
<1>0. /\ tasks \in [Task -> Record] /\ tasks[t] \in Record
      /\ granted \in [Task -> SUBSET Scope] /\ calls \in [Client -> Call]
  BY DEF TypeOK
<1>1. /\ Retried(t).state \in {"pending_approval", "queued", "blocked"}
      /\ Retried(t).attempts = tasks[t].attempts + 1
      /\ Retried(t).thread = tasks[t].thread
  BY <1>0 DEF Retried, Reset, QueuedOrBlocked, Record
<1>2. tasks'[t] = Retried(t) /\ \A u \in Task \ {t} : tasks'[u] = tasks[u]
  BY <1>0 DEF Retry
<1>3. calls'[c] = [NoCall EXCEPT !.at = "prepare", !.task = t,
                                 !.start = Retried(t).state = "queued"]
      /\ \A d \in Client \ {c} : calls'[d] = calls[d]
  BY <1>0 DEF Retry
<1>4. \A u \in Task \ {t} : granted'[u] = granted[u]
  BY <1>0 DEF Retry
<1>5. calls'[c].task = t /\ calls'[c].at = "prepare"
      /\ (calls'[c].start <=> Retried(t).state = "queued")
  BY <1>3 DEF NoCall
<1> QED BY <1>1, <1>2, <1>3, <1>4, <1>5 DEF Written

\* What its last block, and cancel_task, write.
LEMMA CallRecords ==
    ASSUME TypeOK, NEW c \in Client
    PROVE  /\ RetryFinish(c) => UNCHANGED tasks \/ Goes(calls[c].task, {"blocked"})
           /\ RetryFinish(c) => UNCHANGED execs \/ Started(calls[c].task)
           /\ CancelMark(c) => Goes(calls[c].task, {"cancelled"})
<1>0. tasks \in [Task -> Record] /\ (calls[c].at # "idle" => calls[c].task \in Task)
  BY DEF TypeOK
<1>1. RetryFinish(c) => UNCHANGED tasks \/ Goes(calls[c].task, {"blocked"})
  BY <1>0 DEF RetryFinish, Goes, Written, Record
<1>2. RetryFinish(c) => UNCHANGED execs \/ Started(calls[c].task)
  <2> SUFFICES ASSUME RetryFinish(c) PROVE UNCHANGED execs \/ Started(calls[c].task)
    OBVIOUS
  <2>1. calls[c].task \in Task /\ (Start(calls[c].task) \/ UNCHANGED execs)
    BY <1>0 DEF RetryFinish, StartIf
  <2> QED BY <2>1, StartGives DEF Started
<1>3. CancelMark(c) => Goes(calls[c].task, {"cancelled"})
  BY <1>0 DEF CancelMark, Goes, Written, Record
<1> QED BY <1>1, <1>2, <1>3

\* What a blocker changes of a record.
LEMMA BlockerRecord ==
    ASSUME NEW record \in Record, NEW reason
    PROVE  /\ WithBlocker(record, reason).state =
                IF record.state \in Terminal THEN record.state ELSE "blocked"
           /\ WithBlocker(record, reason).attempts = record.attempts
           /\ WithBlocker(record, reason).result = record.result
           /\ WithBlocker(record, reason).thread = record.thread
<1>1. WithBlocker(record, reason) =
        [record EXCEPT !.reasons = record.reasons \cup {reason},
                       !.state = IF record.state \in Terminal THEN record.state
                                                             ELSE "blocked"]
  BY DEF WithBlocker
<1> QED BY <1>1 DEF Record

\* What an execution writes before its result.
LEMMA ExecutionRecords ==
    ASSUME TypeOK, NEW e \in Exec
    PROVE  /\ Launch(e) => Goes(execs[e].task, {"running"})
           /\ RemoteBlocked(e) => Goes(execs[e].task, {"blocked"})
           /\ PublishHandoff(e) =>
                \/ UNCHANGED tasks
                \/ tasks[execs[e].task].state \in Terminal
                   /\ Goes(execs[e].task, {tasks[execs[e].task].state})
                \/ tasks[execs[e].task].state \notin Terminal
                   /\ Goes(execs[e].task, {"blocked"})
<1> DEFINE t == execs[e].task
<1>0. /\ tasks \in [Task -> Record]
      /\ execs[e].at \notin {"idle", "schedule"} => t \in Task
  BY DEF TypeOK
<1>1. Launch(e) => Goes(t, {"running"})
  BY <1>0 DEF Launch, Goes, Written, Record
<1>2. RemoteBlocked(e) => Goes(t, {"blocked"})
  BY <1>0 DEF RemoteBlocked, Goes, Written, Record
<1>3. ASSUME PublishHandoff(e), ~UNCHANGED tasks
      PROVE  \/ tasks[t].state \in Terminal /\ Goes(t, {tasks[t].state})
             \/ tasks[t].state \notin Terminal /\ Goes(t, {"blocked"})
  <2>1. t \in Task /\ tasks[t] \in Record
        /\ tasks' = [tasks EXCEPT ![t] = WithBlocker(tasks[t], "handoff")]
    BY <1>0, <1>3 DEF PublishHandoff
  <2>2. /\ tasks'[t] = WithBlocker(tasks[t], "handoff")
        /\ \A u \in Task \ {t} : tasks'[u] = tasks[u]
    BY <1>0, <2>1
  <2>3. /\ tasks'[t].state = IF tasks[t].state \in Terminal THEN tasks[t].state
                                                           ELSE "blocked"
        /\ tasks'[t].attempts = tasks[t].attempts
        /\ tasks'[t].result = tasks[t].result
        /\ tasks'[t].thread = tasks[t].thread
    BY <2>1, <2>2, BlockerRecord
  <2> QED BY <2>2, <2>3 DEF Goes, Written
<1>4. PublishHandoff(e) =>
        \/ UNCHANGED tasks
        \/ tasks[t].state \in Terminal /\ Goes(t, {tasks[t].state})
        \/ tasks[t].state \notin Terminal /\ Goes(t, {"blocked"})
  BY <1>3
<1> QED BY <1>1, <1>2, <1>4

\* A record after a result is that of the same attempt.
LEMMA ResultRecord ==
    ASSUME TypeOK, NEW t \in Task, NEW outcome \in Outcome
    PROVE  /\ CompletedRecord(t, outcome) \in Record
           /\ CompletedRecord(t, outcome).state \in
                {"review_pending", "test_pending", "completed", "blocked", "failed",
                 "cancelled"}
           /\ CompletedRecord(t, outcome).state = "blocked"
                => outcome \in {"blocked", "paused"}
           /\ CompletedRecord(t, outcome).attempts = tasks[t].attempts
           /\ CompletedRecord(t, outcome).thread = tasks[t].thread
           /\ CompletedRecord(t, outcome).result
<1>1. tasks[t] \in Record
  BY DEF TypeOK
<1>2. CompletedRecord(t, outcome) \in Record
  BY CompletedRecordType
<1> QED BY <1>1, <1>2 DEF CompletedRecord, Outcome, Record

\* What a completion writes: the result, and the state of each task it queues.
LEMMA CompleteRecords ==
    ASSUME TypeOK, NEW e \in Exec, NEW outcome \in Outcomes(e), Complete(e, outcome)
    PROVE  LET t      == execs[e].task
               record == CompletedRecord(t, outcome)
               ready  == execs'[e].ready
           IN  /\ t \in Task /\ outcome \in Outcome
               /\ active' = [active EXCEPT ![t] = NotActive]
               /\ ready \subseteq Task
               /\ \A u \in ready :
                    /\ tasks'[u].state = "queued"
                    /\ \/ u = t /\ record.state = "blocked"
                       \/ u # t /\ tasks[u].state = "blocked"
                    /\ u # t => tasks[u].gate.state # "pending"
               /\ t \notin ready => tasks'[t] = record
               /\ \A u \in Task \ ({t} \cup ready) : tasks'[u] = tasks[u]
               /\ \A u \in Task : /\ tasks'[u].attempts = tasks[u].attempts
                                  /\ tasks'[u].thread = tasks[u].thread
               /\ \A u \in Task \ {t} : tasks'[u].result = tasks[u].result
               /\ tasks'[t].result
<1> DEFINE t      == execs[e].task
           record == CompletedRecord(t, outcome)
           ts     == [tasks EXCEPT ![t] = record]
           ready  == ReadyTasks(ts, IF outcome = "paused" THEN {t} ELSE {})
<1>0. tasks \in [Task -> Record] /\ execs \in [Exec -> Execution] /\ t \in Task
  BY DEF Complete, Ended, TypeOK
<1>1. /\ tasks' = Requeued(ts, ready)
      /\ active' = [active EXCEPT ![t] = NotActive]
      /\ execs' = [execs EXCEPT ![e] = [NoExecution EXCEPT !.at = "cleanup",
                        !.task = t, !.attempt = execs[e].attempt,
                        !.final = record.state, !.ready = ready]]
  BY DEF Complete
<1>2. outcome \in Outcome
  BY DEF Outcomes, Outcome
<1>3. /\ record \in Record /\ record.attempts = tasks[t].attempts
      /\ record.thread = tasks[t].thread /\ record.result
  BY <1>0, <1>2, ResultRecord
<1>4. /\ ready \subseteq Task
      /\ \A u \in ready : ts[u].state = "blocked" /\ ts[u].gate.state # "pending"
  BY DEF ReadyTasks
<1> HIDE DEF ready, record
<1>5. execs'[e].ready = ready
  BY <1>0, <1>1 DEF NoExecution
<1>6. /\ ts \in [Task -> Record] /\ ts[t] = record
      /\ \A u \in Task \ {t} : ts[u] = tasks[u]
  BY <1>0, <1>3
<1> HIDE DEF ts
<1>7. \A u \in Task : /\ tasks'[u].attempts = ts[u].attempts
                      /\ tasks'[u].thread = ts[u].thread
                      /\ tasks'[u].result = ts[u].result
                      /\ u \in ready => tasks'[u].state = "queued"
                      /\ u \notin ready => tasks'[u] = ts[u]
  BY <1>1, <1>6 DEF Requeued, Record
<1>8. \A u \in ready : /\ u \in Task /\ tasks'[u].state = "queued"
                       /\ \/ u = t /\ record.state = "blocked"
                          \/ u # t /\ tasks[u].state = "blocked"
                       /\ u # t => tasks[u].gate.state # "pending"
  BY <1>4, <1>6, <1>7
<1>9. /\ t \notin ready => tasks'[t] = record
      /\ \A u \in Task \ ({t} \cup ready) : tasks'[u] = tasks[u]
      /\ \A u \in Task : /\ tasks'[u].attempts = tasks[u].attempts
                         /\ tasks'[u].thread = tasks[u].thread
      /\ \A u \in Task \ {t} : tasks'[u].result = tasks[u].result
      /\ tasks'[t].result
  BY <1>0, <1>3, <1>6, <1>7
<1> QED BY <1>0, <1>1, <1>2, <1>4, <1>5, <1>8, <1>9 DEF record

\* What a blocker thread does to the record of its task.
LEMMA ThreadRecords ==
    ASSUME TypeOK, NEW t \in Task, PostBlocker(t) \/ ResolveBlocker(t)
    PROVE  /\ Written(t)
           /\ tasks'[t].state \in {tasks[t].state, "blocked", "queued"}
           /\ tasks'[t].state = "queued" => tasks[t].state \in {"queued", "blocked"}
           /\ tasks'[t].state = "blocked" => tasks[t].state \notin Terminal \cup {"undelegated"}
           /\ tasks'[t].attempts = tasks[t].attempts
           /\ tasks'[t].gate = tasks[t].gate
           /\ t \in Escalating \/ tasks[t].thread # "none"
<1>0. tasks \in [Task -> Record] /\ tasks[t] \in Record
  BY DEF TypeOK
<1>1. CASE PostBlocker(t)
  <2>1. /\ tasks'[t] = [WithBlocker(tasks[t], "blocker") EXCEPT !.thread = "open"]
        /\ \A u \in Task \ {t} : tasks'[u] = tasks[u]
    BY <1>0, <1>1 DEF PostBlocker
  <2> QED BY <1>0, <1>1, <2>1 DEF PostBlocker, WithBlocker, Written, Record, Terminal
<1>2. CASE ResolveBlocker(t)
  BY <1>0, <1>2 DEF ResolveBlocker, Written, Record, Terminal
<1> QED BY <1>1, <1>2

-----------------------------------------------------------------------------
(* Running tasks can be cancelled *)

\* The control of a local task that is running is that of an execution of its
\* current attempt.  Only a write that fails at the launch leaves the control
\* with a slot that nothing executes in, and that nothing is given to.
ControlIsCurrent(t) ==
    /\ active[t] # NotActive
    /\ active[t].attempt = tasks[t].attempts
    /\ \/ /\ Executing(active[t].exec)
          /\ execs[active[t].exec].task = t
          /\ execs[active[t].exec].attempt = active[t].attempt
       \/ DiskFaults /\ execs[active[t].exec].at = "idle"

\* The inductive invariant: beside this, only remote tasks lose their control
\* to a cancellation before their execution has ended.
ControlInv ==
    /\ \A t \in Task \ Remote : tasks[t].state = "running" => ControlIsCurrent(t)
    /\ \A c \in Client : calls[c].at = "cancel_remove" => calls[c].task \in Remote

\* No call comes to remove the control of a local task.
KeepsCalls ==
    \A c \in Client : calls'[c].at = "cancel_remove" => calls'[c].task \in Remote

\* The execution in a slot goes on executing, or the slot stays idle.
KeepsSlot(e) ==
    /\ execs'[e].task = execs[e].task
    /\ execs'[e].attempt = execs[e].attempt
    /\ execs'[e].at = execs[e].at \/ (Executing(e) /\ Executing(e)')

\* Steps after which no task runs that did not run before, with its control
\* and its slot, preserve the invariant.
LEMMA KeepsControls ==
    ASSUME TypeOK, ControlInv, KeepsCalls,
           \A t \in Task \ Remote :
              tasks'[t].state = "running" =>
                /\ tasks[t].state = "running"
                /\ tasks'[t].attempts = tasks[t].attempts
                /\ active'[t] = active[t]
                /\ KeepsSlot(active[t].exec)
    PROVE  ControlInv'
<1> SUFFICES ASSUME NEW t \in Task \ Remote, tasks'[t].state = "running"
             PROVE  ControlIsCurrent(t)'
  BY DEF ControlInv, KeepsCalls
<1>1. /\ ControlIsCurrent(t)
      /\ tasks'[t].attempts = tasks[t].attempts
      /\ active'[t] = active[t]
      /\ KeepsSlot(active[t].exec)
  BY DEF ControlInv
<1>2. CASE /\ Executing(active[t].exec)
           /\ execs[active[t].exec].task = t
           /\ execs[active[t].exec].attempt = active[t].attempt
  BY <1>1, <1>2 DEF ControlIsCurrent, KeepsSlot, Executing
<1>3. CASE DiskFaults /\ execs[active[t].exec].at = "idle"
  BY <1>1, <1>3 DEF ControlIsCurrent, KeepsSlot, Executing, Ended
<1> QED BY <1>1, <1>2, <1>3 DEF ControlIsCurrent

\* The slot of a control is a slot.
LEMMA ControlSlot ==
    ASSUME TypeOK, ControlInv, NEW t \in Task \ Remote, tasks[t].state = "running"
    PROVE  /\ active[t].exec \in Exec
           /\ ControlIsCurrent(t)
<1>1. active[t] \in Control /\ active[t] # NotActive
  BY DEF TypeOK, ControlInv, ControlIsCurrent
<1> QED BY <1>1 DEF Control, NotActive, ControlInv

\* A command that an operator issues leaves the controls alone.
LEMMA OperatorControls ==
    ASSUME TypeOK, ControlInv, NEW c \in Client, Operator(c)
    PROVE  ControlInv'
<1>0. PICK t \in Task :
        \/ Delegate(c, t)
        \/ \E actor \in ActorKind : Approve(c, t, actor) \/ Reject(c, t, actor)
        \/ Retry(c, t)
        \/ CancelRequest(c, t)
  BY DEF Operator
<1>1. calls \in [Client -> Call]
  BY DEF TypeOK
<1>2. ASSUME Written(t), tasks'[t].state # "running", UNCHANGED active,
             UNCHANGED execs \/ OnlyTokens \/ \E f \in Exec : Given(f, t), KeepsCalls
      PROVE  ControlInv'
  <2> SUFFICES ASSUME NEW u \in Task \ Remote, tasks'[u].state = "running"
               PROVE  /\ tasks[u].state = "running"
                      /\ tasks'[u].attempts = tasks[u].attempts
                      /\ active'[u] = active[u]
                      /\ KeepsSlot(active[u].exec)
    BY <1>2, KeepsControls
  <2>1. tasks'[u] = tasks[u]
    BY <1>2 DEF Written
  <2>2. active[u].exec \in Exec
    BY <2>1, ControlSlot
  <2>3. KeepsSlot(active[u].exec)
    BY <1>2, <2>2 DEF KeepsSlot, OnlyTokens, Given
  <2> QED BY <1>2, <2>1, <2>3
<1>3. CASE Delegate(c, t)
  <2>1. Written(t) /\ tasks'[t].state # "running"
    BY <1>3, DelegateRecord DEF Goes
  <2>2. UNCHANGED execs \/ \E f \in Exec : Given(f, t)
    BY <1>3, DelegateRecord DEF Started
  <2>3. UNCHANGED <<active, calls>>
    BY <1>3 DEF Delegate
  <2> QED BY <1>2, <2>1, <2>2, <2>3 DEF KeepsCalls, ControlInv
<1>4. ASSUME NEW actor \in ActorKind, Approve(c, t, actor)
      PROVE  ControlInv'
  <2>1. Written(t) /\ tasks'[t].state # "running"
    BY <1>4, ApproveRecord DEF Goes
  <2>2. UNCHANGED execs \/ \E f \in Exec : Given(f, t)
    BY <1>4, ApproveRecord DEF Started
  <2>3. KeepsCalls /\ UNCHANGED active
    <3>1. \/ UNCHANGED calls
          \/ calls' = [calls EXCEPT ![c] = [NoCall EXCEPT
                           !.at = "cleanup", !.task = t, !.success = TRUE]]
      BY <1>4, ApproveRecord
    <3>2. UNCHANGED active
      BY <1>4, ApproveRecord
    <3> QED BY <1>1, <3>1, <3>2 DEF KeepsCalls, ControlInv, NoCall
  <2> QED BY <1>2, <2>1, <2>2, <2>3
<1>5. ASSUME NEW actor \in ActorKind, Reject(c, t, actor)
      PROVE  ControlInv'
  <2>1. Written(t) /\ tasks'[t].state # "running"
    BY <1>5, RejectRecord DEF Goes
  <2>2. KeepsCalls /\ UNCHANGED <<active, execs>>
    BY <1>1, <1>5 DEF Reject, KeepsCalls, ControlInv, NoCall
  <2> QED BY <1>2, <2>1, <2>2
<1>6. CASE Retry(c, t)
  <2>1. Written(t) /\ tasks'[t].state # "running"
    BY <1>6, RetryRecord
  <2>2. KeepsCalls
    BY <1>6, RetryRecord DEF KeepsCalls, ControlInv
  <2>3. UNCHANGED <<active, execs>>
    BY <1>6 DEF Retry
  <2> QED BY <1>2, <2>1, <2>2, <2>3
<1>7. CASE CancelRequest(c, t)
  <2>1. UNCHANGED <<tasks, active>> /\ OnlyTokens
    BY <1>7, OutsideSlots DEF CancelRequest
  <2>2. KeepsCalls
    BY <1>1, <1>7 DEF CancelRequest, KeepsCalls, ControlInv, NoCall
  <2> SUFFICES ASSUME NEW u \in Task \ Remote, tasks'[u].state = "running"
               PROVE  KeepsSlot(active[u].exec)
    BY <2>1, <2>2, KeepsControls
  <2> QED BY <2>1, ControlSlot DEF KeepsSlot, OnlyTokens
<1> QED BY <1>0, <1>3, <1>4, <1>5, <1>6, <1>7

\* So does every later block of a command, but for the removal of a control,
\* which is that of a remote task.
LEMMA CallControls ==
    ASSUME TypeOK, ControlInv, NEW c \in Client, CallStep(c) \/ AbortCall(c)
    PROVE  ControlInv'
<1>0. calls \in [Client -> Call] /\ (calls[c].at # "idle" => calls[c].task \in Task)
      /\ active \in [Task -> Control]
  BY DEF TypeOK
<1>1. KeepsCalls
  <2>1. /\ \A d \in Client \ {c} : calls'[d] = calls[d]
        /\ calls'[c].at # "cancel_remove"
    BY <1>0 DEF CallStep, AbortCall, CancelRemove, CancelMark, RetryPrepare, RetryFinish,
                CallCleanUp, CallStore, NoCall, Call
  <2> QED BY <2>1 DEF KeepsCalls, ControlInv
<1>2. CASE CancelRemove(c)
  <2>1. UNCHANGED <<tasks, execs>>
        /\ \A u \in Task \ Remote : active'[u] = active[u]
    BY <1>0, <1>2 DEF CancelRemove, ControlInv
  <2> QED BY <1>1, <2>1, KeepsControls DEF KeepsSlot
<1>3. CASE CancelMark(c) \/ RetryFinish(c)
  <2> DEFINE t == calls[c].task
  <2>1. t \in Task /\ UNCHANGED active
    BY <1>0, <1>3 DEF CancelMark, RetryFinish
  <2>2. UNCHANGED tasks \/ (Written(t) /\ tasks'[t].state # "running")
    BY <1>3, CallRecords DEF Goes
  <2>3. UNCHANGED execs \/ \E f \in Exec : Given(f, t)
    BY <1>3, CallRecords DEF CancelMark, Started
  <2> SUFFICES ASSUME NEW u \in Task \ Remote, tasks'[u].state = "running"
               PROVE  /\ tasks[u].state = "running"
                      /\ tasks'[u].attempts = tasks[u].attempts
                      /\ active'[u] = active[u]
                      /\ KeepsSlot(active[u].exec)
    BY <1>1, KeepsControls
  <2>4. tasks'[u] = tasks[u]
    BY <2>2 DEF Written
  <2>5. active[u].exec \in Exec
    BY <2>4, ControlSlot
  <2> QED BY <2>1, <2>3, <2>4, <2>5 DEF KeepsSlot, Given
<1>4. CASE UNCHANGED <<tasks, active, execs>>
  BY <1>1, <1>4, KeepsControls DEF KeepsSlot
<1> QED BY <1>2, <1>3, <1>4
        DEF CallStep, AbortCall, RetryPrepare, CallCleanUp, CallStore

\* The steps of an execution: a launch makes the control, and the completion
\* that drops it ends the run of its task.
LEMMA ExecutionControls ==
    ASSUME TypeOK, ControlInv, NEW e \in Exec,
           ExecStep(e) \/ RemoteBlocked(e) \/ Abort(e)
    PROVE  ControlInv'
<1> DEFINE t == execs[e].task
<1>0. /\ execs \in [Exec -> Execution] /\ active \in [Task -> Control]
      /\ tasks \in [Task -> Record]
      /\ execs[e].at \notin {"idle", "schedule"} => t \in Task
  BY DEF TypeOK
<1>1. UNCHANGED calls => KeepsCalls
  BY DEF KeepsCalls, ControlInv
\* A slot no execution of which is in progress keeps its place.
<1>2. ASSUME NEW at \in ExecAt, Advances(e, at),
             Executing(e) => at \in {"spawn"} \cup Ended,
             execs[e].at # "idle",
             UNCHANGED <<active, calls>>, UNCHANGED tasks \/ Goes(t, State \ {"running"})
      PROVE  ControlInv'
  <2> SUFFICES ASSUME NEW u \in Task \ Remote, tasks'[u].state = "running"
               PROVE  /\ tasks[u].state = "running"
                      /\ tasks'[u].attempts = tasks[u].attempts
                      /\ KeepsSlot(active[u].exec)
    BY <1>1, <1>2, KeepsControls
  <2>1. tasks'[u] = tasks[u]
    BY <1>2 DEF Goes, Written
  <2>2. active[u].exec \in Exec /\ ControlIsCurrent(u)
    BY <2>1, ControlSlot
  <2>3. KeepsSlot(active[u].exec)
    BY <1>2, <2>2 DEF KeepsSlot, Advances, Executing, ControlIsCurrent
  <2> QED BY <2>1, <2>3
<1>3. CASE AcquireLease(e) \/ StoreLease(e) \/ StoreCleanUp(e)
  <2>1. PICK at \in {"store_lease", "launch", "handoff", "publish"} : Advances(e, at)
    BY <1>3, ExecutionAdvances
  <2>2. at \in ExecAt
    BY DEF ExecAt
  <2>3. ~Executing(e) /\ execs[e].at # "idle" /\ UNCHANGED <<active, calls, tasks>>
    BY <1>3 DEF AcquireLease, StoreLease, StoreCleanUp, Executing, Ended
  <2> QED BY <1>2, <2>1, <2>2, <2>3
<1>4. CASE Spawn(e)
  BY <1>2, <1>4, ExecutionAdvances DEF Spawn, ExecAt, Ended
<1>5. CASE RemoteBlocked(e)
  <2>1. Advances(e, "remote_blocked") /\ Goes(t, State \ {"running"})
    BY <1>5, ExecutionAdvances, ExecutionRecords DEF Goes, State
  <2> QED BY <1>2, <1>5, <2>1 DEF RemoteBlocked, ExecAt, Ended
<1>6. CASE PublishHandoff(e)
  <2>1. UNCHANGED tasks \/ Goes(t, State \ {"running"})
    BY <1>6, ExecutionRecords DEF Goes, State, Terminal
  <2>2. Advances(e, "publish") /\ ~Executing(e)
    BY <1>6, ExecutionAdvances DEF PublishHandoff, Executing, Ended
  <2> QED BY <1>2, <1>6, <2>1, <2>2 DEF PublishHandoff, ExecAt
<1>7. CASE Launch(e)
  <2>1. /\ tasks'[t].state = "running" /\ tasks'[t].attempts = tasks[t].attempts
        /\ Written(t)
    BY <1>7, ExecutionRecords DEF Goes
  <2>2. /\ execs'[e].at = "spawn" /\ execs'[e].task = t
        /\ execs'[e].attempt = tasks[t].attempts
        /\ \A g \in Exec \ {e} : execs'[g] = execs[g]
    BY <1>7, ExecutionSlots DEF LaunchedAttempt
  <2>3. /\ t \in Task /\ active'[t] = [exec |-> e, attempt |-> tasks[t].attempts]
        /\ \A u \in Task \ {t} : active'[u] = active[u]
    BY <1>0, <1>7 DEF Launch, LaunchedAttempt
  <2>4. ASSUME NEW u \in Task, u = t PROVE ControlIsCurrent(u)'
    <3>1. active'[u] # NotActive
      BY <2>3, <2>4, TasksAssumption DEF NotActive
    <3> QED BY <2>1, <2>2, <2>3, <2>4, <3>1 DEF ControlIsCurrent, Executing
  <2>5. ASSUME NEW u \in Task \ Remote, u # t, tasks'[u].state = "running"
        PROVE  ControlIsCurrent(u)'
    <3>1. tasks'[u] = tasks[u] /\ active'[u] = active[u]
      BY <2>1, <2>3, <2>5 DEF Written
    <3>2. active[u].exec \in Exec /\ ControlIsCurrent(u)
      BY <2>5, <3>1, ControlSlot
    <3>3. active[u].exec # e
      BY <1>7, <2>5, <3>2 DEF ControlIsCurrent, Executing, Ended, Launch
    <3> QED BY <2>2, <3>1, <3>2, <3>3 DEF ControlIsCurrent, Executing
  <2>6. KeepsCalls
    BY <1>1, <1>7 DEF Launch
  <2> QED BY <2>4, <2>5, <2>6 DEF ControlInv, KeepsCalls
<1>8. CASE Ignore(e) \/ Abort(e) \/ CleanUp(e) \/ SendResult(e)
  <2>1. \A g \in Exec \ {e} : execs'[g] = execs[g]
    BY <1>8, ExecutionAdvances, ExecutionSlots DEF Empties, Advances
  <2>2. UNCHANGED <<tasks, calls>>
    BY <1>8 DEF Ignore, Abort, CleanUp, SendResult
  <2>3. ASSUME NEW u \in Task \ Remote, tasks'[u].state = "running"
        PROVE  ControlIsCurrent(u)'
    <3>1. tasks'[u] = tasks[u] /\ active[u].exec \in Exec /\ ControlIsCurrent(u)
      BY <2>2, <2>3, ControlSlot
    <3>2. active'[u] = active[u]
      <4>1. CASE Ignore(e)
        <5>1. CASE Stale(e)
          BY <4>1, <5>1 DEF Ignore, ControlAfterIgnored
        <5>2. CASE Duplicate(t) /\ ~Stale(e)
          BY <1>0, <2>2, <2>3, <4>1, <5>2
          DEF Ignore, ControlAfterIgnored, Duplicate, Terminal
        <5> QED BY <4>1, <5>1, <5>2 DEF Ignore
      <4>2. CASE Abort(e) \/ CleanUp(e) \/ SendResult(e)
        BY <4>2 DEF Abort, CleanUp, SendResult
      <4> QED BY <1>8, <4>1, <4>2
    <3>3. CASE active[u].exec # e
      BY <2>1, <3>1, <3>2, <3>3 DEF ControlIsCurrent, Executing
    <3>4. CASE active[u].exec = e
      <4>1. Executing(e) /\ execs[e].task = u /\ execs[e].attempt = active[u].attempt
        BY <1>8, <3>1, <3>4
        DEF ControlIsCurrent, Ignore, Abort, CleanUp, SendResult, Ended
      <4>2. Abort(e)
        <5>1. ~Ignore(e)
          BY <2>2, <2>3, <3>1, <4>1 DEF Ignore, Stale, Duplicate, Terminal, ControlIsCurrent
        <5>2. ~CleanUp(e) /\ ~SendResult(e)
          BY <4>1 DEF CleanUp, SendResult, Executing, Ended
        <5> QED BY <1>8, <5>1, <5>2
      <4>3. DiskFaults /\ execs'[e].at = "idle"
        BY <4>2, ExecutionAdvances, FixedSlots DEF Abort, Empties
      <4> QED BY <3>1, <3>2, <3>4, <4>3 DEF ControlIsCurrent
    <3> QED BY <3>3, <3>4
  <2> QED BY <1>1, <2>2, <2>3 DEF ControlInv, KeepsCalls
<1>9. CASE Schedule(e)
  <2>1. PICK f \in Exec \ {e} :
          /\ execs[f].at = "idle"
          /\ \A u \in Task : active[u].exec # f
          /\ \A g \in Exec \ {e, f} : execs'[g] = execs[g]
    BY <1>9, ExecutionSlots
  <2>2. UNCHANGED <<tasks, active, calls>> /\ execs[e].at = "schedule"
    BY <1>9 DEF Schedule
  <2> SUFFICES ASSUME NEW u \in Task \ Remote, tasks'[u].state = "running"
               PROVE  KeepsSlot(active[u].exec)
    BY <1>1, <2>2, KeepsControls
  <2>3. active[u].exec \in Exec /\ ControlIsCurrent(u)
    BY <2>2, ControlSlot
  <2>4. active[u].exec \notin {e, f}
    BY <2>1, <2>2, <2>3 DEF ControlIsCurrent, Executing, Ended
  <2> QED BY <2>1, <2>3, <2>4 DEF KeepsSlot
<1>10. ASSUME NEW outcome \in Outcomes(e), Complete(e, outcome)
       PROVE  ControlInv'
  <2>1. /\ t \in Task /\ active' = [active EXCEPT ![t] = NotActive]
        /\ \A u \in execs'[e].ready : tasks'[u].state = "queued"
        /\ t \notin execs'[e].ready => tasks'[t] = CompletedRecord(t, outcome)
        /\ \A u \in Task \ ({t} \cup execs'[e].ready) : tasks'[u] = tasks[u]
        /\ outcome \in Outcome
    BY <1>10, CompleteRecords
  <2>2. CompletedRecord(t, outcome).state # "running"
    BY <2>1, ResultRecord
  <2>3. \A g \in Exec \ {e} : execs'[g] = execs[g]
    BY <1>10, ExecutionSlots
  <2>4. UNCHANGED calls
    BY <1>10 DEF Complete
  <2> SUFFICES ASSUME NEW u \in Task \ Remote, tasks'[u].state = "running"
               PROVE  /\ tasks[u].state = "running"
                      /\ tasks'[u].attempts = tasks[u].attempts
                      /\ active'[u] = active[u]
                      /\ KeepsSlot(active[u].exec)
    BY <1>1, <2>4, KeepsControls
  <2>5. u # t /\ tasks'[u] = tasks[u]
    BY <2>1, <2>2
  <2>6. active[u].exec \in Exec /\ ControlIsCurrent(u)
    BY <2>5, ControlSlot
  <2>7. active[u].exec # e
    BY <1>10, <2>5, <2>6 DEF ControlIsCurrent, Complete, Ended
  <2> QED BY <1>0, <2>1, <2>3, <2>5, <2>6, <2>7 DEF KeepsSlot
<1> QED BY <1>3, <1>4, <1>5, <1>6, <1>7, <1>8, <1>9, <1>10 DEF ExecStep

\* The invariant holds in every reachable state.
LEMMA ControlInvariant == Spec => []ControlInv
<1>1. Init => ControlInv
  BY DEF Init, Undelegated, NoCall, ControlInv
<1>2. TypeOK /\ ControlInv /\ [Next]_vars => ControlInv'
  <2> SUFFICES ASSUME TypeOK, ControlInv, [Next]_vars PROVE ControlInv'
    OBVIOUS
  <2>1. CASE UNCHANGED vars \/ PollResult
    BY <2>1, KeepsControls DEF vars, PollResult, KeepsSlot, KeepsCalls, ControlInv
  <2>2. ASSUME NEW t \in Task, Pause(t) \/ PostBlocker(t) \/ ResolveBlocker(t)
        PROVE  ControlInv'
    <3>1. UNCHANGED <<active, calls>> /\ OnlyTokens
      BY <2>2, OutsideSlots DEF Pause, PostBlocker, ResolveBlocker
    <3>2. \A u \in Task : tasks'[u].state = "running" =>
            tasks[u].state = "running" /\ tasks'[u].attempts = tasks[u].attempts
      BY <2>2, ThreadRecords DEF Pause, Written
    <3> SUFFICES ASSUME NEW u \in Task \ Remote, tasks'[u].state = "running"
                 PROVE  KeepsSlot(active[u].exec)
      BY <3>1, <3>2, KeepsControls DEF KeepsCalls, ControlInv
    <3> QED BY <3>1, <3>2, ControlSlot DEF KeepsSlot, OnlyTokens
  <2> QED BY <2>1, <2>2, OperatorControls, CallControls, ExecutionControls DEF Next
<1> QED BY <1>1, <1>2, TypeCorrect, PTL DEF Spec

\* Where writes succeed, whoever sees a local task running can cancel it: the
\* control that cancel_task looks up is that of an execution of the current
\* attempt, whatever launches, late completions and other commands came before.
THEOREM RunningTasksAreCancellable ==
    ASSUME ~DiskFaults
    PROVE  Spec => []RunningIsCancellable
<1>1. ControlInv => RunningIsCancellable
  BY DEF ControlInv, ControlIsCurrent, RunningIsCancellable
<1> QED BY <1>1, ControlInvariant, PTL

-----------------------------------------------------------------------------
(* Handlers between two blocks *)

\* What an execution carries from one block to another: only the completion
\* holds tasks that are to be started, only a remote execution waits for a peer,
\* only a result that is no success is handed off, and no lease is written by a
\* clean-up.
ExecutionIsSound(e) ==
    /\ execs[e].ready # {} => execs[e].at \in
            {"cleanup", "store_cleanup", "handoff", "publish", "schedule"}
    /\ execs[e].at = "remote_blocked" => execs[e].task \in Remote
    /\ execs[e].at = "handoff" => execs[e].final \in HandedOffAsBlocker
    /\ execs[e].at = "store_cleanup" => ~execs[e].env.leased

\* What a command carries: only a retry starts its task, after its environment
\* has been prepared, and no lease is written by a clean-up.
CallIsSound(c) ==
    /\ calls[c].start => calls[c].at \in {"prepare", "prepared"}
    /\ calls[c].at \in {"prepare", "prepared"} => tasks[calls[c].task].attempts > 0
    /\ calls[c].at = "prepared" /\ ~EnvFaults => calls[c].env.state # "failed"
    /\ calls[c].at = "store" => ~calls[c].env.leased

HandlerInv ==
    /\ \A e \in Exec : ExecutionIsSound(e)
    /\ \A c \in Client : CallIsSound(c)
    /\ \A t \in Task : tasks[t].thread # "none" => t \in Escalating

\* Slots that keep their executions, or start others, stay sound.
LEMMA SlotsStaySound ==
    ASSUME TypeOK, HandlerInv, NEW e \in Exec,
           OnlyTokens \/ \E f \in Exec : \E t : Given(f, t)
    PROVE  ExecutionIsSound(e)'
BY FixedSlots DEF HandlerInv, ExecutionIsSound, OnlyTokens, Given

\* The steps of an execution.
LEMMA ExecutionStaysSound ==
    ASSUME TypeOK, HandlerInv, NEW e \in Exec,
           ExecStep(e) \/ RemoteBlocked(e) \/ Abort(e),
           NEW g \in Exec
    PROVE  ExecutionIsSound(g)'
<1>0. ExecutionIsSound(g) /\ ExecutionIsSound(e)
  BY DEF HandlerInv
<1>1. CASE Launch(e)
  <2>1. /\ execs'[e].at = "spawn" /\ execs'[e].ready = execs[e].ready
        /\ \A h \in Exec \ {e} : execs'[h] = execs[h]
    BY <1>1, ExecutionSlots
  <2> QED BY <1>0, <1>1, <2>1 DEF Launch, ExecutionIsSound
<1>2. CASE AcquireLease(e) \/ StoreLease(e) \/ Spawn(e)
  <2>1. PICK at \in {"store_lease", "launch", "running"} : Advances(e, at)
    BY <1>2, ExecutionAdvances
  <2>2. execs[e].at \in {"acquire", "store_lease", "spawn"}
    BY <1>2 DEF AcquireLease, StoreLease, Spawn
  <2> QED BY <1>0, <2>1, <2>2 DEF ExecutionIsSound, Advances
<1>3. CASE RemoteBlocked(e)
  <2>1. Advances(e, "remote_blocked") /\ execs[e].at = "running" /\ execs[e].task \in Remote
    BY <1>3, ExecutionAdvances DEF RemoteBlocked
  <2> QED BY <1>0, <2>1 DEF ExecutionIsSound, Advances
<1>4. CASE CleanUp(e)
  <2>1. \/ Advances(e, "store_cleanup") /\ ~execs'[e].env.leased
        \/ Empties(e)
    BY <1>4, ExecutionAdvances
  <2> QED BY <1>0, <2>1, FixedSlots DEF ExecutionIsSound, Advances, Empties
<1>5. CASE StoreCleanUp(e) \/ PublishHandoff(e)
  <2>1. PICK at \in {"handoff", "publish"} :
          /\ Advances(e, at)
          /\ at = "handoff" => execs[e].final \in HandedOffAsBlocker
    BY <1>5, ExecutionAdvances
  <2> QED BY <1>0, <2>1 DEF ExecutionIsSound, Advances
<1>6. CASE Ignore(e) \/ Abort(e)
  <2>1. Empties(e)
    BY <1>6, ExecutionAdvances
  <2> QED BY <1>0, <2>1, FixedSlots DEF ExecutionIsSound, Empties
<1>7. CASE SendResult(e)
  <2>1. /\ Empties(e) \/ execs'[e].at = "schedule"
        /\ \A h \in Exec \ {e} : execs'[h] = execs[h]
    BY <1>7, ExecutionSlots DEF Empties
  <2> QED BY <1>0, <2>1, FixedSlots DEF ExecutionIsSound, Empties
<1>8. CASE Schedule(e)
  <2>1. PICK f \in Exec \ {e}, t \in execs[e].ready :
          /\ execs'[f] = Starting(t)
          /\ execs'[e] = NoExecution \/ execs'[e].at = "schedule"
          /\ \A h \in Exec \ {e, f} : execs'[h] = execs[h]
    BY <1>8, ExecutionSlots
  <2> QED BY <1>0, <2>1, FixedSlots DEF ExecutionIsSound
<1>9. ASSUME NEW outcome \in Outcomes(e), Complete(e, outcome)
      PROVE  ExecutionIsSound(g)'
  <2>1. /\ execs'[e].at = "cleanup"
        /\ \A h \in Exec \ {e} : execs'[h] = execs[h]
    BY <1>9, ExecutionSlots
  <2> QED BY <1>0, <2>1 DEF ExecutionIsSound
<1> QED BY <1>1, <1>2, <1>3, <1>4, <1>5, <1>6, <1>7, <1>8, <1>9 DEF ExecStep

\* A step leaves a task at its attempt or takes it to the next one.
LEMMA AttemptsGrow ==
    ASSUME TypeOK, [Next]_vars, NEW t \in Task
    PROVE  \/ tasks'[t].attempts = tasks[t].attempts
           \/ /\ tasks'[t].attempts = tasks[t].attempts + 1
              /\ \E c \in Client : Retry(c, t)
<1>1. ASSUME NEW u \in Task, NEW states, Goes(u, states)
      PROVE  tasks'[t].attempts = tasks[t].attempts
  BY <1>1 DEF Goes, Written
<1>2. CASE UNCHANGED tasks
  BY <1>2
<1>3. ASSUME NEW c \in Client, Operator(c)
      PROVE  \/ tasks'[t].attempts = tasks[t].attempts
             \/ tasks'[t].attempts = tasks[t].attempts + 1 /\ Retry(c, t)
  <2>1. PICK u \in Task :
          \/ Delegate(c, u)
          \/ \E actor \in ActorKind : Approve(c, u, actor) \/ Reject(c, u, actor)
          \/ Retry(c, u)
          \/ CancelRequest(c, u)
    BY <1>3 DEF Operator
  <2>2. CASE Delegate(c, u)
    BY <1>1, <2>2, DelegateRecord
  <2>3. ASSUME NEW actor \in ActorKind, Approve(c, u, actor) \/ Reject(c, u, actor)
        PROVE  tasks'[t].attempts = tasks[t].attempts
    <3>1. \E states : Goes(u, states)
      BY <2>3, ApproveRecord, RejectRecord
    <3> QED BY <1>1, <3>1
  <2>4. CASE Retry(c, u)
    <3>1. tasks'[u].attempts = tasks[u].attempts + 1 /\ Written(u)
      BY <2>4, RetryRecord
    <3> QED BY <2>4, <3>1 DEF Written
  <2>5. CASE CancelRequest(c, u)
    BY <1>2, <2>5 DEF CancelRequest
  <2> QED BY <2>1, <2>2, <2>3, <2>4, <2>5
<1>4. ASSUME NEW c \in Client, CallStep(c) \/ AbortCall(c)
      PROVE  tasks'[t].attempts = tasks[t].attempts
  <2>1. CASE RetryFinish(c) \/ CancelMark(c)
    <3>1. calls[c].task \in Task
      BY <2>1 DEF TypeOK, RetryFinish, CancelMark
    <3> QED BY <1>1, <1>2, <2>1, <3>1, CallRecords
  <2>2. CASE UNCHANGED tasks
    BY <1>2, <2>2
  <2> QED BY <1>4, <2>1, <2>2
          DEF CallStep, AbortCall, CancelRemove, RetryPrepare, CallCleanUp, CallStore
<1>5. ASSUME NEW e \in Exec, ExecStep(e) \/ RemoteBlocked(e) \/ Abort(e)
      PROVE  tasks'[t].attempts = tasks[t].attempts
  <2>1. CASE Launch(e) \/ RemoteBlocked(e) \/ PublishHandoff(e)
    <3>1. execs[e].task \in Task
      BY <2>1 DEF TypeOK, Launch, RemoteBlocked, PublishHandoff
    <3>2. UNCHANGED tasks \/ \E states : Goes(execs[e].task, states)
      BY <2>1, ExecutionRecords
    <3> QED BY <1>1, <1>2, <3>1, <3>2
  <2>2. ASSUME NEW outcome \in Outcomes(e), Complete(e, outcome)
        PROVE  tasks'[t].attempts = tasks[t].attempts
    BY <2>2, CompleteRecords
  <2>3. CASE UNCHANGED tasks
    BY <1>2, <2>3
  <2> QED BY <1>5, <2>1, <2>2, <2>3
          DEF ExecStep, Abort, AcquireLease, StoreLease, Spawn, Ignore, CleanUp,
              StoreCleanUp, SendResult, Schedule
<1>6. ASSUME NEW u \in Task, Pause(u) \/ PostBlocker(u) \/ ResolveBlocker(u)
      PROVE  tasks'[t].attempts = tasks[t].attempts
  BY <1>6, ThreadRecords DEF Pause, Written
<1> QED BY <1>2, <1>3, <1>4, <1>5, <1>6 DEF Next, PollResult, vars

\* The threads of blockers are opened on the tasks that may have one.
LEMMA ThreadsStaySound ==
    ASSUME TypeOK, HandlerInv, [Next]_vars, NEW t \in Task
    PROVE  tasks'[t].thread # "none" => t \in Escalating
<1>0. tasks[t].thread # "none" => t \in Escalating
  BY DEF HandlerInv
<1>1. ASSUME NEW u \in Task, NEW states, Goes(u, states)
      PROVE  tasks'[t].thread = tasks[t].thread
  BY <1>1 DEF Goes, Written
<1>2. CASE UNCHANGED tasks
  BY <1>0, <1>2
<1>3. ASSUME NEW c \in Client, Operator(c)
      PROVE  tasks'[t].thread = tasks[t].thread
  <2>1. PICK u \in Task :
          \/ Delegate(c, u)
          \/ \E actor \in ActorKind : Approve(c, u, actor) \/ Reject(c, u, actor)
          \/ Retry(c, u)
          \/ CancelRequest(c, u)
    BY <1>3 DEF Operator
  <2>2. CASE Delegate(c, u)
    BY <1>1, <2>2, DelegateRecord
  <2>3. ASSUME NEW actor \in ActorKind, Approve(c, u, actor) \/ Reject(c, u, actor)
        PROVE  tasks'[t].thread = tasks[t].thread
    BY <1>1, <2>3, ApproveRecord, RejectRecord
  <2>4. CASE Retry(c, u)
    BY <2>4, RetryRecord DEF Written
  <2>5. CASE CancelRequest(c, u)
    BY <2>5 DEF CancelRequest
  <2> QED BY <2>1, <2>2, <2>3, <2>4, <2>5
<1>4. ASSUME NEW c \in Client, CallStep(c) \/ AbortCall(c)
      PROVE  tasks'[t].thread = tasks[t].thread
  <2>1. CASE RetryFinish(c) \/ CancelMark(c)
    <3>1. calls[c].task \in Task
      BY <2>1 DEF TypeOK, RetryFinish, CancelMark
    <3> QED BY <1>1, <2>1, <3>1, CallRecords
  <2>2. CASE UNCHANGED tasks
    BY <2>2
  <2> QED BY <1>4, <2>1, <2>2
          DEF CallStep, AbortCall, CancelRemove, RetryPrepare, CallCleanUp, CallStore
<1>5. ASSUME NEW e \in Exec, ExecStep(e) \/ RemoteBlocked(e) \/ Abort(e)
      PROVE  tasks'[t].thread = tasks[t].thread
  <2>1. CASE Launch(e) \/ RemoteBlocked(e) \/ PublishHandoff(e)
    <3>1. execs[e].task \in Task
      BY <2>1 DEF TypeOK, Launch, RemoteBlocked, PublishHandoff
    <3> QED BY <1>1, <2>1, <3>1, ExecutionRecords
  <2>2. ASSUME NEW outcome \in Outcomes(e), Complete(e, outcome)
        PROVE  tasks'[t].thread = tasks[t].thread
    BY <2>2, CompleteRecords
  <2>3. CASE UNCHANGED tasks
    BY <2>3
  <2> QED BY <1>5, <2>1, <2>2, <2>3
          DEF ExecStep, Abort, AcquireLease, StoreLease, Spawn, Ignore, CleanUp,
              StoreCleanUp, SendResult, Schedule
<1>6. ASSUME NEW u \in Task, Pause(u) \/ PostBlocker(u) \/ ResolveBlocker(u)
      PROVE  tasks'[t].thread # "none" => t \in Escalating
  <2>1. CASE PostBlocker(u) \/ ResolveBlocker(u)
    <3>1. Written(u) /\ (u \in Escalating \/ tasks[u].thread # "none")
      BY <2>1, ThreadRecords
    <3>2. u \in Escalating
      BY <3>1 DEF HandlerInv
    <3> QED BY <1>0, <3>1, <3>2 DEF Written
  <2> QED BY <1>0, <1>6, <2>1 DEF Pause
<1> QED BY <1>0, <1>2, <1>3, <1>4, <1>5, <1>6 DEF Next, PollResult, vars

\* The calls of the operators.
LEMMA CallsStaySound ==
    ASSUME TypeOK, HandlerInv, [Next]_vars, NEW d \in Client
    PROVE  CallIsSound(d)'
<1>0. /\ calls \in [Client -> Call] /\ CallIsSound(d)
      /\ calls[d].at # "idle" => calls[d].task \in Task
  BY DEF HandlerInv, TypeOK
<1>1. CASE calls'[d] = calls[d]
  <2>1. ASSUME calls[d].at \in {"prepare", "prepared"}
        PROVE  tasks'[calls[d].task].attempts > 0
    <3> DEFINE t == calls[d].task
    <3>1. t \in Task /\ tasks[t].attempts > 0
      BY <1>0, <2>1 DEF CallIsSound
    <3>2. tasks[t].attempts \in Nat
      BY <3>1 DEF TypeOK, Record
    <3>3. tasks'[t].attempts \in {tasks[t].attempts, tasks[t].attempts + 1}
      BY <3>1, AttemptsGrow
    <3> QED BY <3>1, <3>2, <3>3
  <2> QED BY <1>0, <1>1, <2>1 DEF CallIsSound
<1>2. CASE ~calls'[d].start /\ calls'[d].at \notin {"prepare", "prepared", "store"}
  BY <1>2 DEF CallIsSound
<1>3. ASSUME NEW c \in Client, Operator(c)
      PROVE  CallIsSound(d)'
  <2>1. PICK t \in Task :
          \/ Delegate(c, t)
          \/ \E actor \in ActorKind : Approve(c, t, actor) \/ Reject(c, t, actor)
          \/ Retry(c, t)
          \/ CancelRequest(c, t)
    BY <1>3 DEF Operator
  <2>2. CASE Delegate(c, t)
    BY <1>1, <2>2 DEF Delegate
  <2>3. ASSUME NEW actor \in ActorKind, Approve(c, t, actor)
        PROVE  CallIsSound(d)'
    <3>1. \/ UNCHANGED calls
          \/ calls' = [calls EXCEPT ![c] = [NoCall EXCEPT
                           !.at = "cleanup", !.task = t, !.success = TRUE]]
      BY <2>3, ApproveRecord
    <3> QED BY <1>0, <1>1, <1>2, <3>1 DEF NoCall
  <2>4. ASSUME NEW actor \in ActorKind, Reject(c, t, actor)
        PROVE  CallIsSound(d)'
    BY <1>0, <1>1, <1>2, <2>4 DEF Reject, NoCall
  <2>5. CASE Retry(c, t)
    <3>1. /\ calls'[c].task = t /\ calls'[c].at = "prepare"
          /\ tasks'[t].attempts = tasks[t].attempts + 1
          /\ \A b \in Client \ {c} : calls'[b] = calls[b]
      BY <2>5, RetryRecord
    <3>2. tasks'[t].attempts > 0
      <4>1. tasks[t].attempts \in Nat
        BY DEF TypeOK, Record
      <4> QED BY <3>1, <4>1
    <3> QED BY <1>0, <1>1, <3>1, <3>2 DEF CallIsSound
  <2>6. CASE CancelRequest(c, t)
    BY <1>0, <1>1, <1>2, <2>6 DEF CancelRequest, NoCall
  <2> QED BY <2>1, <2>2, <2>3, <2>4, <2>5, <2>6
<1>4. ASSUME NEW c \in Client, CallStep(c) \/ AbortCall(c)
      PROVE  CallIsSound(d)'
  <2>0. \A b \in Client \ {c} : calls'[b] = calls[b]
    BY <1>0, <1>4 DEF CallStep, AbortCall, CancelRemove, CancelMark, RetryPrepare,
                      RetryFinish, CallCleanUp, CallStore
  <2>1. CASE c # d
    BY <1>1, <2>0, <2>1
  <2>2. CASE c = d
    <3>1. CASE CancelRemove(c) \/ CancelMark(c)
      <4>1. calls'[d].at \in {"cancel_mark", "cleanup"} /\ calls'[d].start = calls[d].start
            /\ calls[d].at \in {"cancel_mark", "cancel_remove"}
        BY <1>0, <2>2, <3>1 DEF CancelRemove, CancelMark, Call
      <4> QED BY <1>0, <1>2, <4>1 DEF CallIsSound
    <3>2. CASE RetryPrepare(c)
      <4>1. PICK env \in Prepared :
              calls' = [calls EXCEPT ![c].at = "prepared", ![c].env = env]
        BY <3>2 DEF RetryPrepare
      <4>2. /\ calls'[d].at = "prepared" /\ calls'[d].env = env
            /\ calls'[d].task = calls[d].task /\ calls[d].at = "prepare"
            /\ calls[d].task \in Task /\ UNCHANGED tasks
        BY <1>0, <2>2, <3>2, <4>1 DEF RetryPrepare, Call
      <4>3. ~EnvFaults => env.state # "failed"
        BY <4>1 DEF Prepared
      <4> QED BY <1>0, <4>2, <4>3 DEF CallIsSound
    <3>3. CASE RetryFinish(c) \/ AbortCall(c) \/ CallStore(c)
      BY <1>0, <1>2, <2>2, <3>3 DEF RetryFinish, AbortCall, CallStore, NoCall
    <3>4. CASE CallCleanUp(c)
      <4>1. CASE calls' = [calls EXCEPT ![c] = NoCall]
        BY <1>0, <1>2, <2>2, <4>1 DEF NoCall
      <4>2. ASSUME NEW env \in Finalized(calls[c].task, calls[c].success),
                   calls' = [calls EXCEPT ![c].at = "store", ![c].env = env]
            PROVE  CallIsSound(d)'
        <5>1. calls'[d].at = "store" /\ calls'[d].env = env
              /\ calls'[d].start = calls[d].start /\ calls[d].at = "cleanup"
          <6>1. /\ calls[d] \in Call /\ calls[d].at = "cleanup"
                /\ calls'[d] = [calls[d] EXCEPT !.at = "store", !.env = env]
            BY <1>0, <2>2, <3>4, <4>2 DEF CallCleanUp
          <6> QED BY <6>1 DEF Call
        <5>2. ~env.leased
          BY <4>2 DEF Finalized
        <5> QED BY <1>0, <5>1, <5>2 DEF CallIsSound
      <4> QED BY <3>4, <4>1, <4>2 DEF CallCleanUp
    <3> QED BY <1>4, <3>1, <3>2, <3>3, <3>4 DEF CallStep
  <2> QED BY <2>1, <2>2
<1>5. ASSUME NEW e \in Exec, ExecStep(e) \/ RemoteBlocked(e) \/ Abort(e)
      PROVE  UNCHANGED calls
  BY <1>5 DEF ExecStep, Abort, RemoteBlocked, AcquireLease, StoreLease, Launch, Spawn,
              Ignore, Complete, CleanUp, StoreCleanUp, PublishHandoff, SendResult, Schedule
<1>6. ASSUME NEW t \in Task, Pause(t) \/ PostBlocker(t) \/ ResolveBlocker(t)
      PROVE  UNCHANGED calls
  BY <1>6 DEF Pause, PostBlocker, ResolveBlocker
<1> QED BY <1>1, <1>3, <1>4, <1>5, <1>6 DEF Next, PollResult, vars

\* A command gives a slot to a task, tells an execution to stop, or leaves the
\* slots alone.
LEMMA CommandSlots ==
    ASSUME TypeOK, NEW c \in Client, Operator(c) \/ CallStep(c) \/ AbortCall(c)
    PROVE  OnlyTokens \/ \E f \in Exec, t \in Task : Given(f, t)
<1>1. UNCHANGED execs => OnlyTokens
  BY OutsideSlots
<1>2. CASE Operator(c)
  <2>1. PICK t \in Task :
          \/ Delegate(c, t)
          \/ \E actor \in ActorKind : Approve(c, t, actor) \/ Reject(c, t, actor)
          \/ Retry(c, t)
          \/ CancelRequest(c, t)
    BY <1>2 DEF Operator
  <2>2. CASE Delegate(c, t)
    BY <1>1, <2>2, DelegateRecord DEF Started
  <2>3. ASSUME NEW actor \in ActorKind, Approve(c, t, actor)
        PROVE  UNCHANGED execs \/ \E f \in Exec : Given(f, t)
    BY <2>3, ApproveRecord DEF Started
  <2>4. CASE \E actor \in ActorKind : Reject(c, t, actor)
    BY <1>1, <2>4 DEF Reject
  <2>5. CASE Retry(c, t) \/ CancelRequest(c, t)
    BY <1>1, <2>5, OutsideSlots DEF Retry
  <2> QED BY <1>1, <2>1, <2>2, <2>3, <2>4, <2>5
<1>3. CASE RetryFinish(c)
  <2>1. calls[c].task \in Task
    BY <1>3 DEF TypeOK, RetryFinish
  <2> QED BY <1>1, <1>3, <2>1, CallRecords DEF Started
<1>4. CASE UNCHANGED execs
  BY <1>1, <1>4
<1> QED BY <1>2, <1>3, <1>4
        DEF CallStep, AbortCall, CancelRemove, CancelMark, RetryPrepare, CallCleanUp, CallStore

\* Handlers stay sound.
LEMMA HandlerInvariant == Spec => []HandlerInv
<1>1. Init => HandlerInv
  BY DEF Init, Undelegated, NoCall, NoExecution, HandlerInv, ExecutionIsSound, CallIsSound
<1>2. TypeOK /\ HandlerInv /\ [Next]_vars => HandlerInv'
  <2> SUFFICES ASSUME TypeOK, HandlerInv, [Next]_vars PROVE HandlerInv'
    OBVIOUS
  <2>1. ASSUME NEW g \in Exec PROVE ExecutionIsSound(g)'
    <3>1. CASE UNCHANGED vars \/ PollResult
      BY <3>1, SlotsStaySound, OutsideSlots DEF vars, PollResult
    <3>2. ASSUME NEW t \in Task, Pause(t) \/ PostBlocker(t) \/ ResolveBlocker(t)
          PROVE  ExecutionIsSound(g)'
      <4>1. OnlyTokens
        BY <3>2, OutsideSlots DEF PostBlocker, ResolveBlocker
      <4> QED BY <4>1, SlotsStaySound
    <3>3. ASSUME NEW c \in Client, Operator(c) \/ CallStep(c) \/ AbortCall(c)
          PROVE  ExecutionIsSound(g)'
      BY <3>3, CommandSlots, SlotsStaySound
    <3> QED BY <3>1, <3>2, <3>3, ExecutionStaysSound DEF Next
  <2>2. \A d \in Client : CallIsSound(d)'
    BY CallsStaySound
  <2>3. \A t \in Task : tasks'[t].thread # "none" => t \in Escalating
    BY ThreadsStaySound
  <2> QED BY <2>1, <2>2, <2>3 DEF HandlerInv
<1> QED BY <1>1, <1>2, TypeCorrect, PTL DEF Spec

-----------------------------------------------------------------------------
(* What is queued is being started *)

\* An execution that will launch the task, or a completion that will start it.
Underway(e, t) ==
    \/ execs[e].at \in {"acquire", "store_lease", "launch"} /\ execs[e].task = t
    \/ t \in execs[e].ready

\* A slot given to a task is the start of it; the others keep theirs.
LEMMA GivenIsUnderway ==
    ASSUME NEW f \in Exec, NEW t, Given(f, t)
    PROVE  /\ Underway(f, t)'
           /\ HandlerInv => \A e \in Exec : \A u : Underway(e, u) => e # f /\ Underway(e, u)'
BY FixedSlots DEF Given, Underway, HandlerInv, ExecutionIsSound

\* What is under way stays so, but for the launch.
LEMMA UnderwayStays ==
    ASSUME TypeOK, HandlerInv, ~EnvFaults, ~DiskFaults, NEW e \in Exec,
           ExecStep(e) \/ RemoteBlocked(e) \/ Abort(e),
           NEW u \in Task, NEW g \in Exec, Underway(g, u)
    PROVE  \/ \E h \in Exec : Underway(h, u)'
           \/ Launch(e) /\ execs[e].task = u
<1>0. ExecutionIsSound(e)
  BY DEF HandlerInv
<1>1. CASE \A h \in Exec \ {e} : execs'[h] = execs[h]
  <2>1. CASE g # e
    BY <1>1, <2>1 DEF Underway
  <2>2. CASE g = e
    <3>1. CASE AcquireLease(e) \/ StoreLease(e)
      <4>1. \E at \in {"store_lease", "launch"} : Advances(e, at)
        BY <3>1, ExecutionAdvances
      <4> QED BY <2>2, <3>1, <4>1 DEF AcquireLease, StoreLease, Underway, Advances
    <3>2. CASE StoreCleanUp(e) \/ PublishHandoff(e) \/ CleanUp(e)
      <4>1. \E at : Advances(e, at)
        BY <3>2, ExecutionAdvances
      <4> QED BY <2>2, <3>2, <4>1
              DEF StoreCleanUp, PublishHandoff, CleanUp, Underway, Advances
    <3>3. CASE Spawn(e) \/ RemoteBlocked(e) \/ Ignore(e) \/ \E outcome \in Outcomes(e) : Complete(e, outcome)
      BY <1>0, <2>2, <3>3
      DEF Underway, ExecutionIsSound, Spawn, RemoteBlocked, Ignore, Complete, Ended
    <3>4. CASE Launch(e)
      BY <1>0, <2>2, <3>4 DEF Underway, ExecutionIsSound, Launch
    <3>5. CASE SendResult(e)
      <4>1. execs[e].at = "publish"
        BY <3>5 DEF SendResult
      <4> QED BY <2>2, <3>5, <4>1, ExecutionSlots DEF Underway
    <3>6. CASE Abort(e)
      BY <3>6 DEF Abort
    <3>7. CASE Schedule(e)
      BY <1>1, <2>2, <3>7, ExecutionSlots, FixedSlots DEF Underway
    <3> QED BY <3>1, <3>2, <3>3, <3>4, <3>5, <3>6, <3>7 DEF ExecStep
  <2> QED BY <2>1, <2>2
<1>2. CASE Schedule(e)
  <2>1. PICK t \in execs[e].ready, f \in Exec \ {e} :
          /\ execs[f].at = "idle"
          /\ execs'[f] = Starting(t)
          /\ \/ execs'[e] = NoExecution /\ execs[e].ready = {t}
             \/ execs'[e].at = "schedule" /\ execs'[e].ready = execs[e].ready \ {t}
          /\ \A h \in Exec \ {e, f} : execs'[h] = execs[h]
    BY <1>2, ExecutionSlots
  <2>2. Underway(f, t)'
    BY <2>1, FixedSlots DEF Underway
  <2>3. ~Underway(f, u)
    BY <2>1 DEF Underway, HandlerInv, ExecutionIsSound
  <2>4. CASE u = t
    BY <2>2, <2>4
  <2>5. CASE u # t /\ g = e
    <3>1. u \in execs[e].ready
      BY <1>2, <2>5 DEF Schedule, Underway
    <3> QED BY <2>1, <2>5, <3>1 DEF Underway
  <2>6. CASE g # e
    BY <2>1, <2>3, <2>6 DEF Underway
  <2> QED BY <2>4, <2>5, <2>6
<1>3. CASE ~Schedule(e)
  <2>1. \A h \in Exec \ {e} : execs'[h] = execs[h]
    <3>1. CASE Launch(e) \/ SendResult(e) \/ \E outcome \in Outcomes(e) : Complete(e, outcome)
      BY <3>1, ExecutionSlots DEF Empties
    <3>2. CASE ~(Launch(e) \/ SendResult(e) \/ \E outcome \in Outcomes(e) : Complete(e, outcome))
      BY <1>3, <3>2, ExecutionAdvances DEF ExecStep, Advances, Empties
    <3> QED BY <3>1, <3>2
  <2> QED BY <1>1, <2>1
<1> QED BY <1>2, <1>3

\* A queued task whose start is under way in a slot or in a call keeps it.
LEMMA StartStays ==
    ASSUME QueuedIsBeingStarted, NEW u \in Task, tasks[u].state = "queued",
           \A e \in Exec : Underway(e, u) => \E g \in Exec : Underway(g, u)',
           \A c \in Client : calls[c].task = u /\ calls[c].start =>
              StartInFlight(u)'
    PROVE  StartInFlight(u)'
<1>1. StartInFlight(u)
  BY DEF QueuedIsBeingStarted
<1>2. (\E e \in Exec : Underway(e, u))
      \/ \E c \in Client : calls[c].task = u /\ calls[c].start
  BY <1>1 DEF StartInFlight, Underway
<1>3. (\E e \in Exec : Underway(e, u)') => StartInFlight(u)'
  BY DEF StartInFlight, Underway
<1> QED BY <1>2, <1>3

\* A command starts the task it queues, at once or in its last block.
LEMMA OperatorStarts ==
    ASSUME TypeOK, HandlerInv, QueuedIsBeingStarted, ~DiskFaults,
           NEW c \in Client, Operator(c),
           NEW u \in Task, tasks'[u].state = "queued"
    PROVE  StartInFlight(u)'
<1>0. PICK t \in Task :
        \/ Delegate(c, t)
        \/ \E actor \in ActorKind : Approve(c, t, actor) \/ Reject(c, t, actor)
        \/ Retry(c, t)
        \/ CancelRequest(c, t)
  BY DEF Operator
<1>1. calls \in [Client -> Call] /\ CallIsSound(c)
  BY DEF TypeOK, HandlerInv
<1>2. (\E e \in Exec : Underway(e, u)') => StartInFlight(u)'
  BY DEF StartInFlight, Underway
<1>3. ASSUME NEW d \in Client, calls[d].task = u, calls[d].start, calls'[d] = calls[d]
      PROVE  StartInFlight(u)'
  BY <1>3 DEF StartInFlight
<1>4. OnlyTokens => \A e \in Exec : Underway(e, u) => Underway(e, u)'
  BY DEF OnlyTokens, Underway
<1>5. \A f \in Exec : Given(f, t) =>
        /\ Underway(f, t)'
        /\ \A e \in Exec : Underway(e, u) => Underway(e, u)'
  BY GivenIsUnderway
<1>6. Idle(c) => ~calls[c].start
  BY <1>1 DEF Idle, CallIsSound
<1>7. CASE Delegate(c, t)
  <2>1. UNCHANGED calls /\ Written(t)
    BY <1>7, DelegateRecord DEF Delegate, Goes
  <2>2. IF tasks'[t].state = "queued" THEN \E f \in Exec : Given(f, t) ELSE UNCHANGED execs
    BY <1>7, DelegateRecord DEF Started
  <2>3. CASE u = t
    BY <1>2, <1>5, <2>2, <2>3
  <2>4. CASE u # t
    BY <1>3, <1>4, <1>5, <2>1, <2>2, <2>4, StartStays, OutsideSlots DEF Written
  <2> QED BY <2>3, <2>4
<1>8. ASSUME NEW actor \in ActorKind, Approve(c, t, actor)
      PROVE  StartInFlight(u)'
  <2>1. Written(t) /\ \A d \in Client \ {c} : calls'[d] = calls[d]
    BY <1>1, <1>8, ApproveRecord DEF Goes
  <2>2. IF tasks'[t].state = "queued" THEN \E f \in Exec : Given(f, t) ELSE UNCHANGED execs
    BY <1>8, ApproveRecord DEF Started
  <2>3. CASE u = t
    BY <1>2, <1>5, <2>2, <2>3
  <2>4. CASE u # t
    BY <1>3, <1>4, <1>5, <1>6, <1>8, <2>1, <2>2, <2>4, StartStays, OutsideSlots
    DEF Written, Approve
  <2> QED BY <2>3, <2>4
<1>9. ASSUME NEW actor \in ActorKind, Reject(c, t, actor)
      PROVE  StartInFlight(u)'
  <2>1. /\ Written(t) /\ tasks'[t].state = "failed" /\ UNCHANGED execs /\ Idle(c)
        /\ \A d \in Client \ {c} : calls'[d] = calls[d]
    BY <1>1, <1>9, RejectRecord DEF Goes, Reject
  <2> QED BY <1>3, <1>4, <1>6, <2>1, StartStays, OutsideSlots DEF Written
<1>10. CASE Retry(c, t)
  <2>1. /\ Written(t) /\ UNCHANGED execs /\ Idle(c)
        /\ calls'[c].task = t /\ (calls'[c].start <=> tasks'[t].state = "queued")
        /\ \A d \in Client \ {c} : calls'[d] = calls[d]
    BY <1>10, RetryRecord DEF Retry
  <2>2. CASE u = t
    BY <2>1, <2>2 DEF StartInFlight
  <2>3. CASE u # t
    BY <1>3, <1>4, <1>6, <2>1, <2>3, StartStays, OutsideSlots DEF Written
  <2> QED BY <2>2, <2>3
<1>11. CASE CancelRequest(c, t)
  <2>1. /\ UNCHANGED tasks /\ OnlyTokens /\ Idle(c)
        /\ \A d \in Client \ {c} : calls'[d] = calls[d]
    BY <1>1, <1>11, OutsideSlots DEF CancelRequest
  <2> QED BY <1>3, <1>4, <1>6, <2>1, StartStays
<1> QED BY <1>0, <1>7, <1>8, <1>9, <1>10, <1>11

\* The later blocks of a command start the task of a retry.
LEMMA CallStarts ==
    ASSUME TypeOK, HandlerInv, QueuedIsBeingStarted, ~EnvFaults, ~DiskFaults,
           NEW c \in Client, CallStep(c) \/ AbortCall(c),
           NEW u \in Task, tasks'[u].state = "queued"
    PROVE  StartInFlight(u)'
<1>1. calls \in [Client -> Call] /\ CallIsSound(c)
  BY DEF TypeOK, HandlerInv
<1>2. (\E e \in Exec : Underway(e, u)') => StartInFlight(u)'
  BY DEF StartInFlight, Underway
<1>3. \A d \in Client \ {c} : calls'[d] = calls[d]
  BY <1>1 DEF CallStep, AbortCall, CancelRemove, CancelMark, RetryPrepare,
              RetryFinish, CallCleanUp, CallStore
<1>4. ASSUME NEW d \in Client, calls[d].task = u, calls[d].start,
             calls'[d].task = u, calls'[d].start
      PROVE  StartInFlight(u)'
  BY <1>4 DEF StartInFlight
<1>5. CASE RetryFinish(c)
  <2>0. PICK t \in Task : t = calls[c].task
    BY <1>5 DEF RetryFinish, TypeOK
  <2>1. calls[c].env.state # "failed"
    BY <1>1, <1>5 DEF RetryFinish, CallIsSound
  <2>2. UNCHANGED tasks /\ StartIf(calls[c].start, t)
    BY <1>5, <2>0, <2>1 DEF RetryFinish, StartIf
  <2>3. CASE ~calls[c].start
    BY <1>3, <1>4, <2>2, <2>3, StartStays DEF StartIf, Underway
  <2>4. CASE calls[c].start
    <3>1. Start(t)
      BY <2>2, <2>4 DEF StartIf
    <3>2. PICK f \in Exec : Given(f, t)
      BY <2>1, <3>1, StartGives
    <3>3. /\ Underway(f, t)'
          /\ \A e \in Exec : Underway(e, u) => Underway(e, u)'
      BY <3>2, GivenIsUnderway
    <3>4. ASSUME NEW d \in Client, calls[d].task = u, calls[d].start
          PROVE  StartInFlight(u)'
      <4>1. CASE d = c
        <5>1. Underway(f, u)'
          BY <2>0, <3>3, <3>4, <4>1
        <5> QED BY <1>2, <5>1
      <4>2. CASE d # c
        BY <1>3, <1>4, <3>4, <4>2
      <4> QED BY <4>1, <4>2
    <3> QED BY <2>2, <3>3, <3>4, StartStays
  <2> QED BY <2>3, <2>4
<1>6. CASE CancelMark(c)
  <2>1. Goes(calls[c].task, {"cancelled"}) /\ UNCHANGED execs
    BY <1>6, CallRecords DEF CancelMark
  <2>2. ~calls[c].start
    BY <1>1, <1>6 DEF CancelMark, CallIsSound
  <2>3. tasks[u].state = "queued"
    BY <2>1 DEF Goes, Written
  <2> QED BY <1>3, <1>4, <2>1, <2>2, <2>3, StartStays DEF Underway
<1>7. CASE CancelRemove(c) \/ CallCleanUp(c) \/ CallStore(c)
  <2>1. ~calls[c].start /\ UNCHANGED <<tasks, execs>>
    BY <1>1, <1>7 DEF CancelRemove, CallCleanUp, CallStore, CallIsSound
  <2> QED BY <1>3, <1>4, <2>1, StartStays DEF Underway
<1>8. CASE RetryPrepare(c)
  <2>1. PICK env : calls' = [calls EXCEPT ![c].at = "prepared", ![c].env = env]
    BY <1>8 DEF RetryPrepare
  <2>2. calls'[c].task = calls[c].task /\ calls'[c].start = calls[c].start
    BY <1>1, <2>1 DEF Call
  <2>3. UNCHANGED <<tasks, execs>>
    BY <1>8 DEF RetryPrepare
  <2> QED BY <1>3, <1>4, <2>2, <2>3, StartStays DEF Underway
<1>9. ~AbortCall(c)
  BY DEF AbortCall
<1> QED BY <1>5, <1>6, <1>7, <1>8, <1>9 DEF CallStep

\* A completion starts what it queues, and a launch takes its task out of the
\* queue.
LEMMA ExecutionStarts ==
    ASSUME TypeOK, HandlerInv, QueuedIsBeingStarted, ~EnvFaults, ~DiskFaults,
           NEW e \in Exec, ExecStep(e) \/ RemoteBlocked(e) \/ Abort(e),
           NEW u \in Task, tasks'[u].state = "queued"
    PROVE  StartInFlight(u)'
<1>1. UNCHANGED calls
  BY DEF ExecStep, Abort, RemoteBlocked, AcquireLease, StoreLease, Launch, Spawn,
         Ignore, Complete, CleanUp, StoreCleanUp, PublishHandoff, SendResult, Schedule
<1>2. (\E g \in Exec : Underway(g, u)') => StartInFlight(u)'
  BY DEF StartInFlight, Underway
<1>3. \A d \in Client : calls[d].task = u /\ calls[d].start => StartInFlight(u)'
  BY <1>1 DEF StartInFlight
<1>4. ~(Launch(e) /\ execs[e].task = u)
  BY ExecutionRecords DEF Goes
<1>5. \A g \in Exec : Underway(g, u) => \E h \in Exec : Underway(h, u)'
  BY <1>4, UnderwayStays
<1>6. CASE tasks[u].state = "queued"
  BY <1>3, <1>5, <1>6, StartStays
<1>7. CASE tasks[u].state # "queued"
  <2>1. PICK outcome \in Outcomes(e) : Complete(e, outcome)
    <3>1. CASE Launch(e) \/ RemoteBlocked(e) \/ PublishHandoff(e)
      <4>1. UNCHANGED tasks \/ \E state \in Terminal \cup {"running", "blocked"} :
                                   Goes(execs[e].task, {state})
        BY <3>1, ExecutionRecords
      <4> QED BY <1>7, <4>1 DEF Goes, Written, Terminal
    <3>2. CASE UNCHANGED tasks
      BY <1>7, <3>2
    <3> QED BY <3>1, <3>2
            DEF ExecStep, Abort, AcquireLease, StoreLease, Spawn, Ignore, CleanUp,
                StoreCleanUp, SendResult, Schedule
  <2>2. u \in execs'[e].ready
    <3>1. /\ execs[e].task \in Task /\ outcome \in Outcome
          /\ execs[e].task \notin execs'[e].ready
               => tasks'[execs[e].task] = CompletedRecord(execs[e].task, outcome)
          /\ \A v \in Task \ ({execs[e].task} \cup execs'[e].ready) : tasks'[v] = tasks[v]
      BY <2>1, CompleteRecords
    <3>2. CompletedRecord(execs[e].task, outcome).state # "queued"
      BY <3>1, ResultRecord
    <3> QED BY <1>7, <3>1, <3>2
  <2>3. Underway(e, u)'
    BY <2>2 DEF Underway
  <2> QED BY <1>2, <2>3
<1> QED BY <1>6, <1>7

\* Where environments can be prepared, writes succeed and no blocker thread is
\* opened, every queued task has a handler that will start it: nothing is left
\* in the queue that nobody looks at.
THEOREM QueuedTasksAreBeingStarted ==
    ASSUME ~EnvFaults, ~DiskFaults, Escalating = {}
    PROVE  Spec => []QueuedIsBeingStarted
<1>1. Init => QueuedIsBeingStarted
  BY DEF Init, Undelegated, QueuedIsBeingStarted
<1>2. TypeOK /\ HandlerInv /\ QueuedIsBeingStarted /\ [Next]_vars => QueuedIsBeingStarted'
  <2> SUFFICES ASSUME TypeOK, HandlerInv, QueuedIsBeingStarted, [Next]_vars,
                      NEW u \in Task, tasks'[u].state = "queued"
               PROVE  StartInFlight(u)'
    BY DEF QueuedIsBeingStarted
  <2>0. ASSUME UNCHANGED <<tasks, calls>>, OnlyTokens
        PROVE  StartInFlight(u)'
    <3>1. \A e \in Exec : Underway(e, u) => Underway(e, u)'
      BY <2>0 DEF OnlyTokens, Underway
    <3>2. \A c \in Client : calls[c].task = u /\ calls[c].start => StartInFlight(u)'
      BY <2>0 DEF StartInFlight
    <3> QED BY <2>0, <3>1, <3>2, StartStays
  <2>1. CASE UNCHANGED vars \/ PollResult
    BY <2>0, <2>1, OutsideSlots DEF vars, PollResult
  <2>2. ASSUME NEW t \in Task, Pause(t) \/ PostBlocker(t) \/ ResolveBlocker(t)
        PROVE  StartInFlight(u)'
    <3>1. Pause(t)
      BY <2>2, ThreadRecords DEF HandlerInv
    <3> QED BY <2>0, <3>1, OutsideSlots DEF Pause
  <2> QED BY <2>1, <2>2, OperatorStarts, CallStarts, ExecutionStarts DEF Next
<1> QED BY <1>1, <1>2, TypeCorrect, HandlerInvariant, PTL DEF Spec

-----------------------------------------------------------------------------
(* Approval before execution *)

\* A task that waits for its first approval: nothing is about to start it, and
\* nothing will before its gate is decided.
Awaits(t) ==
    /\ \A e \in Exec : execs[e].task # t /\ t \notin execs[e].ready
    /\ \/ tasks[t].state \in {"undelegated", "failed", "cancelled"}
       \/ /\ tasks[t].state \in {"pending_approval", "blocked", "queued"}
          /\ tasks[t].gate.state = "pending"

\* A task that has never been retried is approved, or awaits its approval.
ApprovalInv ==
    \A t \in ApprovalRequired : tasks[t].attempts = 0 =>
        "pre_execution" \in granted[t] \/ Awaits(t)

\* The approval to execute stays granted until the task is retried.
LEMMA ApprovalStays ==
    ASSUME TypeOK, [Next]_vars, NEW t \in Task, ~\E c \in Client : Retry(c, t),
           "pre_execution" \in granted[t]
    PROVE  "pre_execution" \in granted'[t]
<1>0. granted \in [Task -> SUBSET Scope]
  BY DEF TypeOK
<1>1. CASE UNCHANGED granted
  BY <1>1
<1>2. ASSUME NEW c \in Client, Operator(c)
      PROVE  "pre_execution" \in granted'[t]
  <2>1. PICK u \in Task :
          \/ Delegate(c, u)
          \/ \E actor \in ActorKind : Approve(c, u, actor) \/ Reject(c, u, actor)
          \/ Retry(c, u)
          \/ CancelRequest(c, u)
    BY <1>2 DEF Operator
  <2>2. ASSUME NEW actor \in ActorKind, Approve(c, u, actor)
        PROVE  "pre_execution" \in granted'[t]
    BY <2>2, ApproveRecord
  <2>3. CASE Retry(c, u)
    BY <2>3, RetryRecord
  <2>4. CASE Delegate(c, u) \/ CancelRequest(c, u) \/ \E actor \in ActorKind : Reject(c, u, actor)
    BY <1>1, <2>4 DEF Delegate, CancelRequest, Reject
  <2> QED BY <2>1, <2>2, <2>3, <2>4
<1>3. ASSUME NEW e \in Exec, NEW outcome \in Outcomes(e), Complete(e, outcome)
      PROVE  "pre_execution" \in granted'[t]
  <2>1. granted' = [granted EXCEPT ![execs[e].task] =
                      granted[execs[e].task] \cap {"pre_execution"}]
    BY <1>3 DEF Complete
  <2> QED BY <1>0, <2>1
<1>4. ASSUME NEW c \in Client, CallStep(c) \/ AbortCall(c)
      PROVE  UNCHANGED granted
  BY <1>4 DEF CallStep, AbortCall, CancelRemove, CancelMark, RetryPrepare,
              RetryFinish, CallCleanUp, CallStore
<1>5. ASSUME NEW e \in Exec, ExecStep(e) \/ RemoteBlocked(e) \/ Abort(e),
             ~\E outcome \in Outcomes(e) : Complete(e, outcome)
      PROVE  UNCHANGED granted
  BY <1>5 DEF ExecStep, Abort, RemoteBlocked, AcquireLease, StoreLease, Launch, Spawn,
              Ignore, CleanUp, StoreCleanUp, PublishHandoff, SendResult, Schedule
<1>6. ASSUME NEW u \in Task, Pause(u) \/ PostBlocker(u) \/ ResolveBlocker(u)
      PROVE  UNCHANGED granted
  BY <1>6 DEF Pause, PostBlocker, ResolveBlocker
<1> QED BY <1>1, <1>2, <1>3, <1>4, <1>5, <1>6 DEF Next, PollResult, vars

\* No slot turns to a task but by a start of it.
LEMMA SlotsStayAway ==
    ASSUME TypeOK, NEW t \in Task,
           \A e \in Exec : execs[e].task # t /\ t \notin execs[e].ready,
           OnlyTokens \/ \E f \in Exec, u \in Task \ {t} : Given(f, u)
    PROVE  \A e \in Exec : execs'[e].task # t /\ t \notin execs'[e].ready
BY FixedSlots DEF OnlyTokens, Given

\* A task that awaits its approval is not started by another command.
LEMMA OperatorAwaits ==
    ASSUME TypeOK, NEW c \in Client, Operator(c), NEW t \in ApprovalRequired,
           Awaits(t), ~\E d \in Client : Retry(d, t)
    PROVE  "pre_execution" \in granted'[t] \/ Awaits(t)'
<1>0. PICK u \in Task :
        \/ Delegate(c, u)
        \/ \E actor \in ActorKind : Approve(c, u, actor) \/ Reject(c, u, actor)
        \/ Retry(c, u)
        \/ CancelRequest(c, u)
  BY DEF Operator
<1>1. t \in Task
  BY TasksAssumption
<1>2. UNCHANGED execs => OnlyTokens
  BY OutsideSlots
<1>3. ASSUME tasks'[t] = tasks[t], OnlyTokens \/ \E f \in Exec, v \in Task \ {t} : Given(f, v)
      PROVE  Awaits(t)'
  BY <1>1, <1>3, SlotsStayAway DEF Awaits
<1>4. CASE Delegate(c, u)
  <2>1. CASE u = t
    <3>1. /\ tasks'[t].gate = Requested("pre_execution")
          /\ tasks'[t].state \in {"blocked", "pending_approval"}
          /\ UNCHANGED execs
      BY <1>4, <2>1, DelegateRecord DEF Goes
    <3> QED BY <3>1 DEF Awaits, Requested
  <2>2. CASE u # t
    <3>1. Written(u) /\ (UNCHANGED execs \/ \E f \in Exec : Given(f, u))
      BY <1>4, DelegateRecord DEF Goes, Started
    <3> QED BY <1>1, <1>2, <1>3, <2>2, <3>1 DEF Written
  <2> QED BY <2>1, <2>2
<1>5. ASSUME NEW actor \in ActorKind, Approve(c, u, actor)
      PROVE  "pre_execution" \in granted'[t] \/ Awaits(t)'
  <2>1. CASE u = t
    <3>1. tasks[t].state = "pending_approval"
      BY <1>5, <2>1, ApproveRecord DEF Awaits
    <3> QED BY <1>5, <2>1, <3>1, ApproveRecord
  <2>2. CASE u # t
    <3>1. Written(u) /\ (UNCHANGED execs \/ \E f \in Exec : Given(f, u))
      BY <1>5, ApproveRecord DEF Goes, Started
    <3> QED BY <1>1, <1>2, <1>3, <2>2, <3>1 DEF Written
  <2> QED BY <2>1, <2>2
<1>6. ASSUME NEW actor \in ActorKind, Reject(c, u, actor)
      PROVE  Awaits(t)'
  <2>1. Written(u) /\ tasks'[u].state = "failed" /\ UNCHANGED execs
    BY <1>6, RejectRecord DEF Goes, Reject
  <2> QED BY <1>1, <1>2, <1>3, <2>1 DEF Written, Awaits
<1>7. CASE Retry(c, u)
  <2>1. u # t /\ Written(u) /\ UNCHANGED execs
    BY <1>7, RetryRecord DEF Retry
  <2> QED BY <1>1, <1>2, <1>3, <2>1 DEF Written
<1>8. CASE CancelRequest(c, u)
  BY <1>3, <1>8, OutsideSlots DEF CancelRequest
<1> QED BY <1>0, <1>4, <1>5, <1>6, <1>7, <1>8

\* Nor by the rest of one, a retry of it aside.
LEMMA CallAwaits ==
    ASSUME TypeOK, HandlerInv, NEW c \in Client, CallStep(c) \/ AbortCall(c),
           NEW t \in ApprovalRequired, Awaits(t), tasks[t].attempts = 0
    PROVE  Awaits(t)'
<1>1. t \in Task
  BY TasksAssumption
<1>2. UNCHANGED execs => OnlyTokens
  BY OutsideSlots
<1>3. ASSUME tasks'[t] = tasks[t], OnlyTokens \/ \E f \in Exec, v \in Task \ {t} : Given(f, v)
      PROVE  Awaits(t)'
  BY <1>1, <1>3, SlotsStayAway DEF Awaits
<1>4. CASE RetryFinish(c)
  <2>1. calls[c].task \in Task \ {t}
    <3>1. calls[c].task \in Task /\ tasks[calls[c].task].attempts > 0
      BY <1>4 DEF RetryFinish, TypeOK, HandlerInv, CallIsSound
    <3> QED BY <3>1
  <2>2. tasks'[t] = tasks[t]
    BY <1>1, <1>4, <2>1, CallRecords DEF Goes, Written
  <2>3. UNCHANGED execs \/ \E f \in Exec : Given(f, calls[c].task)
    BY <1>4, CallRecords DEF Started
  <2> QED BY <1>2, <1>3, <2>1, <2>2, <2>3
<1>5. CASE CancelMark(c)
  <2>1. Goes(calls[c].task, {"cancelled"}) /\ UNCHANGED execs
    BY <1>5, CallRecords DEF CancelMark
  <2>2. CASE calls[c].task = t
    BY <2>1, <2>2 DEF Goes, Awaits
  <2>3. CASE calls[c].task # t
    BY <1>1, <1>2, <1>3, <2>1, <2>3 DEF Goes, Written
  <2> QED BY <2>2, <2>3
<1>6. CASE UNCHANGED <<tasks, execs>>
  BY <1>2, <1>3, <1>6
<1> QED BY <1>4, <1>5, <1>6
        DEF CallStep, AbortCall, CancelRemove, RetryPrepare, CallCleanUp, CallStore

\* Nor by the completion of another, which leaves a pending gate alone.
LEMMA ExecutionAwaits ==
    ASSUME TypeOK, NEW e \in Exec, ExecStep(e) \/ RemoteBlocked(e) \/ Abort(e),
           NEW t \in ApprovalRequired, Awaits(t)
    PROVE  Awaits(t)'
<1>1. t \in Task /\ execs[e].task # t /\ t \notin execs[e].ready
  BY TasksAssumption DEF Awaits
<1>2. ASSUME NEW outcome \in Outcomes(e), Complete(e, outcome)
      PROVE  Awaits(t)'
  <2>1. t \notin execs'[e].ready
    BY <1>1, <1>2, CompleteRecords DEF Awaits
  <2>2. tasks'[t] = tasks[t]
    BY <1>1, <1>2, <2>1, CompleteRecords
  <2>3. /\ execs'[e].task = execs[e].task
        /\ \A g \in Exec \ {e} : execs'[g] = execs[g]
    BY <1>2, ExecutionSlots
  <2> QED BY <1>1, <2>1, <2>2, <2>3 DEF Awaits
<1>3. CASE ~\E outcome \in Outcomes(e) : Complete(e, outcome)
  <2>1. tasks'[t] = tasks[t]
    <3>1. CASE Launch(e) \/ RemoteBlocked(e) \/ PublishHandoff(e)
      <4>1. UNCHANGED tasks \/ Written(execs[e].task)
        BY <3>1, ExecutionRecords DEF Goes
      <4> QED BY <1>1, <4>1 DEF Written
    <3>2. CASE UNCHANGED tasks
      BY <3>2
    <3> QED BY <1>3, <3>1, <3>2
            DEF ExecStep, Abort, AcquireLease, StoreLease, Spawn, Ignore, CleanUp,
                StoreCleanUp, SendResult, Schedule
  <2>2. CASE Schedule(e)
    <3>1. PICK u \in execs[e].ready, f \in Exec \ {e} :
            /\ execs'[f] = Starting(u)
            /\ \/ execs'[e] = NoExecution
               \/ /\ execs'[e].task = execs[e].task
                  /\ execs'[e].ready = execs[e].ready \ {u}
            /\ \A g \in Exec \ {e, f} : execs'[g] = execs[g]
      BY <2>2, ExecutionSlots
    <3>2. NoTask # t
      BY <1>1, TasksAssumption
    <3> QED BY <1>1, <2>1, <3>1, <3>2, FixedSlots DEF Awaits
  <2>3. CASE ~Schedule(e)
    <3>1. /\ execs'[e].task \in {execs[e].task, NoTask}
          /\ execs'[e].ready \subseteq execs[e].ready
          /\ \A g \in Exec \ {e} : execs'[g] = execs[g]
      <4>1. CASE Launch(e) \/ SendResult(e)
        BY <4>1, ExecutionSlots, FixedSlots DEF Empties
      <4>2. CASE ~(Launch(e) \/ SendResult(e))
        <5>1. Empties(e) \/ \E at : Advances(e, at)
          BY <1>3, <2>3, <4>2, ExecutionAdvances DEF ExecStep
        <5> QED BY <5>1, FixedSlots DEF Empties, Advances
      <4> QED BY <4>1, <4>2
    <3>2. NoTask # t
      BY <1>1, TasksAssumption
    <3> QED BY <1>1, <2>1, <3>1, <3>2 DEF Awaits
  <2> QED BY <2>2, <2>3
<1> QED BY <1>2, <1>3

\* A task that has not been retried by a step had not been before.
LEMMA FirstAttempt ==
    ASSUME TypeOK, [Next]_vars, NEW t \in Task, tasks'[t].attempts = 0
    PROVE  tasks[t].attempts = 0 /\ ~\E c \in Client : Retry(c, t)
<1>1. tasks[t].attempts \in Nat
  BY DEF TypeOK, Record
<1>2. ASSUME NEW c \in Client, Retry(c, t) PROVE FALSE
  BY <1>1, <1>2, RetryRecord
<1> QED BY <1>1, <1>2, AttemptsGrow

\* The invariant holds in every reachable state.
LEMMA ApprovalInvariant == Spec => []ApprovalInv
<1>1. Init => ApprovalInv
  BY TasksAssumption DEF Init, Undelegated, NoExecution, ApprovalInv, Awaits
<1>2. TypeOK /\ HandlerInv /\ ApprovalInv /\ [Next]_vars => ApprovalInv'
  <2> SUFFICES ASSUME TypeOK, HandlerInv, ApprovalInv, [Next]_vars,
                      NEW t \in ApprovalRequired, tasks'[t].attempts = 0
               PROVE  "pre_execution" \in granted'[t] \/ Awaits(t)'
    BY DEF ApprovalInv
  <2>1. t \in Task /\ tasks[t].attempts = 0 /\ ~\E c \in Client : Retry(c, t)
    BY FirstAttempt, TasksAssumption
  <2>2. CASE "pre_execution" \in granted[t]
    BY <2>1, <2>2, ApprovalStays
  <2>3. CASE Awaits(t)
    <3>1. CASE UNCHANGED vars \/ PollResult
      BY <2>3, <3>1 DEF vars, PollResult, Awaits
    <3>2. ASSUME NEW u \in Task, Pause(u) \/ PostBlocker(u) \/ ResolveBlocker(u)
          PROVE  Awaits(t)'
      <4>1. OnlyTokens
        BY <3>2, OutsideSlots DEF PostBlocker, ResolveBlocker
      <4>2. \A e \in Exec : execs'[e].task # t /\ t \notin execs'[e].ready
        BY <2>1, <2>3, <4>1, SlotsStayAway DEF Awaits
      <4>3. CASE Pause(u)
        BY <2>3, <4>2, <4>3 DEF Pause, Awaits
      <4>4. CASE PostBlocker(u) \/ ResolveBlocker(u)
        <5>1. CASE u = t
          BY <2>3, <4>2, <4>4, <5>1, ThreadRecords DEF Awaits, Terminal
        <5>2. CASE u # t
          BY <2>1, <2>3, <4>2, <4>4, <5>2, ThreadRecords DEF Awaits, Written
        <5> QED BY <5>1, <5>2
      <4> QED BY <3>2, <4>3, <4>4
    <3> QED BY <2>1, <2>3, <3>1, <3>2, OperatorAwaits, CallAwaits, ExecutionAwaits DEF Next
  <2> QED BY <2>1, <2>2, <2>3 DEF ApprovalInv
<1> QED BY <1>1, <1>2, TypeCorrect, HandlerInvariant, PTL DEF Spec

\* No handler of an execution works for a task that has never been retried
\* and has not been approved where it has to be.
FirstAttemptIsApproved ==
    \A e \in Exec : \A t \in ApprovalRequired :
        tasks[t].attempts = 0 /\ (execs[e].task = t \/ t \in execs[e].ready)
            => "pre_execution" \in granted[t]

\* Until its first retry a task that needs an approval is started only once it
\* has it, whatever other tasks complete and whatever is blocked meanwhile.
THEOREM FirstAttemptsAreApproved == Spec => []FirstAttemptIsApproved
<1>1. ApprovalInv => FirstAttemptIsApproved
  BY DEF ApprovalInv, FirstAttemptIsApproved, Awaits
<1> QED BY <1>1, ApprovalInvariant, PTL

\* No operator retries a task.
NoRetries == "retry" \notin Commands \/ MaxAttempts = 0

\* Then every attempt is the first.
LEMMA AttemptsAreFirst ==
    ASSUME NoRetries
    PROVE  Spec => [](\A t \in Task : tasks[t].attempts = 0)
<1> DEFINE First == \A t \in Task : tasks[t].attempts = 0
<1>1. Init => First
  BY DEF Init, Undelegated
<1>2. TypeOK /\ First /\ [Next]_vars => First'
  <2> SUFFICES ASSUME TypeOK, First, [Next]_vars, NEW t \in Task
               PROVE  tasks'[t].attempts = 0
    OBVIOUS
  <2>1. tasks[t].attempts = 0
    OBVIOUS
  <2>2. ~\E c \in Client : Retry(c, t)
    BY <2>1, BoundsAssumption DEF Retry, NoRetries
  <2> QED BY <2>1, <2>2, AttemptsGrow
<1> QED BY <1>1, <1>2, TypeCorrect, PTL DEF Spec

\* Where no task is retried, no execution is launched without the approval of
\* its task.  (With retries it may be, see approval_bypass.cfg.)
THEOREM ApprovalComesFirst ==
    ASSUME NoRetries
    PROVE  Spec => []ApprovedBeforeExecution
<1>1. TypeOK /\ FirstAttemptIsApproved /\ (\A t \in Task : tasks[t].attempts = 0)
        => ApprovedBeforeExecution
  BY TasksAssumption DEF FirstAttemptIsApproved, ApprovedBeforeExecution
<1> QED BY <1>1, FirstAttemptsAreApproved, AttemptsAreFirst, TypeCorrect, PTL

-----------------------------------------------------------------------------
(* One execution per attempt *)

\* A local task that no blocker thread can be opened on, in its first attempt.
PlainFirst(t) == t \notin Remote \cup Escalating /\ tasks[t].attempts = 0

\* A slot that will start the task or executes it.
Working(e, t) == Underway(e, t) \/ (Executing(e) /\ execs[e].task = t)

\* The states of a task that has not been started.
Unstarted == {"undelegated", "blocked", "pending_approval"}

\* The blocks of a completion that may still write to the record.
Closing == {"cleanup", "store_cleanup", "handoff"}

\* At most one slot works for the task, none before it is queued or after its
\* result, and a completion that hands a result off finds the task ended.
IsOnce(t) ==
    /\ \A e, f \in Exec : Working(e, t) /\ Working(f, t) => e = f
    /\ \A e \in Exec : Working(e, t) => tasks[t].state \notin Unstarted /\ ~tasks[t].result
    /\ tasks[t].state \in Unstarted => ~tasks[t].result
    /\ active[t].attempt = 0
    /\ \A e \in Exec : execs[e].task = t => execs[e].attempt = 0
    /\ \A e \in Exec : execs[e].task = t /\ execs[e].at \in Closing =>
         /\ tasks[t].result
         /\ execs[e].final \in HandedOffAsBlocker => tasks[t].state \in Terminal

OnceInv ==
    /\ \A e \in Exec : execs[e].token # "paused"
    /\ \A t \in Task : PlainFirst(t) => IsOnce(t)

\* A slot does not come nearer to the task than it was.
StaysAway(e, t) ==
    /\ Working(e, t)' => Working(e, t)
    /\ execs'[e].task = t =>
         /\ execs[e].task = t
         /\ execs'[e].attempt = execs[e].attempt
         /\ execs'[e].at \in Closing =>
              execs[e].at \in Closing /\ execs'[e].final = execs[e].final

\* A step that starts nothing keeps a task once.
LEMMA OnceStays ==
    ASSUME NEW t \in Task, IsOnce(t),
           active'[t] \in {active[t], NotActive},
           \A e \in Exec : StaysAway(e, t),
           tasks'[t].result = tasks[t].result,
           tasks'[t].state \in Unstarted => tasks[t].state \in Unstarted,
           tasks[t].state \in Terminal => tasks'[t].state \in Terminal
    PROVE  IsOnce(t)'
<1>1. active'[t].attempt = 0
  BY DEF IsOnce, NotActive
<1>2. \A e \in Exec : Working(e, t)' => Working(e, t)
  BY DEF StaysAway
<1>3. /\ \A e \in Exec : Working(e, t) => tasks'[t].state \notin Unstarted /\ ~tasks'[t].result
      /\ \A e, f \in Exec : Working(e, t) /\ Working(f, t) => e = f
      /\ tasks'[t].state \in Unstarted => ~tasks'[t].result
  BY DEF IsOnce
<1>4. \A e \in Exec : execs'[e].task = t =>
        /\ execs'[e].attempt = 0
        /\ execs'[e].at \in Closing =>
             /\ tasks'[t].result
             /\ execs'[e].final \in HandedOffAsBlocker => tasks'[t].state \in Terminal
  BY DEF IsOnce, StaysAway
<1> HIDE DEF Working
<1> QED BY <1>1, <1>2, <1>3, <1>4 DEF IsOnce

\* What keeps the slots away from a task.
LEMMA SlotsStayAwayOnce ==
    ASSUME TypeOK, HandlerInv, NEW t \in Task, NEW e \in Exec
    PROVE  /\ OnlyTokens => StaysAway(e, t)
           /\ execs'[e] = execs[e] => StaysAway(e, t)
           /\ execs'[e] = NoExecution => StaysAway(e, t)
           /\ \A u \in Task \ {t} : execs'[e] = Starting(u) => StaysAway(e, t)
           /\ \A f \in Exec, u \in Task \ {t} : Given(f, u) => StaysAway(e, t)
<1>1. NoExecution.task # t
  BY FixedSlots, TasksAssumption
<1>2. ASSUME OnlyTokens PROVE StaysAway(e, t)
  BY <1>2 DEF OnlyTokens, StaysAway, Working, Underway, Executing
<1>3. ASSUME execs'[e] = execs[e] PROVE StaysAway(e, t)
  BY <1>3 DEF StaysAway, Working, Underway, Executing
<1>4. ASSUME execs'[e] = NoExecution PROVE StaysAway(e, t)
  BY <1>1, <1>4, FixedSlots DEF StaysAway, Working, Underway, Executing
<1>5. ASSUME NEW u \in Task \ {t}, execs'[e] = Starting(u) PROVE StaysAway(e, t)
  BY <1>5, FixedSlots DEF StaysAway, Working, Underway, Executing
<1>6. ASSUME NEW f \in Exec, NEW u \in Task \ {t}, Given(f, u) PROVE StaysAway(e, t)
  BY <1>3, <1>5, <1>6 DEF Given
<1> QED BY <1>2, <1>3, <1>4, <1>5, <1>6

\* The start of a task that has not been started.
LEMMA OnceStarted ==
    ASSUME TypeOK, HandlerInv, NEW t \in Task, IsOnce(t), tasks[t].state \in Unstarted,
           tasks'[t].state = "queued", tasks'[t].result = tasks[t].result,
           active'[t] = active[t], NEW f \in Exec, Given(f, t)
    PROVE  IsOnce(t)'
<1>1. /\ \A e \in Exec : ~Working(e, t)
      /\ ~tasks[t].result
  BY DEF IsOnce
<1>2. /\ execs'[f].at = "acquire" /\ execs'[f].task = t /\ execs'[f].attempt = 0
      /\ \A e \in Exec \ {f} : execs'[e] = execs[e]
  BY FixedSlots DEF Given
<1>3. \A e \in Exec \ {f} : ~Working(e, t)'
  BY <1>1, <1>2 DEF Working, Underway, Executing
<1>4. active'[t].attempt = 0 /\ "queued" \notin Unstarted
  BY DEF IsOnce, Unstarted
<1>5. \A e \in Exec : execs'[e].task = t =>
        execs'[e].attempt = 0 /\ execs'[e].at \notin Closing
  BY <1>1, <1>2 DEF IsOnce, Closing
<1> HIDE DEF Working
<1> QED BY <1>1, <1>3, <1>4, <1>5 DEF IsOnce

\* A command starts a task at most once.
LEMMA OperatorOnce ==
    ASSUME TypeOK, HandlerInv, NEW c \in Client, Operator(c),
           NEW t \in Task, IsOnce(t), ~\E d \in Client : Retry(d, t)
    PROVE  IsOnce(t)'
<1>0. PICK u \in Task :
        \/ Delegate(c, u)
        \/ \E actor \in ActorKind : Approve(c, u, actor) \/ Reject(c, u, actor)
        \/ Retry(c, u)
        \/ CancelRequest(c, u)
  BY DEF Operator
<1>1. /\ UNCHANGED execs => OnlyTokens
      /\ OnlyTokens => \A e \in Exec : StaysAway(e, t)
  BY SlotsStayAwayOnce, OutsideSlots
<1>2. ASSUME Written(u), u # t, UNCHANGED active, UNCHANGED execs \/ \E f \in Exec : Given(f, u)
      PROVE  IsOnce(t)'
  <2>1. \A e \in Exec : StaysAway(e, t)
    BY <1>1, <1>2, SlotsStayAwayOnce
  <2> QED BY <1>2, <2>1, OnceStays DEF Written
<1>3. ASSUME u = t, UNCHANGED active, tasks'[t].result = tasks[t].result,
             tasks[t].state \in Unstarted, tasks'[t].state \in Unstarted \cup {"queued"},
             IF tasks'[t].state = "queued" THEN Started(t) ELSE UNCHANGED execs
      PROVE  IsOnce(t)'
  <2>1. CASE \E f \in Exec : Given(f, t) /\ tasks'[t].state = "queued"
    BY <1>3, <2>1, OnceStarted
  <2>2. CASE UNCHANGED execs
    BY <1>1, <1>3, <2>2, OnceStays DEF Unstarted, Terminal
  <2> QED BY <1>3, <2>1, <2>2 DEF Started
<1>4. CASE Delegate(c, u)
  <2>1. CASE u = t
    BY <1>3, <1>4, <2>1, DelegateRecord DEF Goes, Delegate, Unstarted
  <2>2. CASE u # t
    <3>1. /\ Written(u) /\ UNCHANGED active
          /\ UNCHANGED execs \/ \E f \in Exec : Given(f, u)
      BY <1>4, DelegateRecord DEF Goes, Delegate, Started
    <3> QED BY <1>2, <2>2, <3>1
  <2> QED BY <2>1, <2>2
<1>5. ASSUME NEW actor \in ActorKind, Approve(c, u, actor)
      PROVE  IsOnce(t)'
  <2>1. /\ \/ tasks[u].state = "pending_approval" /\ Goes(u, {"queued", "blocked"})
           \/ /\ tasks[u].state \in {"review_pending", "test_pending"}
              /\ Goes(u, {"test_pending", "completed"})
        /\ IF tasks'[u].state = "queued" THEN Started(u) ELSE UNCHANGED execs
        /\ UNCHANGED active
    BY <1>5, ApproveRecord
  <2>2. CASE u = t /\ tasks[u].state = "pending_approval"
    BY <1>3, <2>1, <2>2 DEF Goes, Unstarted
  <2>3. CASE u = t /\ tasks[u].state \in {"review_pending", "test_pending"}
    <3>1. /\ UNCHANGED execs /\ tasks'[t].result = tasks[t].result
          /\ tasks'[t].state \notin Unstarted /\ tasks[t].state \notin Terminal
      BY <2>1, <2>3 DEF Goes, Unstarted, Terminal
    <3> QED BY <1>1, <2>1, <3>1, OnceStays
  <2>4. CASE u # t
    BY <1>2, <2>1, <2>4 DEF Goes, Started
  <2> QED BY <2>1, <2>2, <2>3, <2>4
<1>6. ASSUME NEW actor \in ActorKind, Reject(c, u, actor)
      PROVE  IsOnce(t)'
  <2>1. Goes(u, {"failed"}) /\ UNCHANGED <<active, execs>>
    BY <1>6, RejectRecord DEF Reject
  <2>2. /\ tasks'[t].result = tasks[t].result
        /\ tasks'[t] = tasks[t] \/ tasks'[t].state = "failed"
    BY <2>1 DEF Goes, Written
  <2> QED BY <1>1, <2>1, <2>2, OnceStays DEF Unstarted, Terminal
<1>7. CASE Retry(c, u)
  <2>1. u # t /\ Written(u) /\ UNCHANGED <<active, execs>>
    BY <1>7, RetryRecord DEF Retry
  <2> QED BY <1>2, <2>1
<1>8. CASE CancelRequest(c, u)
  <2>1. UNCHANGED <<tasks, active>> /\ OnlyTokens
    BY <1>8, OutsideSlots DEF CancelRequest
  <2> QED BY <1>1, <2>1, OnceStays
<1> QED BY <1>0, <1>4, <1>5, <1>6, <1>7, <1>8

\* The later blocks of a command start only tasks that are retried.
LEMMA CallOnce ==
    ASSUME TypeOK, HandlerInv, NEW c \in Client, CallStep(c) \/ AbortCall(c),
           NEW t \in Task, IsOnce(t), tasks[t].attempts = 0
    PROVE  IsOnce(t)'
<1>1. /\ UNCHANGED execs => OnlyTokens
      /\ OnlyTokens => \A e \in Exec : StaysAway(e, t)
  BY SlotsStayAwayOnce, OutsideSlots
<1>2. active \in [Task -> Control]
  BY DEF TypeOK
<1>3. CASE RetryFinish(c)
  <2>1. calls[c].task \in Task \ {t} /\ UNCHANGED active
    <3>1. calls[c].task \in Task /\ tasks[calls[c].task].attempts > 0
      BY <1>3 DEF RetryFinish, TypeOK, HandlerInv, CallIsSound
    <3> QED BY <1>3, <3>1 DEF RetryFinish
  <2>2. tasks'[t] = tasks[t]
    BY <1>3, <2>1, CallRecords DEF Goes, Written
  <2>3. UNCHANGED execs \/ \E f \in Exec : Given(f, calls[c].task)
    BY <1>3, CallRecords DEF Started
  <2>4. \A e \in Exec : StaysAway(e, t)
    BY <1>1, <2>1, <2>3, SlotsStayAwayOnce
  <2> QED BY <2>1, <2>2, <2>4, OnceStays
<1>4. CASE CancelMark(c)
  <2>1. Goes(calls[c].task, {"cancelled"}) /\ UNCHANGED <<active, execs>>
    BY <1>4, CallRecords DEF CancelMark
  <2>2. /\ tasks'[t].result = tasks[t].result
        /\ tasks'[t] = tasks[t] \/ tasks'[t].state = "cancelled"
    BY <2>1 DEF Goes, Written
  <2> QED BY <1>1, <2>1, <2>2, OnceStays DEF Unstarted, Terminal
<1>5. CASE CancelRemove(c)
  <2>1. active'[t] \in {active[t], NotActive} /\ UNCHANGED <<tasks, execs>>
    BY <1>2, <1>5 DEF CancelRemove
  <2> QED BY <1>1, <2>1, OnceStays
<1>6. CASE UNCHANGED <<tasks, active, execs>>
  BY <1>1, <1>6, OnceStays
<1> QED BY <1>3, <1>4, <1>5, <1>6
        DEF CallStep, AbortCall, RetryPrepare, CallCleanUp, CallStore

\* The completion of the task: nobody works for it any more.
LEMMA CompletedOnce ==
    ASSUME TypeOK, HandlerInv, OnceInv, NEW e \in Exec,
           NEW outcome \in Outcomes(e), Complete(e, outcome),
           NEW t \in Task, IsOnce(t), t = execs[e].task, t \notin Remote
    PROVE  IsOnce(t)'
<1>1. Working(e, t) /\ execs[e].at = "running" /\ outcome \in {"success", "failed", "cancelled"}
  <2>1. execs[e].at \in Ended /\ execs[e].at # "remote_blocked" /\ execs[e].token # "paused"
    BY DEF Complete, HandlerInv, ExecutionIsSound, OnceInv
  <2> QED BY <2>1 DEF Working, Executing, Ended, Outcomes
<1>2. \A g \in Exec \ {e} : ~Working(g, t) /\ ~(execs[g].task = t /\ execs[g].at \in Closing)
  BY <1>1 DEF IsOnce
<1>3. outcome \in Outcome
  BY <1>1 DEF Outcome
<1>4. CompletedRecord(t, outcome).state \notin Unstarted \cup {"blocked"}
  BY <1>1, <1>3, ResultRecord DEF Unstarted
<1>5. /\ t \notin execs'[e].ready
      /\ tasks'[t] = CompletedRecord(t, outcome) /\ tasks'[t].result
      /\ active'[t] = NotActive
  <2>1. t \notin execs'[e].ready
    BY <1>4, CompleteRecords
  <2>2. active \in [Task -> Control]
    BY DEF TypeOK
  <2> QED BY <2>1, <2>2, CompleteRecords
<1>6. /\ execs'[e].at = "cleanup" /\ execs'[e].attempt = execs[e].attempt
      /\ execs'[e].final = CompletedRecord(t, outcome).state
      /\ \A g \in Exec \ {e} : execs'[g] = execs[g]
  BY ExecutionSlots
<1>7. \A g \in Exec : ~Working(g, t)'
  BY <1>2, <1>5, <1>6 DEF Working, Underway, Executing, Ended
<1>8. CompletedRecord(t, outcome).state \in HandedOffAsBlocker
        => CompletedRecord(t, outcome).state \in Terminal
  BY <1>4 DEF HandedOffAsBlocker, Terminal
<1>9. \A g \in Exec : execs'[g].task = t =>
        /\ execs'[g].attempt = 0
        /\ execs'[g].at \in Closing => g = e
  BY <1>2, <1>6 DEF IsOnce
<1>10. active'[t].attempt = 0
  BY <1>5 DEF NotActive
<1> HIDE DEF Working
<1> QED BY <1>4, <1>5, <1>6, <1>7, <1>8, <1>9, <1>10 DEF IsOnce

\* The completion of another task starts it, or leaves it alone.
LEMMA CompletionStartsOnce ==
    ASSUME TypeOK, HandlerInv, NEW e \in Exec,
           NEW outcome \in Outcomes(e), Complete(e, outcome),
           NEW t \in Task, IsOnce(t), t # execs[e].task
    PROVE  IsOnce(t)'
<1>1. /\ execs'[e].at = "cleanup" /\ execs'[e].task = execs[e].task
      /\ \A g \in Exec \ {e} : execs'[g] = execs[g]
  BY ExecutionSlots
<1>2. active \in [Task -> Control] /\ active' = [active EXCEPT ![execs[e].task] = NotActive]
  BY CompleteRecords DEF TypeOK
<1>3. active'[t] = active[t] /\ tasks'[t].result = tasks[t].result
  BY <1>2, CompleteRecords
<1>4. CASE t \in execs'[e].ready
  <2>1. tasks'[t].state = "queued" /\ tasks[t].state = "blocked"
    BY <1>4, CompleteRecords
  <2>2. /\ \A g \in Exec : ~Working(g, t)
        /\ ~tasks[t].result /\ "queued" \notin Unstarted
    BY <2>1 DEF IsOnce, Unstarted
  <2>3. \A g \in Exec \ {e} : ~Working(g, t)'
    BY <1>1, <2>2 DEF Working, Underway, Executing
  <2>4. \A g \in Exec : execs'[g].task = t =>
          execs'[g].attempt = 0 /\ execs'[g].at \notin Closing
    BY <1>1, <2>2 DEF IsOnce
  <2>5. active'[t].attempt = 0
    BY <1>3 DEF IsOnce
  <2> HIDE DEF Working
  <2> QED BY <1>3, <2>1, <2>2, <2>3, <2>4, <2>5 DEF IsOnce
<1>5. CASE t \notin execs'[e].ready
  <2>1. tasks'[t] = tasks[t]
    BY <1>5, CompleteRecords
  <2>2. \A g \in Exec : StaysAway(g, t)
    BY <1>1, <1>5 DEF StaysAway, Working, Underway, Executing, Ended
  <2> QED BY <1>3, <2>1, <2>2, OnceStays
<1> QED BY <1>4, <1>5

\* The launch of the task by the one slot that works for it.
LEMMA LaunchedOnce ==
    ASSUME TypeOK, HandlerInv, NEW e \in Exec, Launch(e), NEW t \in Task, IsOnce(t),
           t = execs[e].task, tasks[t].attempts = 0
    PROVE  IsOnce(t)'
<1>1. Working(e, t) /\ execs[e].ready = {}
  BY DEF Launch, Working, Underway, HandlerInv, ExecutionIsSound
<1>2. /\ ~tasks[t].result /\ "running" \notin Unstarted
      /\ \A g \in Exec \ {e} : ~Working(g, t)
      /\ \A g \in Exec : ~(execs[g].task = t /\ execs[g].at \in Closing)
  BY <1>1 DEF IsOnce, Unstarted
<1>3. /\ execs'[e].at = "spawn" /\ execs'[e].task = t /\ execs'[e].attempt = 0
      /\ \A g \in Exec \ {e} : execs'[g] = execs[g]
  BY ExecutionSlots DEF LaunchedAttempt
<1>4. tasks'[t].state = "running" /\ tasks'[t].result = tasks[t].result
  BY ExecutionRecords DEF Goes
<1>5. active'[t].attempt = 0
  BY DEF Launch, LaunchedAttempt, TypeOK
<1>6. \A g \in Exec \ {e} : ~Working(g, t)'
  BY <1>2, <1>3 DEF Working, Underway, Executing
<1>7. \A g \in Exec : execs'[g].task = t =>
        execs'[g].attempt = 0 /\ execs'[g].at \notin Closing
  BY <1>2, <1>3 DEF IsOnce, Closing
<1> HIDE DEF Working
<1> QED BY <1>2, <1>4, <1>5, <1>6, <1>7 DEF IsOnce

\* The handler of a completion starts the task that it queued.
LEMMA ScheduledOnce ==
    ASSUME TypeOK, HandlerInv, NEW e \in Exec, Schedule(e), NEW t \in Task, IsOnce(t)
    PROVE  IsOnce(t)'
<1>1. PICK u \in execs[e].ready, f \in Exec \ {e} :
        /\ execs'[f] = Starting(u)
        /\ \/ execs'[e] = NoExecution
           \/ /\ execs'[e].at = "schedule" /\ execs'[e].task = execs[e].task
              /\ execs'[e].attempt = execs[e].attempt
              /\ execs'[e].ready = execs[e].ready \ {u}
        /\ \A g \in Exec \ {e, f} : execs'[g] = execs[g]
  BY ExecutionSlots
<1>2. UNCHANGED <<tasks, active>> /\ execs[e].at = "schedule" /\ u \in Task
  BY DEF Schedule, TypeOK, Execution
<1>3. NoExecution.task # t /\ "schedule" \notin Closing
  BY FixedSlots, TasksAssumption DEF Closing
<1>4. \A g \in Exec \ {f} : StaysAway(g, t) /\ (u = t => (Working(g, t)' => g # e))
  BY <1>1, <1>2, <1>3, FixedSlots DEF StaysAway, Working, Underway, Executing, Ended
<1>5. CASE u # t
  <2>1. StaysAway(f, t)
    BY <1>1, <1>2, <1>5, SlotsStayAwayOnce
  <2> QED BY <1>2, <1>4, <2>1, OnceStays
<1>6. CASE u = t
  <2>1. Working(e, t) /\ ~tasks[t].result /\ tasks[t].state \notin Unstarted
    BY <1>1, <1>6 DEF Working, Underway, IsOnce
  <2>2. \A g \in Exec \ {f} : ~Working(g, t)'
    BY <1>4, <1>6, <2>1 DEF IsOnce, StaysAway
  <2>3. execs'[f].at = "acquire" /\ execs'[f].task = t /\ execs'[f].attempt = 0
    BY <1>1, <1>6, FixedSlots
  <2>4. \A g \in Exec : execs'[g].task = t =>
          execs'[g].attempt = 0 /\ execs'[g].at \notin Closing
    BY <1>4, <2>1, <2>3 DEF IsOnce, StaysAway, Closing
  <2>5. active'[t].attempt = 0
    BY <1>2 DEF IsOnce
  <2> HIDE DEF Working
  <2> QED BY <1>2, <2>1, <2>2, <2>4, <2>5 DEF IsOnce
<1> QED BY <1>5, <1>6

\* No step of an execution makes another one work for the task.
LEMMA ExecutionOnce ==
    ASSUME TypeOK, HandlerInv, OnceInv, NEW e \in Exec,
           ExecStep(e) \/ RemoteBlocked(e) \/ Abort(e),
           NEW t \in Task, IsOnce(t), PlainFirst(t)
    PROVE  IsOnce(t)'
<1>0. active \in [Task -> Control] /\ t \notin Remote /\ tasks[t].attempts = 0
  BY DEF TypeOK, PlainFirst
<1>1. ASSUME NEW at, Advances(e, at),
             at \in {"store_lease", "launch"} => Underway(e, t) \/ execs[e].task # t,
             at = "running" => Executing(e),
             at \in Closing => execs[e].at \in Closing,
             at \notin {"remote_blocked", "acquire", "spawn"}
      PROVE  \A g \in Exec : StaysAway(g, t)
  BY <1>1 DEF StaysAway, Advances, Working, Underway, Executing, Ended
<1>2. CASE AcquireLease(e) \/ StoreLease(e)
  <2>1. PICK at \in {"store_lease", "launch"} : Advances(e, at)
    BY <1>2, ExecutionAdvances
  <2>2. (Underway(e, t) \/ execs[e].task # t) /\ UNCHANGED <<tasks, active>>
    BY <1>2 DEF AcquireLease, StoreLease, Underway
  <2>3. \A g \in Exec : StaysAway(g, t)
    BY <1>1, <2>1, <2>2 DEF Closing
  <2> QED BY <2>2, <2>3, OnceStays
<1>3. CASE Spawn(e)
  <2>1. Advances(e, "running") /\ Executing(e) /\ UNCHANGED <<tasks, active>>
    BY <1>3, ExecutionAdvances DEF Spawn, Executing
  <2>2. \A g \in Exec : StaysAway(g, t)
    BY <1>1, <2>1 DEF Closing
  <2> QED BY <2>1, <2>2, OnceStays
<1>4. CASE CleanUp(e) \/ StoreCleanUp(e) \/ PublishHandoff(e)
  <2>1. execs[e].at \in Closing
    BY <1>4 DEF CleanUp, StoreCleanUp, PublishHandoff, Closing
  <2>2. Empties(e) \/ \E at \in {"store_cleanup", "handoff", "publish"} : Advances(e, at)
    BY <1>4, ExecutionAdvances
  <2>3. \A g \in Exec : StaysAway(g, t)
    BY <1>1, <2>1, <2>2, SlotsStayAwayOnce DEF Empties
  <2>4. UNCHANGED active
    BY <1>4 DEF CleanUp, StoreCleanUp, PublishHandoff
  <2>5. tasks'[t].result = tasks[t].result /\ tasks'[t].state = tasks[t].state
    <3>1. CASE CleanUp(e) \/ StoreCleanUp(e)
      BY <3>1 DEF CleanUp, StoreCleanUp
    <3>2. CASE PublishHandoff(e) /\ execs[e].task # t
      BY <3>2, ExecutionRecords DEF Goes, Written
    <3>3. CASE PublishHandoff(e) /\ execs[e].task = t
      <4>1. execs[e].at = "handoff" /\ execs[e].final \in HandedOffAsBlocker
        BY <3>3 DEF PublishHandoff, HandlerInv, ExecutionIsSound
      <4>2. tasks[t].state \in Terminal
        BY <2>1, <3>3, <4>1 DEF IsOnce
      <4> QED BY <3>3, <4>2, ExecutionRecords DEF Goes
    <3> QED BY <1>4, <3>1, <3>2, <3>3
  <2> QED BY <2>3, <2>4, <2>5, OnceStays
<1>5. CASE Launch(e)
  <2>1. CASE execs[e].task = t
    BY <1>0, <1>5, <2>1, LaunchedOnce
  <2>2. CASE execs[e].task # t
    <3>1. tasks'[t] = tasks[t] /\ active'[t] = active[t]
      BY <1>0, <1>5, <2>2, ExecutionRecords DEF Goes, Written, Launch
    <3>2. \A g \in Exec : StaysAway(g, t)
      BY <1>5, <2>2, ExecutionSlots DEF StaysAway, Working, Underway, Executing
    <3> QED BY <3>1, <3>2, OnceStays
  <2> QED BY <2>1, <2>2
<1>6. CASE RemoteBlocked(e)
  <2>1. execs[e].task # t /\ Advances(e, "remote_blocked") /\ UNCHANGED active
    BY <1>0, <1>6, ExecutionAdvances DEF RemoteBlocked
  <2>2. tasks'[t] = tasks[t]
    BY <1>6, <2>1, ExecutionRecords DEF Goes, Written
  <2>3. \A g \in Exec : StaysAway(g, t)
    BY <2>1 DEF StaysAway, Advances, Working, Underway, Executing
  <2> QED BY <2>1, <2>2, <2>3, OnceStays
<1>7. CASE Ignore(e) \/ Abort(e)
  <2>1. Empties(e) /\ UNCHANGED tasks /\ active'[t] \in {active[t], NotActive}
    BY <1>0, <1>7, ExecutionAdvances DEF Ignore, Abort, ControlAfterIgnored
  <2>2. \A g \in Exec : StaysAway(g, t)
    BY <2>1, SlotsStayAwayOnce DEF Empties
  <2> QED BY <2>1, <2>2, OnceStays
<1>8. CASE SendResult(e)
  <2>1. UNCHANGED <<tasks, active>>
    BY <1>8 DEF SendResult
  <2>2. NoTask # t /\ "schedule" \notin Closing
    BY TasksAssumption DEF Closing
  <2>3. \A g \in Exec : StaysAway(g, t)
    <3>1. CASE Empties(e)
      BY <3>1, SlotsStayAwayOnce DEF Empties
    <3>2. CASE /\ execs'[e].at = "schedule" /\ execs'[e].task = NoTask
               /\ execs'[e].ready = execs[e].ready
               /\ \A g \in Exec \ {e} : execs'[g] = execs[g]
      BY <2>2, <3>2 DEF StaysAway, Working, Underway, Executing
    <3> QED BY <1>8, <3>1, <3>2, ExecutionSlots
  <2> QED BY <2>1, <2>3, OnceStays
<1>9. CASE Schedule(e)
  BY <1>9, ScheduledOnce
<1>10. ASSUME NEW outcome \in Outcomes(e), Complete(e, outcome)
       PROVE  IsOnce(t)'
  BY <1>0, <1>10, CompletedOnce, CompletionStartsOnce
<1> QED BY <1>2, <1>3, <1>4, <1>5, <1>6, <1>7, <1>8, <1>9, <1>10 DEF ExecStep

\* No execution is paused but by pause_task.
LEMMA NothingPauses ==
    ASSUME "pause" \notin Commands, TypeOK, [Next]_vars, NEW g \in Exec,
           \A e \in Exec : execs[e].token # "paused"
    PROVE  execs'[g].token # "paused"
<1>1. CASE UNCHANGED execs
  BY <1>1
<1>2. ASSUME NEW f \in Exec, NEW t, Given(f, t) PROVE execs'[g].token # "paused"
  BY <1>2, FixedSlots DEF Given
<1>3. ASSUME NEW c \in Client, Operator(c) PROVE execs'[g].token # "paused"
  <2>1. PICK u \in Task :
          \/ Delegate(c, u)
          \/ \E actor \in ActorKind : Approve(c, u, actor) \/ Reject(c, u, actor)
          \/ Retry(c, u)
          \/ CancelRequest(c, u)
    BY <1>3 DEF Operator
  <2>2. CASE Delegate(c, u)
    BY <1>1, <1>2, <2>2, DelegateRecord DEF Started
  <2>3. CASE \E actor \in ActorKind : Approve(c, u, actor)
    BY <1>1, <1>2, <2>3, ApproveRecord DEF Started
  <2>4. CASE CancelRequest(c, u)
    BY <2>4, OutsideSlots
  <2>5. CASE UNCHANGED execs
    BY <1>1, <2>5
  <2> QED BY <2>1, <2>2, <2>3, <2>4, <2>5 DEF Reject, Retry
<1>4. ASSUME NEW c \in Client, CallStep(c) \/ AbortCall(c) PROVE execs'[g].token # "paused"
  <2>1. CASE RetryFinish(c)
    BY <1>1, <1>2, <2>1, CallRecords DEF Started
  <2> QED BY <1>1, <1>4, <2>1
          DEF CallStep, AbortCall, CancelRemove, CancelMark, RetryPrepare, CallCleanUp, CallStore
<1>5. ASSUME NEW e \in Exec, ExecStep(e) \/ RemoteBlocked(e) \/ Abort(e)
      PROVE  execs'[g].token # "paused"
  <2>1. CASE \E outcome \in Outcomes(e) : Complete(e, outcome)
    BY <2>1, ExecutionSlots
  <2>2. CASE Launch(e) \/ SendResult(e) \/ Schedule(e)
    BY <2>2, ExecutionSlots, FixedSlots DEF Empties
  <2>3. CASE Empties(e) \/ \E at : Advances(e, at)
    BY <2>3, FixedSlots DEF Empties, Advances
  <2> QED BY <1>5, <2>1, <2>2, <2>3, ExecutionAdvances DEF ExecStep
<1>6. ASSUME NEW t \in Task, Pause(t) \/ PostBlocker(t) \/ ResolveBlocker(t)
      PROVE  UNCHANGED execs
  BY <1>6 DEF Pause, PostBlocker, ResolveBlocker
<1> QED BY <1>1, <1>3, <1>4, <1>5, <1>6 DEF Next, PollResult, vars

\* The invariant holds in every reachable state.
LEMMA OnceInvariant ==
    ASSUME "pause" \notin Commands
    PROVE  Spec => []OnceInv
<1>1. Init => OnceInv
  BY TasksAssumption
  DEF Init, Undelegated, NoExecution, NotActive, OnceInv, IsOnce, Working, Underway,
      Executing, Ended
<1>2. TypeOK /\ HandlerInv /\ OnceInv /\ [Next]_vars => OnceInv'
  <2> SUFFICES ASSUME TypeOK, HandlerInv, OnceInv, [Next]_vars PROVE OnceInv'
    OBVIOUS
  <2>1. \A e \in Exec : execs'[e].token # "paused"
    BY NothingPauses DEF OnceInv
  <2>2. ASSUME NEW t \in Task, PlainFirst(t)' PROVE IsOnce(t)'
    <3>1. PlainFirst(t) /\ ~\E c \in Client : Retry(c, t)
      BY <2>2, FirstAttempt DEF PlainFirst
    <3>2. IsOnce(t) /\ tasks[t].attempts = 0
      BY <3>1 DEF OnceInv, PlainFirst
    <3>3. CASE UNCHANGED vars \/ PollResult
      BY <3>2, <3>3, OnceStays, SlotsStayAwayOnce DEF vars, PollResult
    <3>4. ASSUME NEW u \in Task, Pause(u) \/ PostBlocker(u) \/ ResolveBlocker(u)
          PROVE  IsOnce(t)'
      <4>1. PostBlocker(u) \/ ResolveBlocker(u)
        BY <3>4 DEF Pause
      <4>2. Written(u) /\ (u \in Escalating \/ tasks[u].thread # "none")
        BY <4>1, ThreadRecords
      <4>3. u # t
        BY <3>1, <4>2 DEF HandlerInv, PlainFirst
      <4>4. tasks'[t] = tasks[t] /\ UNCHANGED <<active, execs>>
        BY <4>1, <4>2, <4>3 DEF Written, PostBlocker, ResolveBlocker
      <4> QED BY <3>2, <4>4, OnceStays, SlotsStayAwayOnce
    <3> QED BY <3>1, <3>2, <3>3, <3>4, OperatorOnce, CallOnce, ExecutionOnce DEF Next
  <2> QED BY <2>1, <2>2 DEF OnceInv
<1> QED BY <1>1, <1>2, TypeCorrect, HandlerInvariant, PTL DEF Spec

\* The first attempt of a local task without blocker threads is executed once.
FirstAttemptRunsOnce ==
    \A t \in Task \ (Remote \cup Escalating) : \A e, f \in Exec :
        /\ tasks[t].attempts = 0
        /\ Executing(e) /\ execs[e].task = t
        /\ Executing(f) /\ execs[f].task = t
        => e = f

\* Without pauses, whatever else the operators do and however the completions
\* of other tasks race, no two executions of a first attempt are in progress.
THEOREM FirstAttemptsRunOnce ==
    ASSUME "pause" \notin Commands
    PROVE  Spec => []FirstAttemptRunsOnce
<1>1. OnceInv => FirstAttemptRunsOnce
  BY DEF OnceInv, PlainFirst, IsOnce, Working, FirstAttemptRunsOnce
<1> QED BY <1>1, OnceInvariant, PTL

\* Nothing starts a task a second time: no retry, no pause, no report of a peer
\* and no blocker thread.
OneStart ==
    /\ NoRetries
    /\ "pause" \notin Commands
    /\ Remote = {}
    /\ Escalating = {}

\* Then no attempt is executed twice at a time.  (With retries it may be, see
\* double_start.cfg.)
THEOREM AttemptsRunOnce ==
    ASSUME OneStart
    PROVE  Spec => []OneExecutionPerAttempt
<1>1. TypeOK /\ FirstAttemptRunsOnce /\ (\A t \in Task : tasks[t].attempts = 0)
        => OneExecutionPerAttempt
  BY DEF TypeOK, OneStart, FirstAttemptRunsOnce, OneExecutionPerAttempt, Executing, Ended
<1>2. "pause" \notin Commands /\ NoRetries
  BY DEF OneStart
<1> QED BY <1>1, <1>2, FirstAttemptsRunOnce, AttemptsAreFirst, TypeCorrect, PTL

-----------------------------------------------------------------------------
(* Every lease has an owner *)

\* The blocks between the lease of an environment and its clean-up.
Holding == {"store_lease", "launch", "spawn", "running", "cleanup"}

Holds(e, t) == execs[e].task = t /\ execs[e].at \in Holding

\* A lease is held by the execution that will give it back.
LeaseInv ==
    \A t \in Task : PlainFirst(t) /\ envs[t].leased => \E e \in Exec : Holds(e, t)

\* Only a start leases an environment: what the other handlers write to it is
\* not leased.
LEMMA LeasesAreTaken ==
    ASSUME TypeOK, HandlerInv, [Next]_vars, NEW t \in Task, envs'[t].leased
    PROVE  \/ envs[t].leased
           \/ \E e \in Exec : Holds(e, t)'
<1>0. envs \in [Task -> Env]
  BY DEF TypeOK
<1>1. CASE UNCHANGED envs
  BY <1>1
<1>2. ASSUME NEW u \in Task, NEW env, envs' = [envs EXCEPT ![u] = env], ~env.leased
      PROVE  envs[t].leased
  <2>1. envs'[u] = env /\ (u # t => envs'[t] = envs[t])
    BY <1>0, <1>2
  <2> QED BY <1>2, <2>1
<1>3. ASSUME NEW c \in Client, Operator(c) PROVE envs[t].leased
  <2>1. PICK u \in Task : Delegate(c, u) \/ UNCHANGED envs
    BY <1>3 DEF Operator, Approve, Reject, Retry, CancelRequest
  <2>2. CASE Delegate(c, u)
    <3>1. PICK env \in Prepared : envs' = [envs EXCEPT ![u] = env]
      BY <2>2 DEF Delegate
    <3> QED BY <1>2, <3>1 DEF Prepared
  <2> QED BY <1>1, <2>1, <2>2
<1>4. ASSUME NEW c \in Client, CallStep(c) \/ AbortCall(c) PROVE envs[t].leased
  <2>1. CASE RetryPrepare(c) \/ CallCleanUp(c) \/ CallStore(c)
    <3>1. calls[c].task \in Task
      BY <2>1 DEF TypeOK, RetryPrepare, CallCleanUp, CallStore
    <3>2. \E env : envs' = [envs EXCEPT ![calls[c].task] = env] /\ ~env.leased
      <4>1. CASE RetryPrepare(c)
        <5>1. PICK env \in Prepared : envs' = [envs EXCEPT ![calls[c].task] = env]
          BY <4>1 DEF RetryPrepare
        <5>2. ~env.leased
          BY DEF Prepared
        <5> QED BY <5>1, <5>2
      <4>2. CASE CallCleanUp(c)
        BY <4>2 DEF CallCleanUp, Finalized
      <4>3. CASE CallStore(c)
        BY <4>3 DEF CallStore, HandlerInv, CallIsSound
      <4> QED BY <2>1, <4>1, <4>2, <4>3
    <3> QED BY <1>2, <3>1, <3>2
  <2> QED BY <1>1, <1>4, <2>1
          DEF CallStep, AbortCall, CancelRemove, CancelMark, RetryFinish
<1>5. ASSUME NEW e \in Exec, ExecStep(e) \/ RemoteBlocked(e) \/ Abort(e)
      PROVE  envs[t].leased \/ Holds(e, t)'
  <2>1. CASE AcquireLease(e) \/ StoreLease(e)
    <3>1. PICK at \in {"store_lease", "launch"} : Advances(e, at)
      BY <2>1, ExecutionAdvances
    <3>2. envs[t] = envs'[t] \/ execs[e].task = t
      BY <1>0, <2>1 DEF AcquireLease, StoreLease
    <3> QED BY <3>1, <3>2 DEF Holds, Holding, Advances
  <2>2. CASE CleanUp(e) \/ StoreCleanUp(e)
    <3>1. execs[e].task \in Task
      BY <2>2 DEF TypeOK, CleanUp, StoreCleanUp
    <3>2. \E env : envs' = [envs EXCEPT ![execs[e].task] = env] /\ ~env.leased
      <4>1. CASE CleanUp(e)
        BY <4>1 DEF CleanUp, Finalized, Released
      <4>2. CASE StoreCleanUp(e)
        BY <4>2 DEF StoreCleanUp, HandlerInv, ExecutionIsSound
      <4> QED BY <2>2, <4>1, <4>2
    <3> QED BY <1>2, <3>1, <3>2
  <2> QED BY <1>1, <1>5, <2>1, <2>2
          DEF ExecStep, RemoteBlocked, Abort, Launch, Spawn, Ignore, Complete,
              PublishHandoff, SendResult, Schedule
<1> QED BY <1>1, <1>3, <1>4, <1>5
        DEF Next, PollResult, Pause, PostBlocker, ResolveBlocker, vars

\* The result of an execution of a first attempt is not ignored.
LEMMA FirstResultCounts ==
    ASSUME OnceInv, NEW e \in Exec, NEW t \in Task, t = execs[e].task, PlainFirst(t)
    PROVE  ~Ignore(e)
<1> SUFFICES ASSUME Ignore(e) PROVE FALSE
  OBVIOUS
<1>1. IsOnce(t) /\ execs[e].at \in Ended
  BY DEF OnceInv, Ignore
<1>2. Working(e, t)
  BY <1>1 DEF Working, Executing
<1>3. ~tasks[t].result /\ active[t].attempt = 0 /\ execs[e].attempt = 0
  BY <1>1, <1>2 DEF IsOnce
<1> QED BY <1>3 DEF Ignore, Stale, Duplicate, PlainFirst

\* A slot keeps its lease until the clean-up has written the environment.
LEMMA LeasesAreKept ==
    ASSUME ~DiskFaults, TypeOK, HandlerInv, OnceInv, [Next]_vars,
           NEW t \in Task, PlainFirst(t), NEW e \in Exec, Holds(e, t), envs'[t].leased
    PROVE  Holds(e, t)'
<1>0. execs[e].at # "idle" /\ execs[e].task = t /\ envs \in [Task -> Env]
  BY DEF Holds, Holding, TypeOK
<1>1. ASSUME OnlyTokens PROVE Holds(e, t)'
  BY <1>1 DEF OnlyTokens, Holds
<1>2. ASSUME NEW f \in Exec, NEW u, Given(f, u) PROVE Holds(e, t)'
  BY <1>0, <1>2 DEF Given, Holds
<1>3. UNCHANGED execs => OnlyTokens
  BY OutsideSlots
<1>4. ASSUME NEW c \in Client, Operator(c) PROVE Holds(e, t)'
  <2>1. PICK u \in Task :
          \/ Delegate(c, u)
          \/ \E actor \in ActorKind : Approve(c, u, actor) \/ Reject(c, u, actor)
          \/ Retry(c, u)
          \/ CancelRequest(c, u)
    BY <1>4 DEF Operator
  <2>2. CASE Delegate(c, u)
    BY <1>1, <1>2, <1>3, <2>2, DelegateRecord DEF Started
  <2>3. CASE \E actor \in ActorKind : Approve(c, u, actor)
    BY <1>1, <1>2, <1>3, <2>3, ApproveRecord DEF Started
  <2>4. CASE CancelRequest(c, u)
    BY <1>1, <2>4, OutsideSlots
  <2>5. CASE UNCHANGED execs
    BY <1>1, <1>3, <2>5
  <2> QED BY <2>1, <2>2, <2>3, <2>4, <2>5 DEF Reject, Retry
<1>5. ASSUME NEW c \in Client, CallStep(c) \/ AbortCall(c) PROVE Holds(e, t)'
  <2>1. CASE RetryFinish(c)
    BY <1>1, <1>2, <1>3, <2>1, CallRecords DEF Started
  <2> QED BY <1>1, <1>3, <1>5, <2>1
          DEF CallStep, AbortCall, CancelRemove, CancelMark, RetryPrepare, CallCleanUp, CallStore
<1>6. ASSUME NEW f \in Exec, ExecStep(f) \/ RemoteBlocked(f) \/ Abort(f), f # e
      PROVE  Holds(e, t)'
  <2>1. execs'[e] = execs[e]
    <3>1. CASE \E outcome \in Outcomes(f) : Complete(f, outcome)
      BY <1>6, <3>1, ExecutionSlots
    <3>2. CASE Launch(f) \/ SendResult(f)
      BY <1>6, <3>2, ExecutionSlots DEF Empties
    <3>3. CASE Schedule(f)
      <4>1. PICK u \in execs[f].ready, g \in Exec \ {f} :
              /\ execs[g].at = "idle"
              /\ \A h \in Exec \ {f, g} : execs'[h] = execs[h]
        BY <3>3, ExecutionSlots
      <4> QED BY <1>0, <1>6, <4>1
    <3>4. CASE Empties(f) \/ \E at : Advances(f, at)
      BY <1>6, <3>4 DEF Empties, Advances
    <3> QED BY <1>6, <3>1, <3>2, <3>3, <3>4, ExecutionAdvances DEF ExecStep
  <2> QED BY <2>1 DEF Holds
<1>7. ASSUME ExecStep(e) \/ RemoteBlocked(e) \/ Abort(e) PROVE Holds(e, t)'
  <2>1. CASE StoreLease(e) \/ Spawn(e)
    <3>1. PICK at \in {"launch", "running"} : Advances(e, at)
      BY <2>1, ExecutionAdvances
    <3> QED BY <1>0, <3>1 DEF Advances, Holds, Holding
  <2>2. CASE Launch(e)
    BY <1>0, <2>2, ExecutionSlots DEF Holds, Holding
  <2>3. CASE \E outcome \in Outcomes(e) : Complete(e, outcome)
    BY <1>0, <2>3, ExecutionSlots DEF Holds, Holding
  <2>4. ~Ignore(e) /\ ~RemoteBlocked(e) /\ ~Abort(e)
    BY <1>0, FirstResultCounts DEF RemoteBlocked, Abort, PlainFirst
  <2>5. ~CleanUp(e)
    <3> SUFFICES ASSUME CleanUp(e) PROVE FALSE
      OBVIOUS
    <3>1. \E env : envs' = [envs EXCEPT ![execs[e].task] = env] /\ ~env.leased
      BY DEF CleanUp, Finalized, Released
    <3> QED BY <1>0, <3>1
  <2>6. ~AcquireLease(e) /\ ~StoreCleanUp(e) /\ ~PublishHandoff(e) /\ ~SendResult(e) /\ ~Schedule(e)
    BY DEF Holds, Holding, AcquireLease, StoreCleanUp, PublishHandoff, SendResult, Schedule
  <2> QED BY <1>7, <2>1, <2>2, <2>3, <2>4, <2>5, <2>6 DEF ExecStep
<1>8. ASSUME NEW u \in Task, Pause(u) \/ PostBlocker(u) \/ ResolveBlocker(u)
      PROVE  Holds(e, t)'
  BY <1>1, <1>3, <1>8, OutsideSlots DEF PostBlocker, ResolveBlocker
<1>9. CASE UNCHANGED vars \/ PollResult
  BY <1>1, <1>3, <1>9 DEF vars, PollResult
<1> QED BY <1>4, <1>5, <1>6, <1>7, <1>8, <1>9 DEF Next

\* The invariant holds in every reachable state.
LEMMA LeaseInvariant ==
    ASSUME ~DiskFaults, "pause" \notin Commands
    PROVE  Spec => []LeaseInv
<1>1. Init => LeaseInv
  BY DEF Init, NoEnv, LeaseInv
<1>2. TypeOK /\ HandlerInv /\ OnceInv /\ LeaseInv /\ [Next]_vars => LeaseInv'
  <2> SUFFICES ASSUME TypeOK, HandlerInv, OnceInv, LeaseInv, [Next]_vars,
                      NEW t \in Task, PlainFirst(t)', envs'[t].leased
               PROVE  \E e \in Exec : Holds(e, t)'
    BY DEF LeaseInv
  <2>1. PlainFirst(t)
    BY FirstAttempt DEF PlainFirst
  <2> QED BY <2>1, LeasesAreTaken, LeasesAreKept DEF LeaseInv
<1> QED BY <1>1, <1>2, TypeCorrect, HandlerInvariant, OnceInvariant, PTL DEF Spec

\* While records can be written and nothing starts a task twice, every lease
\* belongs to a handler that gives it back, whatever clean-ups fail.  (A remote
\* task that is started twice leaks one, see leaked_lease.cfg.)
THEOREM LeasesHaveOwners ==
    ASSUME OneStart, ~DiskFaults
    PROVE  Spec => []LeaseHasOwner
<1>1. LeaseInv /\ (\A t \in Task : tasks[t].attempts = 0) => LeaseHasOwner
  BY DEF LeaseInv, Holds, Holding, PlainFirst, OneStart, LeaseHasOwner
<1>2. "pause" \notin Commands /\ NoRetries
  BY DEF OneStart
<1> QED BY <1>1, <1>2, LeaseInvariant, AttemptsAreFirst, PTL
=============================================================================
