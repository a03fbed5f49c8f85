-------------------------- MODULE GatedResultProofs -------------------------
(***************************************************************************)
(* The task lifecycle implements GatedResult, for every set of tasks, of   *)
(* gates, of clients and of execution slots.                               *)
(***************************************************************************)
EXTENDS OrchestratorProofs

-----------------------------------------------------------------------------
(* The mapping, task by task *)

AbstractStage == [t \in Task |-> StageOf(tasks[t].state)]
AbstractApproved == [t \in Task |-> granted[t] \cap {"review", "test_validation"}]

StageIs(t) == StageOf(tasks[t].state)
Approvals(t) == granted[t] \cap {"review", "test_validation"}

\* A step that GatedResult does not see of t, and one that it allows.
Quiet(t) == StageIs(t)' = StageIs(t) /\ Approvals(t)' = Approvals(t)

Accepted(t) == StageIs(t) = "absent" /\ StageIs(t)' = "open" /\ Approvals(t)' = Approvals(t)

Delivered(t) ==
    /\ StageIs(t) \in {"open", "ended"}
    /\ StageIs(t)' = IF t \in ReviewerRequired THEN "review"
                     ELSE IF t \in TestRequired THEN "tests" ELSE "complete"
    /\ Approvals(t)' = {}

ReviewApproved(t) ==
    /\ StageIs(t) = "review"
    /\ StageIs(t)' = IF t \in TestRequired THEN "tests" ELSE "complete"
    /\ Approvals(t)' = Approvals(t) \cup {"review"}

TestsApproved(t) ==
    /\ StageIs(t) = "tests"
    /\ StageIs(t)' = "complete"
    /\ Approvals(t)' = Approvals(t) \cup {"test_validation"}

TakenBack(t) ==
    /\ StageIs(t) # "absent"
    /\ StageIs(t)' \in {"ended", "open"}
    /\ Approvals(t)' \in {Approvals(t), {}}

Allowed(t) ==
    \/ Quiet(t) \/ Accepted(t) \/ Delivered(t)
    \/ ReviewApproved(t) \/ TestsApproved(t) \/ TakenBack(t)

\* A step that moves one task as allowed is a step of GatedResult, or none.
LEMMA OneTaskMoves ==
    ASSUME NEW t \in Task, Allowed(t), \A u \in Task \ {t} : Quiet(u)
    PROVE  [Result!Next]_<<AbstractStage, AbstractApproved>>
<1> DEFINE s == StageIs(t)'
           a == Approvals(t)'
<1>1. /\ AbstractStage[t] = StageIs(t)
      /\ AbstractApproved[t] = Approvals(t)
  BY DEF AbstractStage, AbstractApproved, StageIs, Approvals
<1>2. AbstractStage' = [AbstractStage EXCEPT ![t] = s]
  BY DEF AbstractStage, StageIs, Quiet
<1>3. AbstractApproved' = [AbstractApproved EXCEPT ![t] = a]
  BY DEF AbstractApproved, Approvals, Quiet
<1>4. CASE Quiet(t)
  BY <1>4 DEF AbstractStage, AbstractApproved, StageIs, Approvals, Quiet
<1>5. CASE ~Quiet(t)
  <2>1. a = Approvals(t) => AbstractApproved' = AbstractApproved
    BY <1>1, <1>3 DEF AbstractApproved, Approvals
  <2> HIDE DEF s, a
  <2> USE DEF AbstractStage, AbstractApproved
  <2>2. CASE Accepted(t)
    <3>1. Result!Accept(t)
      BY <1>1, <1>2, <2>1, <2>2 DEF Accepted, Result!Accept, Result!Moves, s, a
    <3> QED BY <3>1 DEF Result!Next
  <2>3. CASE Delivered(t)
    <3>1. Result!Deliver(t)
      BY <1>1, <1>2, <1>3, <2>3
      DEF Delivered, Result!Deliver, Result!Moves, Result!Approves, s, a
    <3> QED BY <3>1 DEF Result!Next
  <2>4. CASE ReviewApproved(t)
    <3>1. Result!ApproveReview(t)
      BY <1>1, <1>2, <1>3, <2>4
      DEF ReviewApproved, Result!ApproveReview, Result!Moves, Result!Approves, s, a
    <3> QED BY <3>1 DEF Result!Next
  <2>5. CASE TestsApproved(t)
    <3>1. Result!ApproveTests(t)
      BY <1>1, <1>2, <1>3, <2>5
      DEF TestsApproved, Result!ApproveTests, Result!Moves, Result!Approves, s, a
    <3> QED BY <3>1 DEF Result!Next
  <2>6. CASE TakenBack(t)
    <3>1. Result!End(t) \/ Result!Open(t)
      BY <1>1, <1>2, <1>3, <2>6
      DEF TakenBack, Result!End, Result!Open, Result!Moves, Result!Approves, s, a
    <3> QED BY <3>1 DEF Result!Next
  <2> QED BY <1>5, <2>2, <2>3, <2>4, <2>5, <2>6 DEF Allowed
<1> QED BY <1>4, <1>5

-----------------------------------------------------------------------------
(* What the mapping needs of the handlers *)

Delegated == {t \in Task : tasks[t].state # "undelegated"}

\* Whatever a handler in flight works for has been delegated ...
HandlersInv ==
    /\ \A e \in Exec : /\ execs[e].at \notin {"idle", "schedule"}
                             => execs[e].task \in Delegated
                       /\ execs[e].ready \subseteq Delegated
    /\ \A c \in Client : calls[c].at # "idle" => calls[c].task \in Delegated
    /\ \A t \in Task : active[t] # NotActive => t \in Delegated

\* ... and a task whose result waits at a gate, or has passed them all, holds
\* that result: a second completion of it is a duplicate.
DeliveredStates == {"review_pending", "test_pending", "completed"}
DeliveredInv ==
    \A t \in Task :
        tasks[t].state \in DeliveredStates => tasks[t].result /\ tasks[t].finished

Inv == TypeOK /\ HandlersInv /\ DeliveredInv

\* A step that records no result: it keeps the result of a task that stays
\* delivered, and undelegates none.
RecordsKept ==
    /\ Delegated \subseteq Delegated'
    /\ \A t \in Task : tasks'[t].state \in DeliveredStates =>
          /\ tasks[t].state \in DeliveredStates
          /\ tasks[t].result => tasks'[t].result
          /\ tasks[t].finished => tasks'[t].finished

LEMMA DeliveredKept == ASSUME DeliveredInv, RecordsKept PROVE DeliveredInv'
BY DEF DeliveredInv, RecordsKept

\* Executions and calls go on with the tasks they had, or with delegated ones.
ExecsKept ==
    \A e \in Exec : /\ execs'[e].at \notin {"idle", "schedule"} =>
                          \/ execs'[e].task \in Delegated'
                          \/ /\ execs[e].at \notin {"idle", "schedule"}
                             /\ execs'[e].task = execs[e].task
                    /\ execs'[e].ready \subseteq Delegated' \cup execs[e].ready
CallsKept ==
    \A c \in Client : calls'[c].at # "idle" =>
                        \/ calls'[c].task \in Delegated'
                        \/ calls[c].at # "idle" /\ calls'[c].task = calls[c].task
ActiveKept ==
    \A t \in Task : active'[t] # NotActive => active[t] # NotActive \/ t \in Delegated'

LEMMA HandlersKept ==
    ASSUME HandlersInv, Delegated \subseteq Delegated', ExecsKept, CallsKept, ActiveKept
    PROVE  HandlersInv'
BY DEF HandlersInv, ExecsKept, CallsKept, ActiveKept

-----------------------------------------------------------------------------
(* Steps that write one record *)

Refines ==
    \/ UNCHANGED <<tasks, granted>>
    \/ \E t \in Task : Allowed(t) /\ \A u \in Task \ {t} : Quiet(u)

\* A record is replaced, and no approval given or taken.
LEMMA OneRecord ==
    ASSUME TypeOK, NEW t \in Task, NEW record,
           tasks' = [tasks EXCEPT ![t] = record], UNCHANGED granted
    PROVE  /\ tasks'[t] = record /\ Approvals(t)' = Approvals(t)
           /\ \A u \in Task \ {t} : tasks'[u] = tasks[u] /\ Quiet(u)
BY DEF TypeOK, Quiet, StageIs, Approvals

\* A task that has been delegated is taken back, or stays where it is.
LEMMA Rewritten ==
    ASSUME TypeOK, NEW t \in Delegated, NEW record,
           tasks' = [tasks EXCEPT ![t] = record], UNCHANGED granted,
           \/ record.state \in {"blocked", "running", "queued", "cancelled", "failed"}
           \/ /\ record.state = tasks[t].state /\ record.result = tasks[t].result
              /\ record.finished = tasks[t].finished
    PROVE  Refines /\ RecordsKept
<1>0. t \in Task /\ tasks[t].state # "undelegated"
  BY DEF Delegated
<1>1. /\ tasks'[t] = record /\ Approvals(t)' = Approvals(t)
      /\ \A u \in Task \ {t} : tasks'[u] = tasks[u] /\ Quiet(u)
  BY <1>0, OneRecord
<1>2. Allowed(t)
  <2>1. StageIs(t) # "absent"
    BY <1>0 DEF StageIs, StageOf, TypeOK, Record, State
  <2>2. CASE record.state \in {"blocked", "running", "queued", "cancelled", "failed"}
    <3>1. StageIs(t)' \in {"open", "ended"}
      BY <1>1, <2>2 DEF StageIs, StageOf
    <3> QED BY <1>1, <2>1, <3>1 DEF Allowed, TakenBack
  <2>3. CASE record.state = tasks[t].state
    BY <1>1, <2>3 DEF StageIs, Allowed, Quiet
  <2> QED BY <2>2, <2>3
<1>3. RecordsKept
  BY <1>0, <1>1 DEF RecordsKept, Delegated, DeliveredStates
<1> QED BY <1>0, <1>1, <1>2, <1>3 DEF Refines

LEMMA NoRecord == ASSUME UNCHANGED <<tasks, granted>> PROVE Refines /\ RecordsKept
BY DEF Refines, RecordsKept, Delegated

\* An execution that is started is started for a delegated task.
LEMMA StartKept ==
    ASSUME TypeOK, NEW t \in Delegated', NEW condition, StartIf(condition, t)
    PROVE  ExecsKept
<1>1. CASE UNCHANGED execs
  BY <1>1 DEF ExecsKept
<1>2. ASSUME NEW e \in FreeExecs, execs' = [execs EXCEPT ![e] = Starting(t)]
      PROVE  ExecsKept
  <2>1. Starting(t).task = t /\ Starting(t).ready = {}
    BY DEF Starting, NoExecution
  <2>2. /\ execs'[e] = Starting(t)
        /\ \A f \in Exec \ {e} : execs'[f] = execs[f]
    BY <1>2 DEF FreeExecs, TypeOK
  <2> QED BY <2>1, <2>2 DEF ExecsKept
<1> QED BY <1>1, <1>2 DEF StartIf, Start

-----------------------------------------------------------------------------
(* Operator commands *)

Preserved == Refines /\ HandlersInv' /\ DeliveredInv'

LEMMA KeptIsPreserved ==
    ASSUME Inv, Refines, RecordsKept, ExecsKept, CallsKept, ActiveKept
    PROVE  Preserved
BY HandlersKept, DeliveredKept DEF Inv, RecordsKept, Preserved

LEMMA DelegatePreserves ==
    ASSUME Inv, NEW c \in Client, NEW t \in Task, Delegate(c, t)
    PROVE  Preserved
<1> DEFINE waiting == ~DependenciesMet(tasks, t)
           state(env) == IF env.state = "failed" THEN "blocked"
                         ELSE IF t \in ApprovalRequired THEN "pending_approval"
                         ELSE IF waiting THEN "blocked" ELSE "queued"
           reasons(env) == (IF waiting THEN {"dependency"} ELSE {})
                           \cup (IF env.state = "failed" THEN {"environment"} ELSE {})
           gate == IF t \in ApprovalRequired THEN Requested("pre_execution")
                                             ELSE NoGate
<1>1. PICK env \in Prepared :
        /\ tasks' = [tasks EXCEPT ![t].state = state(env), ![t].gate = gate,
                                  ![t].reasons = reasons(env)]
        /\ StartIf(state(env) = "queued", t)
  BY DEF Delegate
<1>2. state(env) \in {"blocked", "pending_approval", "queued"}
  OBVIOUS
<1>3. tasks[t].state = "undelegated" /\ UNCHANGED <<active, calls, granted>>
  BY DEF Delegate
<1> HIDE DEF state, gate, reasons
<1>4. /\ tasks'[t].state = state(env)
      /\ \A u \in Task \ {t} : tasks'[u] = tasks[u]
  BY <1>1 DEF Inv, TypeOK, Record
<1>5. Refines
  <2>1. Accepted(t)
    BY <1>2, <1>3, <1>4 DEF Accepted, StageIs, StageOf, Approvals
  <2>2. \A u \in Task \ {t} : Quiet(u)
    BY <1>3, <1>4 DEF Quiet, StageIs, Approvals
  <2> QED BY <2>1, <2>2 DEF Refines, Allowed
<1>6. RecordsKept /\ t \in Delegated'
  BY <1>2, <1>3, <1>4 DEF RecordsKept, Delegated, DeliveredStates
<1>7. ExecsKept
  BY <1>1, <1>6, StartKept DEF Inv
<1> QED BY <1>3, <1>5, <1>6, <1>7, KeptIsPreserved DEF CallsKept, ActiveKept

\* A gate is approved: one of the moves that GatedResult knows.
LEMMA ApprovePreserves ==
    ASSUME Inv, NEW c \in Client, NEW t \in Task, NEW actor, Approve(c, t, actor)
    PROVE  Preserved
<1> DEFINE scope  == ScopeOf(tasks[t].state)
           record == ApprovedRecord(t, [tasks[t] EXCEPT !.gate = Decided("approved")])
<1>0. tasks[t] \in Record /\ tasks \in [Task -> Record]
      /\ granted \in [Task -> SUBSET Scope]
  BY DEF Inv, TypeOK
<1>1. /\ scope # "none"
      /\ tasks' = [tasks EXCEPT ![t] = record]
      /\ granted' = [granted EXCEPT ![t] = granted[t] \cup {scope}]
      /\ StartIf(record.state = "queued", t)
      /\ UNCHANGED active
      /\ UNCHANGED calls \/ calls' = [calls EXCEPT ![c] = [NoCall EXCEPT
                                         !.at = "cleanup", !.task = t, !.success = TRUE]]
  BY DEF Approve
<1>2. \/ /\ tasks[t].state = "pending_approval" /\ record.state \in {"queued", "blocked"}
         /\ scope = "pre_execution"
      \/ /\ tasks[t].state = "review_pending" /\ t \in TestRequired
         /\ record.state = "test_pending" /\ scope = "review"
      \/ /\ tasks[t].state = "review_pending" /\ t \notin TestRequired
         /\ record.state = "completed" /\ scope = "review"
      \/ /\ tasks[t].state = "test_pending" /\ record.state = "completed"
         /\ scope = "test_validation"
  BY <1>0, <1>1 DEF ScopeOf, ApprovedRecord, QueuedOrBlocked, Record
<1>3. record.result = tasks[t].result /\ (tasks[t].finished => record.finished)
  BY <1>0 DEF ApprovedRecord, QueuedOrBlocked, Record
<1>4. /\ tasks'[t] = record /\ granted'[t] = granted[t] \cup {scope}
      /\ \A u \in Task \ {t} : tasks'[u] = tasks[u] /\ granted'[u] = granted[u]
  BY <1>0, <1>1
<1> HIDE DEF record, scope
<1>5. Refines
  <2>1. Allowed(t)
    <3>1. CASE scope = "pre_execution"
      BY <1>2, <1>4, <3>1 DEF Allowed, Quiet, StageIs, StageOf, Approvals
    <3>2. CASE scope = "review"
      BY <1>2, <1>4, <3>2 DEF Allowed, ReviewApproved, StageIs, StageOf, Approvals
    <3>3. CASE scope = "test_validation"
      BY <1>2, <1>4, <3>3 DEF Allowed, TestsApproved, StageIs, StageOf, Approvals
    <3> QED BY <1>2, <3>1, <3>2, <3>3
  <2>2. \A u \in Task \ {t} : Quiet(u)
    BY <1>4 DEF Quiet, StageIs, Approvals
  <2> QED BY <2>1, <2>2 DEF Refines
<1>6. RecordsKept /\ t \in Delegated'
  BY <1>2, <1>3, <1>4 DEF RecordsKept, Delegated, DeliveredStates
<1>7. ExecsKept
  BY <1>1, <1>6, StartKept DEF Inv
<1>8. CallsKept
  BY <1>1, <1>6 DEF Inv, TypeOK, CallsKept, NoCall
<1> QED BY <1>1, <1>5, <1>6, <1>7, <1>8, KeptIsPreserved DEF ActiveKept

LEMMA RejectPreserves ==
    ASSUME Inv, NEW c \in Client, NEW t \in Task, NEW actor, Reject(c, t, actor)
    PROVE  Preserved
<1> DEFINE record == [tasks[t] EXCEPT !.state = "failed", !.gate = Decided("needs_revision")]
<1>1. /\ ScopeOf(tasks[t].state) # "none"
      /\ tasks' = [tasks EXCEPT ![t] = record]
      /\ calls' = [calls EXCEPT ![c] = [NoCall EXCEPT !.at = "cleanup", !.task = t]]
      /\ UNCHANGED <<active, execs, granted>>
  BY DEF Reject, Inv, TypeOK
<1>2. t \in Delegated /\ record.state = "failed"
  BY <1>1 DEF Delegated, ScopeOf, Inv, TypeOK, Record
<1> HIDE DEF record
<1>3. Refines /\ RecordsKept
  BY <1>1, <1>2, Rewritten DEF Inv
<1>4. ExecsKept /\ ActiveKept
  BY <1>1 DEF ExecsKept, ActiveKept
<1>5. CallsKept
  BY <1>1, <1>2, <1>3 DEF Inv, TypeOK, CallsKept, RecordsKept, NoCall
<1> QED BY <1>3, <1>4, <1>5, KeptIsPreserved

\* A retry takes the result back and its approvals with it.
LEMMA RetryPreserves ==
    ASSUME Inv, NEW c \in Client, NEW t \in Task, Retry(c, t)
    PROVE  Preserved
<1>0. tasks[t] \in Record /\ tasks \in [Task -> Record]
      /\ granted \in [Task -> SUBSET Scope]
  BY DEF Inv, TypeOK
<1>1. /\ tasks[t].state \in Retryable
      /\ tasks' = [tasks EXCEPT ![t] = Retried(t)]
      /\ granted' = [granted EXCEPT ![t] = {}]
      /\ calls' = [calls EXCEPT ![c] = [NoCall EXCEPT !.at = "prepare", !.task = t,
                                           !.start = Retried(t).state = "queued"]]
      /\ UNCHANGED <<active, execs>>
  BY DEF Retry
<1>2. Retried(t).state \in {"pending_approval", "queued", "blocked"}
  BY <1>0 DEF Retried, Reset, QueuedOrBlocked, Record
<1>3. /\ tasks'[t] = Retried(t) /\ granted'[t] = {}
      /\ \A u \in Task \ {t} : tasks'[u] = tasks[u] /\ granted'[u] = granted[u]
  BY <1>0, <1>1
<1>4. Refines
  <2>1. TakenBack(t)
    BY <1>1, <1>2, <1>3 DEF TakenBack, StageIs, StageOf, Approvals, Retryable
  <2>2. \A u \in Task \ {t} : Quiet(u)
    BY <1>3 DEF Quiet, StageIs, Approvals
  <2> QED BY <2>1, <2>2 DEF Refines, Allowed
<1>5. RecordsKept /\ t \in Delegated'
  BY <1>1, <1>2, <1>3 DEF RecordsKept, Delegated, DeliveredStates
<1>6. CallsKept
  BY <1>1, <1>5 DEF Inv, TypeOK, CallsKept, NoCall
<1>7. ExecsKept /\ ActiveKept
  BY <1>1 DEF ExecsKept, ActiveKept
<1> QED BY <1>4, <1>5, <1>6, <1>7, KeptIsPreserved

LEMMA CancelRequestPreserves ==
    ASSUME Inv, NEW c \in Client, NEW t \in Task, CancelRequest(c, t)
    PROVE  Preserved
<1>1. UNCHANGED <<tasks, active, granted>> /\ active[t] # NotActive
  BY DEF CancelRequest
<1>2. PICK at \in {"cancel_remove", "cancel_mark"} :
        calls' = [calls EXCEPT ![c] = [NoCall EXCEPT !.at = at, !.task = t]]
  BY DEF CancelRequest
<1>3. Refines /\ RecordsKept
  BY <1>1, NoRecord
<1>4. t \in Delegated'
  BY <1>1, <1>3 DEF Inv, HandlersInv, RecordsKept
<1>5. CallsKept
  BY <1>2, <1>4 DEF Inv, TypeOK, CallsKept, NoCall
<1>6. ExecsKept
  <2>1. \/ UNCHANGED execs
        \/ execs' = [execs EXCEPT ![active[t].exec].token = "cancelled"]
    BY DEF CancelRequest
  <2>2. active[t].exec \in Exec
    BY <1>1, TasksAssumption DEF Inv, TypeOK, Control, NotActive
  <2>3. \A e \in Exec : execs'[e].at = execs[e].at /\ execs'[e].task = execs[e].task
                        /\ execs'[e].ready = execs[e].ready
    BY <2>1, <2>2 DEF Inv, TypeOK, Execution
  <2> QED BY <2>3 DEF ExecsKept
<1> QED BY <1>1, <1>3, <1>5, <1>6, KeptIsPreserved DEF ActiveKept

-----------------------------------------------------------------------------
(* Operator commands under way, threads *)

LEMMA CallPreserves ==
    ASSUME Inv, NEW c \in Client, CallStep(c) \/ AbortCall(c)
    PROVE  Preserved
<1> DEFINE t == calls[c].task
<1>1. /\ calls[c].at # "idle" /\ t \in Delegated
      /\ tasks[t] \in Record
  BY DEF CallStep, AbortCall, CancelRemove, CancelMark, RetryPrepare, RetryFinish,
         CallCleanUp, CallStore, Inv, HandlersInv, TypeOK
<1>2. CallsKept
  <2>1. \A d \in Client \ {c} : calls'[d] = calls[d]
    BY DEF CallStep, AbortCall, CancelRemove, CancelMark, RetryPrepare, RetryFinish,
           CallCleanUp, CallStore, Inv, TypeOK
  <2>2. calls'[c].at # "idle" => calls'[c].task = calls[c].task
    <3>1. calls[c] \in Call
      BY DEF Inv, TypeOK
    <3> QED BY <3>1 DEF CallStep, AbortCall, CancelRemove, CancelMark, RetryPrepare,
               RetryFinish, CallCleanUp, CallStore, Inv, TypeOK, Call, NoCall
  <2> QED BY <1>1, <2>1, <2>2 DEF CallsKept
<1>3. ActiveKept
  BY DEF CallStep, AbortCall, CancelRemove, CancelMark, RetryPrepare, RetryFinish,
         CallCleanUp, CallStore, Inv, TypeOK, ActiveKept
<1>4. CASE CancelMark(c)
  <2> DEFINE record == [tasks[t] EXCEPT !.state = "cancelled", !.finished = TRUE]
  <2>1. tasks' = [tasks EXCEPT ![t] = record] /\ UNCHANGED <<granted, execs>>
    BY <1>4 DEF CancelMark, Inv, TypeOK
  <2>2. record.state = "cancelled"
    BY <1>1 DEF Record
  <2> HIDE DEF record
  <2>3. Refines /\ RecordsKept
    BY <1>1, <2>1, <2>2, Rewritten DEF Inv
  <2> QED BY <1>2, <1>3, <2>1, <2>3, KeptIsPreserved DEF ExecsKept
<1>5. CASE RetryFinish(c)
  <2> DEFINE record == [tasks[t] EXCEPT !.state = "blocked", !.reasons = {"environment"}]
  <2>1. /\ UNCHANGED granted
        /\ UNCHANGED tasks \/ tasks' = [tasks EXCEPT ![t] = record]
        /\ StartIf(calls[c].start /\ calls[c].env.state # "failed", t)
    BY <1>5 DEF RetryFinish, Inv, TypeOK
  <2>2. record.state = "blocked"
    BY <1>1 DEF Record
  <2> HIDE DEF record
  <2>3. Refines /\ RecordsKept
    BY <1>1, <2>1, <2>2, Rewritten, NoRecord DEF Inv
  <2>4. ExecsKept
    BY <1>1, <2>1, <2>3, StartKept DEF Inv, RecordsKept
  <2> QED BY <1>2, <1>3, <2>3, <2>4, KeptIsPreserved
<1>6. CASE UNCHANGED <<tasks, granted, execs>>
  BY <1>2, <1>3, <1>6, NoRecord, KeptIsPreserved DEF ExecsKept
<1> QED BY <1>4, <1>5, <1>6
        DEF CallStep, AbortCall, CancelRemove, RetryPrepare, CallCleanUp, CallStore

LEMMA ThreadPreserves ==
    ASSUME Inv, NEW t \in Task, Pause(t) \/ PostBlocker(t) \/ ResolveBlocker(t)
    PROVE  Preserved
<1>0. tasks[t] \in Record
  BY DEF Inv, TypeOK
<1>1. CASE Pause(t)
  <2>1. execs' = [execs EXCEPT ![active[t].exec].token = "paused"]
    BY <1>1 DEF Pause
  <2>2. active[t].exec \in Exec
    BY <1>1, TasksAssumption DEF Pause, Inv, TypeOK, Control, NotActive
  <2>3. \A e \in Exec : execs'[e].at = execs[e].at /\ execs'[e].task = execs[e].task
                        /\ execs'[e].ready = execs[e].ready
    BY <2>1, <2>2 DEF Inv, TypeOK, Execution
  <2>4. Refines /\ RecordsKept
    BY <1>1, NoRecord DEF Pause
  <2> QED BY <1>1, <2>3, <2>4, KeptIsPreserved DEF Pause, ExecsKept, CallsKept, ActiveKept
<1>2. CASE PostBlocker(t)
  <2> DEFINE record == [WithBlocker(tasks[t], "blocker") EXCEPT !.thread = "open"]
  <2>1. /\ tasks' = [tasks EXCEPT ![t] = record] /\ t \in Delegated
        /\ UNCHANGED <<active, execs, calls, granted>>
    BY <1>2 DEF PostBlocker, Delegated, Inv, TypeOK
  <2>2. \/ record.state = "blocked"
        \/ /\ record.state = tasks[t].state /\ record.result = tasks[t].result
           /\ record.finished = tasks[t].finished
    BY <1>0 DEF WithBlocker, Record
  <2> HIDE DEF record
  <2>3. Refines /\ RecordsKept
    BY <2>1, <2>2, Rewritten DEF Inv
  <2> QED BY <2>1, <2>3, KeptIsPreserved DEF ExecsKept, CallsKept, ActiveKept
<1>3. CASE ResolveBlocker(t)
  <2> DEFINE reasons == tasks[t].reasons \ {"blocker"}
             record == [tasks[t] EXCEPT !.thread = "closed", !.reasons = reasons,
                            !.state = IF @ = "blocked" /\ reasons = {} THEN "queued" ELSE @]
  <2>1. /\ tasks' = [tasks EXCEPT ![t] = record] /\ tasks[t].thread = "open"
        /\ UNCHANGED <<active, execs, calls, granted>>
    BY <1>3, <1>0 DEF ResolveBlocker, Inv, TypeOK, Record
  <2>2. \/ tasks[t].state = "blocked" /\ record.state = "queued"
        \/ /\ record.state = tasks[t].state /\ record.result = tasks[t].result
           /\ record.finished = tasks[t].finished
    BY <1>0 DEF Record
  <2> HIDE DEF record
  <2>3. Refines /\ RecordsKept
    <3>1. CASE t \in Delegated
      BY <2>1, <2>2, <3>1, Rewritten DEF Inv
    <3>2. CASE t \notin Delegated
      <4>1. record.state = "undelegated" /\ tasks[t].state = "undelegated"
        BY <2>2, <3>2 DEF Delegated
      <4>2. /\ tasks'[t] = record /\ Approvals(t)' = Approvals(t)
            /\ \A u \in Task \ {t} : tasks'[u] = tasks[u] /\ Quiet(u)
        BY <2>1, OneRecord DEF Inv
      <4>3. Refines
        BY <4>1, <4>2 DEF Refines, Allowed, Quiet, StageIs
      <4> QED BY <4>1, <4>2, <4>3 DEF RecordsKept, Delegated, DeliveredStates
    <3> QED BY <3>1, <3>2
  <2> QED BY <2>1, <2>3, KeptIsPreserved DEF ExecsKept, CallsKept, ActiveKept
<1> QED BY <1>1, <1>2, <1>3

-----------------------------------------------------------------------------
(* Executions *)

\* Every step of an execution but the one that records its result.
LEMMA ExecutionPreserves ==
    ASSUME Inv, NEW e \in Exec,
           \/ ExecStep(e) /\ ~\E outcome \in Outcomes(e) : Complete(e, outcome)
           \/ RemoteBlocked(e) \/ Abort(e)
    PROVE  Preserved
<1> DEFINE t == execs[e].task
<1>0. /\ execs[e] \in Execution /\ execs[e].ready \subseteq Delegated
      /\ execs[e].at \notin {"idle", "schedule"} =>
            t \in Task /\ t \in Delegated /\ tasks[t] \in Record
  BY DEF Inv, HandlersInv, TypeOK
<1>1. UNCHANGED <<calls, granted>>
  BY DEF ExecStep, RemoteBlocked, Abort, AcquireLease, StoreLease, Launch, Spawn, Ignore,
         CleanUp, StoreCleanUp, PublishHandoff, SendResult, Schedule
<1>2. CallsKept
  BY <1>1 DEF CallsKept
<1>3. ExecsKept
  <2>1. CASE AcquireLease(e) \/ StoreLease(e) \/ Launch(e) \/ Spawn(e) \/ RemoteBlocked(e)
    <3>1. /\ execs[e].at \notin {"idle", "schedule"}
          /\ execs'[e].task = execs[e].task /\ execs'[e].ready = execs[e].ready
          /\ \A f \in Exec \ {e} : execs'[f] = execs[f]
      BY <1>0, <2>1 DEF AcquireLease, StoreLease, Launch, Spawn, RemoteBlocked, Inv, TypeOK,
                        Execution
    <3> QED BY <3>1 DEF ExecsKept
  <2>2. CASE CleanUp(e) \/ StoreCleanUp(e) \/ PublishHandoff(e)
    <3>1. /\ execs[e].at \notin {"idle", "schedule"}
          /\ \/ execs'[e].task = execs[e].task /\ execs'[e].ready = execs[e].ready
             \/ execs'[e] = NoExecution
          /\ \A f \in Exec \ {e} : execs'[f] = execs[f]
      BY <1>0, <2>2 DEF CleanUp, StoreCleanUp, PublishHandoff, Inv, TypeOK, Execution
    <3> QED BY <3>1 DEF ExecsKept, NoExecution
  <2>3. CASE Ignore(e) \/ Abort(e)
    <3>1. /\ execs'[e] = NoExecution
          /\ \A f \in Exec \ {e} : execs'[f] = execs[f]
      BY <2>3 DEF Ignore, Abort, Inv, TypeOK
    <3> QED BY <3>1 DEF ExecsKept, NoExecution
  <2>4. CASE SendResult(e)
    <3>1. /\ execs'[e] = AfterSend(e)
          /\ \A f \in Exec \ {e} : execs'[f] = execs[f]
      BY <2>4 DEF SendResult, Inv, TypeOK
    <3>2. AfterSend(e).at \in {"idle", "schedule"} /\ AfterSend(e).ready \subseteq execs[e].ready
      BY DEF AfterSend, NoExecution
    <3> QED BY <3>1, <3>2 DEF ExecsKept
  <2>5. CASE Schedule(e)
    <3>1. PICK u \in execs[e].ready, f \in FreeExecs :
            execs' = [execs EXCEPT ![f] = Starting(u), ![e] = AfterStart(e, u)]
      BY <2>5 DEF Schedule
    <3>2. /\ AfterStart(e, u).at \in {"idle", "schedule"}
          /\ AfterStart(e, u).ready \subseteq execs[e].ready
      BY <1>0, <2>5 DEF AfterStart, Schedule, NoExecution, Execution
    <3>3. Starting(u).task = u /\ Starting(u).ready = {}
      BY DEF Starting, NoExecution
    <3>4. u \in Delegated'
      BY <1>0, <2>5 DEF Schedule, Delegated
    <3>5. /\ execs'[e] = AfterStart(e, u)
          /\ \A g \in Exec \ {e} : execs'[g] \in {execs[g], Starting(u)}
      BY <3>1 DEF Inv, TypeOK
    <3> QED BY <3>2, <3>3, <3>4, <3>5 DEF ExecsKept
  <2> QED BY <2>1, <2>2, <2>3, <2>4, <2>5 DEF ExecStep
<1>4. CASE Launch(e)
  <2> DEFINE record == [tasks[t] EXCEPT !.state = "running", !.reasons = {}]
  <2>1. /\ tasks' = [tasks EXCEPT ![t] = record] /\ t \in Delegated
        /\ active' = [active EXCEPT ![t] = [exec |-> e, attempt |-> LaunchedAttempt(e)]]
    BY <1>0, <1>4 DEF Launch, Inv, TypeOK
  <2>2. record.state = "running"
    BY <1>0, <2>1 DEF Delegated, Inv, TypeOK, Record
  <2> HIDE DEF record
  <2>3. Refines /\ RecordsKept
    BY <1>1, <2>1, <2>2, Rewritten DEF Inv
  <2>4. ActiveKept
    BY <2>1, <2>3 DEF ActiveKept, RecordsKept, Inv, TypeOK
  <2> QED BY <1>2, <1>3, <2>3, <2>4, KeptIsPreserved
<1>5. CASE ~Launch(e)
  <2>1. ActiveKept
    BY <1>5 DEF ExecStep, RemoteBlocked, Abort, AcquireLease, StoreLease, Spawn, Ignore,
         CleanUp, StoreCleanUp, PublishHandoff, SendResult, Schedule, ControlAfterIgnored,
         ActiveKept, Inv, TypeOK
  <2>2. Refines /\ RecordsKept
    <3>1. CASE RemoteBlocked(e)
      <4> DEFINE record == [tasks[t] EXCEPT !.state = "blocked", !.reasons = {"remote"}]
      <4>1. tasks' = [tasks EXCEPT ![t] = record] /\ t \in Delegated
        BY <1>0, <3>1 DEF RemoteBlocked, Inv, TypeOK
      <4>2. record.state = "blocked"
        BY <1>0, <3>1 DEF RemoteBlocked, Record
      <4> HIDE DEF record
      <4> QED BY <1>1, <4>1, <4>2, Rewritten DEF Inv
    <3>2. CASE PublishHandoff(e) /\ ~UNCHANGED tasks
      <4> DEFINE record == WithBlocker(tasks[t], "handoff")
      <4>1. tasks' = [tasks EXCEPT ![t] = record] /\ t \in Delegated
        BY <1>0, <3>2 DEF PublishHandoff, Inv, TypeOK
      <4>2. \/ record.state = "blocked"
            \/ /\ record.state = tasks[t].state /\ record.result = tasks[t].result
               /\ record.finished = tasks[t].finished
        BY <1>0, <3>2 DEF PublishHandoff, WithBlocker, Record
      <4> HIDE DEF record
      <4> QED BY <1>1, <4>1, <4>2, Rewritten DEF Inv
    <3>3. CASE UNCHANGED tasks
      BY <1>1, <3>3, NoRecord
    <3> QED BY <1>5, <3>1, <3>2, <3>3
          DEF ExecStep, Abort, AcquireLease, StoreLease, Spawn, Ignore, CleanUp,
              StoreCleanUp, SendResult, Schedule
  <2> QED BY <1>2, <1>3, <2>1, <2>2, KeptIsPreserved
<1> QED BY <1>4, <1>5

\* A result is recorded, for a task that waits for one, and goes to the first
\* gate of its task.
LEMMA CompletePreserves ==
    ASSUME Inv, NEW e \in Exec, NEW outcome \in Outcomes(e), Complete(e, outcome)
    PROVE  Preserved
<1>t. PICK t \in Task : t = execs[e].task
  BY DEF Complete, Ended, Inv, TypeOK
<1> DEFINE record == CompletedRecord(t, outcome)
           ts     == [tasks EXCEPT ![t] = record]
           ready  == ReadyTasks(ts, IF outcome = "paused" THEN {t} ELSE {})
<1>0. /\ t \in Task /\ t \in Delegated /\ tasks[t] \in Record /\ tasks \in [Task -> Record]
      /\ granted \in [Task -> SUBSET Scope] /\ DOMAIN tasks = Task
  BY <1>t DEF Complete, Ended, Inv, HandlersInv, TypeOK
<1>1. /\ ~Duplicate(t)
      /\ active' = [active EXCEPT ![t] = NotActive]
      /\ tasks' = Requeued(ts, ready)
      /\ execs' = [execs EXCEPT ![e] = [NoExecution EXCEPT !.at = "cleanup",
                      !.task = t, !.attempt = execs[e].attempt,
                      !.final = record.state, !.ready = ready]]
      /\ granted' = [granted EXCEPT ![t] = @ \cap {"pre_execution"}]
      /\ UNCHANGED calls
  BY <1>t DEF Complete
<1>2. \A u \in ready : u \in Task /\ ts[u].state = "blocked"
  BY DEF ReadyTasks
<1>3. \A u \in Task \ {t} :
        \/ tasks'[u] = tasks[u]
        \/ tasks[u].state = "blocked" /\ tasks'[u].state = "queued"
  <2> SUFFICES ASSUME NEW u \in Task \ {t}
               PROVE  \/ tasks'[u] = tasks[u]
                      \/ tasks[u].state = "blocked" /\ tasks'[u].state = "queued"
    OBVIOUS
  <2>1. ts[u] = tasks[u] /\ tasks[u] \in Record
    BY <1>0
  <2>2. CASE u \in ready
    <3>1. tasks'[u] = [tasks[u] EXCEPT !.state = "queued", !.reasons = {}]
      BY <1>1, <2>1, <2>2 DEF Requeued
    <3> QED BY <1>2, <2>1, <2>2, <3>1 DEF Record
  <2>3. CASE u \notin ready
    BY <1>1, <2>1, <2>3 DEF Requeued
  <2> QED BY <2>2, <2>3
<1>4. /\ record \in Record
      /\ \/ tasks'[t] = record
         \/ record.state = "blocked" /\ tasks'[t].state = "queued"
  <2>1. record \in Record
    <3>1. outcome \in Outcome
      BY DEF Outcomes, Outcome
    <3> QED BY <3>1, CompletedRecordType DEF Inv
  <2>2. ts[t] = record
    BY <1>0
  <2> HIDE DEF record, ready
  <2>3. CASE t \in ready
    <3>1. tasks'[t] = [record EXCEPT !.state = "queued", !.reasons = {}]
      BY <1>0, <1>1, <2>2, <2>3 DEF Requeued
    <3> QED BY <1>2, <2>1, <2>2, <2>3, <3>1 DEF Record
  <2>4. CASE t \notin ready
    <3> HIDE DEF ts
    <3>1. tasks'[t] = ts[t]
      BY <1>1, <2>4 DEF Requeued
    <3> QED BY <2>1, <2>2, <3>1
  <2> QED BY <2>3, <2>4
<1>5. \/ /\ record.state = IF t \in ReviewerRequired THEN "review_pending"
                           ELSE IF t \in TestRequired THEN "test_pending" ELSE "completed"
         /\ record.result /\ record.finished
      \/ record.state \in {"blocked", "failed", "cancelled"}
  BY <1>0 DEF CompletedRecord, Outcomes, Record
<1>6. tasks[t].state \notin DeliveredStates
  BY <1>0, <1>1 DEF Duplicate, Inv, DeliveredInv, DeliveredStates, Terminal
<1>7. Approvals(t)' = {} /\ \A u \in Task \ {t} : Quiet(u)
  <2>1. /\ granted'[t] \subseteq {"pre_execution"}
        /\ \A u \in Task \ {t} : granted'[u] = granted[u]
    BY <1>0, <1>1
  <2>2. Approvals(t)' = {}
    BY <2>1 DEF Approvals
  <2>3. ASSUME NEW u \in Task \ {t} PROVE Quiet(u)
    <3>1. StageIs(u)' = StageIs(u)
      BY <1>3 DEF StageIs, StageOf
    <3> QED BY <2>1, <3>1 DEF Quiet, Approvals
  <2> QED BY <2>2, <2>3
<1> HIDE DEF record, ts, ready
<1>8. Refines
  <2>1. StageIs(t) \in {"open", "ended"}
    BY <1>0, <1>6 DEF StageIs, StageOf, DeliveredStates, Delegated, Record, State
  <2>2. \/ StageIs(t)' = IF t \in ReviewerRequired THEN "review"
                         ELSE IF t \in TestRequired THEN "tests" ELSE "complete"
        \/ StageIs(t)' \in {"open", "ended"}
    BY <1>4, <1>5 DEF StageIs, StageOf
  <2>3. Allowed(t)
    BY <1>7, <2>1, <2>2 DEF Allowed, Delivered, TakenBack
  <2> QED BY <1>0, <1>7, <2>3 DEF Refines
<1>9. DeliveredInv'
  BY <1>3, <1>4, <1>5 DEF DeliveredInv, DeliveredStates, Inv
<1>10. Delegated \subseteq Delegated'
  BY <1>3, <1>4, <1>5, <1>0 DEF Delegated
<1>11. ExecsKept
  <2>1. ready \subseteq Delegated'
    <3> SUFFICES ASSUME NEW u \in ready PROVE u \in Delegated'
      OBVIOUS
    <3>1. CASE u = t
      BY <1>0, <1>10, <3>1
    <3>2. CASE u # t
      <4>1. tasks[u].state = "blocked"
        BY <1>0, <1>2, <3>2 DEF ts
      <4> QED BY <1>2, <1>10, <4>1 DEF Delegated
    <3> QED BY <3>1, <3>2
  <2>2. /\ execs'[e].task = t /\ execs'[e].ready = ready
        /\ \A f \in Exec \ {e} : execs'[f] = execs[f]
    BY <1>1 DEF Inv, TypeOK, NoExecution
  <2> QED BY <1>0, <1>10, <2>1, <2>2 DEF ExecsKept
<1>12. CallsKept /\ ActiveKept
  BY <1>1, <1>0 DEF CallsKept, ActiveKept, Inv, TypeOK
<1> QED BY <1>8, <1>9, <1>10, <1>11, <1>12, HandlersKept DEF Inv, Preserved

-----------------------------------------------------------------------------
(* The theorem *)

LEMMA StepPreserves == Inv /\ [Next]_vars => Preserved
<1> SUFFICES ASSUME Inv, [Next]_vars PROVE Preserved
  OBVIOUS
<1>1. CASE UNCHANGED vars \/ PollResult
  <2>1. UNCHANGED <<tasks, active, execs, calls, granted>>
    BY <1>1 DEF vars, PollResult
  <2> QED BY <2>1, NoRecord, KeptIsPreserved DEF ExecsKept, CallsKept, ActiveKept
<1>2. ASSUME NEW c \in Client, Operator(c) PROVE Preserved
  BY <1>2, DelegatePreserves, ApprovePreserves, RejectPreserves, RetryPreserves,
     CancelRequestPreserves DEF Operator
<1>3. ASSUME NEW e \in Exec, ExecStep(e) \/ RemoteBlocked(e) \/ Abort(e) PROVE Preserved
  BY <1>3, ExecutionPreserves, CompletePreserves
<1> QED BY <1>1, <1>2, <1>3, CallPreserves, ThreadPreserves DEF Next

\* However its handlers interleave, fail and repeat, every step of the lifecycle
\* moves the result of at most one task, as GatedResult allows or not at all: a
\* result passes its gates one after the other, and starts without approvals.
THEOREM LifecycleImplementsGatedResult == Spec => ImplementsGatedResult
<1>1. Init => HandlersInv /\ DeliveredInv
  BY DEF Init, HandlersInv, DeliveredInv, DeliveredStates, NoExecution, NoCall, NotActive,
         Undelegated
<1>2. Init => Result!Init
  BY DEF Init, Result!Init, Undelegated, StageOf
<1>3. Inv /\ [Next]_vars => (HandlersInv /\ DeliveredInv)'
                            /\ [Result!Next]_<<AbstractStage, AbstractApproved>>
  <2> SUFFICES ASSUME Inv, [Next]_vars
               PROVE  (HandlersInv /\ DeliveredInv)'
                      /\ [Result!Next]_<<AbstractStage, AbstractApproved>>
    OBVIOUS
  <2>1. Preserved
    BY StepPreserves
  <2>2. CASE UNCHANGED <<tasks, granted>>
    BY <2>1, <2>2 DEF Preserved, AbstractStage, AbstractApproved
  <2>3. CASE \E t \in Task : Allowed(t) /\ \A u \in Task \ {t} : Quiet(u)
    BY <2>1, <2>3, OneTaskMoves DEF Preserved
  <2> QED BY <2>1, <2>2, <2>3 DEF Preserved, Refines
<1>4. Spec => [](HandlersInv /\ DeliveredInv) /\ []TypeOK
  BY <1>1, <1>3, TypeCorrect, PTL DEF Spec, Inv
<1> QED BY <1>2, <1>3, <1>4, PTL
        DEF Spec, Inv, ImplementsGatedResult, Result!Spec, AbstractStage, AbstractApproved
=============================================================================
