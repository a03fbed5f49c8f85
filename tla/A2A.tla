-------------------------------- MODULE A2A ---------------------------------
(***************************************************************************)
(* Delegating a task to another agent over A2A:                            *)
(*   crates/gestura-core-a2a/src/server.rs    the server and its tasks     *)
(*   crates/gestura-gui/src/a2a_runtime.rs    the worker that runs them    *)
(*   crates/gestura-core/src/orchestrator.rs  execute_remote_task          *)
(*                                                                         *)
(* A client is one execution of a remote task: it creates the task on the  *)
(* server and polls it until it is settled.  A request may get lost on its *)
(* way, and so may the reply.  The server handles a request on its own     *)
(* thread and locks each of its maps for itself: only task/create takes    *)
(* more than one step.  Every task has a worker of its own, started by the *)
(* event that says it was created.                                         *)
(*                                                                         *)
(* Requests come from the owner of the task, so that ensure_task_owner     *)
(* lets them pass; audit log, progress and provenance are left out.        *)
(***************************************************************************)
EXTENDS Naturals

CONSTANTS
    Client,       \* executions of remote tasks
    Task,         \* ids the server gives out (UUIDs)
    NoTask,
    Key, NoKey,   \* idempotency keys, scoped to the caller
    KeyOf,        \* the key each client sends
    Leased,       \* clients that ask for a lease
    MaxRequests   \* bound on the task/cancel, task/retry and task/heartbeat requests

ASSUME IdsAssumption ==
    /\ NoTask \notin Task
    /\ NoKey \notin Key
    /\ KeyOf \in [Client -> Key \cup {NoKey}]
    /\ Leased \subseteq Client
ASSUME BoundAssumption == MaxRequests \in Nat

VARIABLES
    status,     \* TaskStatus of each task
    lease,      \* whether the lease of the task has expired
    output,     \* whether the task has its result (messages, artifacts)
    taskKey,    \* idempotency_key of the task
    index,      \* idempotency_index
    worker,     \* where process_task is
    handler,    \* the task/create request of each client
    client,     \* execute_remote_task
    requests,   \* the number of requests of others (bound)
    overlapped, \* history: keys with two creates handled at the same time
    claimed     \* history: tasks a heartbeat called completed without output

vars == <<status, lease, output, taskKey, index, worker, handler, client,
          requests, overlapped, claimed>>

Status == {"absent", "pending", "blocked", "running", "completed", "failed",
           "cancelled"}
Final == {"completed", "failed", "cancelled"}
Settled == Final \cup {"blocked"}       \* what ends the polling
Lease == {"none", "valid", "expired"}
Tasks == Task \cup {NoTask}

Worker == {"none", "called", "executing", "answered", "finished"}
Handler == [at : {"none", "sent", "insert", "index", "emit", "reply"},
            task : Tasks, seen : Status, output : BOOLEAN]
NoHandler == [at |-> "none", task |-> NoTask, seen |-> "absent", output |-> FALSE]
Execution == [at : {"idle", "creating", "polling", "returned"}, task : Tasks,
              seen : Status, output : BOOLEAN]
NotStarted == [at |-> "idle", task |-> NoTask, seen |-> "absent", output |-> FALSE]

TypeOK ==
    /\ status \in [Task -> Status]
    /\ lease \in [Task -> Lease]
    /\ output \in [Task -> BOOLEAN]
    /\ taskKey \in [Task -> Key \cup {NoKey}]
    /\ index \in [Key -> Tasks]
    /\ worker \in [Task -> Worker]
    /\ handler \in [Client -> Handler]
    /\ client \in [Client -> Execution]
    /\ requests \in 0..MaxRequests
    /\ overlapped \subseteq Key
    /\ claimed \subseteq Task
    /\ \A c \in Client :
          /\ client[c].at = "polling" => status[client[c].task] # "absent"
          /\ handler[c].at \in {"emit", "reply"} => status[handler[c].task] # "absent"

Init ==
    /\ status = [t \in Task |-> "absent"]
    /\ lease = [t \in Task |-> "none"]
    /\ output = [t \in Task |-> FALSE]
    /\ taskKey = [t \in Task |-> NoKey]
    /\ index = [k \in Key |-> NoTask]
    /\ worker = [t \in Task |-> "none"]
    /\ handler = [c \in Client |-> NoHandler]
    /\ client = [c \in Client |-> NotStarted]
    /\ requests = 0
    /\ overlapped = {}
    /\ claimed = {}

-----------------------------------------------------------------------------
(* The supervisor: execute_remote_task *)

ClientFrame ==
    UNCHANGED <<output, taskKey, index, worker, requests, overlapped, claimed>>

Returns(c, seen) == client' = [client EXCEPT ![c].at = "returned", ![c].seen = seen]

SendCreate(c) ==
    /\ client[c].at = "idle"
    /\ client' = [client EXCEPT ![c].at = "creating"]
    /\ handler' = [handler EXCEPT ![c].at = "sent"]
    /\ ClientFrame
    /\ UNCHANGED <<status, lease>>

\* The request, or the reply, does not arrive (in 30 seconds): to the
\* supervisor the task is blocked, to the server it may well be a task.
CreateLost(c) ==
    /\ client[c].at = "creating"
    /\ Returns(c, "blocked")
    /\ \/ UNCHANGED handler
       \/ handler[c].at = "sent" /\ handler' = [handler EXCEPT ![c] = NoHandler]
    /\ ClientFrame
    /\ UNCHANGED <<status, lease>>

\* The state that the reply, or the last poll, has brought is a settled one.
Return(c) ==
    /\ client[c].at = "polling"
    /\ client[c].seen \in Settled
    /\ Returns(c, client[c].seen)
    /\ ClientFrame
    /\ UNCHANGED <<status, lease, handler>>

\* Variant: an expired lease is nobody's business.
StatusKept(t) == status[t]

\* reconcile_task_lease, which only task/status calls.
Reconciled(t) ==
    IF lease[t] = "expired" /\ status[t] \notin Settled THEN "blocked"
    ELSE status[t]

\* What a reply about a completed task brings; of others it is not told apart.
Delivered(t) == status[t] = "completed" /\ output[t]

\* task/status, the reply included.
Poll(c) ==
    LET t == client[c].task IN
    /\ client[c].at = "polling"
    /\ client[c].seen \notin Settled
    /\ status' = [status EXCEPT ![t] = Reconciled(t)]
    /\ client' = [client EXCEPT ![c].seen = Reconciled(t),
                                       ![c].output = Delivered(t)]
    /\ ClientFrame
    /\ UNCHANGED <<lease, handler>>

\* Not reached: blocked for the supervisor.
PollLost(c) ==
    /\ client[c].at = "polling"
    /\ client[c].seen \notin Settled
    /\ Returns(c, "blocked")
    /\ ClientFrame
    /\ UNCHANGED <<status, lease, handler>>

-----------------------------------------------------------------------------
(* The server: task/create *)

HandlerFrame == UNCHANGED <<output, requests, client, claimed>>

HandlerAt(c, at) == handler' = [handler EXCEPT ![c].at = at]

\* One is as good as another.
Fresh == {t \in Task : status[t] = "absent" /\ \A c \in Client : handler[c].task # t}

\* Clients whose create, with the key k, is past the look at the index and
\* not yet in it.
Creating(k) == {c \in Client : handler[c].at \in {"insert", "index"} /\ KeyOf[c] = k}

\* Variant: the index is not looked at.
KnownTask(k) == NoTask
TaskOfKey(k) == IF k = NoKey THEN NoTask ELSE index[k]

\* A key that is known leads to its task, any other request to a new one.
CheckKey(c) ==
    LET k == KeyOf[c] IN
    /\ handler[c].at = "sent"
    /\ \/ /\ TaskOfKey(k) # NoTask
          /\ handler' = [handler EXCEPT ![c] = [at |-> "reply", task |-> TaskOfKey(k),
                                                seen |-> status[TaskOfKey(k)],
                                                output |-> Delivered(TaskOfKey(k))]]
       \/ /\ TaskOfKey(k) = NoTask
          /\ Fresh # {}
          /\ handler' = [handler EXCEPT ![c] =
                           [at |-> "insert", task |-> CHOOSE t \in Fresh : TRUE,
                            seen |-> "pending", output |-> FALSE]]
    /\ overlapped' = IF k # NoKey /\ Creating(k) # {} THEN overlapped \cup {k}
                     ELSE overlapped
    /\ HandlerFrame
    /\ UNCHANGED <<status, lease, taskKey, index, worker>>

\* Variant: the task is announced before it can be found.
InsertLater(c) ==
    /\ handler[c].at = "insert"
    /\ HandlerAt(c, "index")
    /\ HandlerFrame
    /\ UNCHANGED <<status, lease, taskKey, index, worker, overlapped>>

Insert(c) ==
    LET t == handler[c].task IN
    /\ handler[c].at = "insert"
    /\ status' = [status EXCEPT ![t] = "pending"]
    /\ lease' = [lease EXCEPT ![t] = IF c \in Leased THEN "valid" ELSE "none"]
    /\ taskKey' = [taskKey EXCEPT ![t] = KeyOf[c]]
    /\ HandlerAt(c, "index")
    /\ HandlerFrame
    /\ UNCHANGED <<index, worker, overlapped>>

IndexKey(c) ==
    /\ handler[c].at = "index"
    /\ index' = [k \in Key |-> IF k = KeyOf[c] THEN handler[c].task ELSE index[k]]
    /\ HandlerAt(c, "emit")
    /\ HandlerFrame
    /\ UNCHANGED <<status, lease, taskKey, worker, overlapped>>

\* The worker's subscription gets the event.
EmitCreated(c) ==
    /\ handler[c].at = "emit"
    /\ worker' = [worker EXCEPT ![handler[c].task] = "called"]
    /\ HandlerAt(c, "reply")
    /\ HandlerFrame
    /\ UNCHANGED <<status, lease, taskKey, index, overlapped>>

Reply(c) ==
    /\ handler[c].at = "reply"
    /\ handler' = [handler EXCEPT ![c] = NoHandler]
    /\ client' = IF client[c].at # "creating" THEN client
                 ELSE [client EXCEPT ![c] =
                         [at |-> "polling", task |-> handler[c].task,
                          seen |-> handler[c].seen, output |-> handler[c].output]]
    /\ UNCHANGED <<status, lease, output, taskKey, index, worker, requests,
                   overlapped, claimed>>

-----------------------------------------------------------------------------
(* The server: the other requests that change a task.  A task whose id has  *)
(* been returned to somebody gets them.                                     *)

Requested(t) ==
    /\ \E c \in Client : client[c].task = t
    /\ requests < MaxRequests
    /\ requests' = requests + 1

RequestFrame ==
    UNCHANGED <<taskKey, index, worker, handler, client, overlapped>>

\* Whatever the status is, and nobody tells the worker.
Cancel(t) ==
    /\ Requested(t)
    /\ status' = [status EXCEPT ![t] = "cancelled"]
    /\ RequestFrame
    /\ UNCHANGED <<lease, output, claimed>>

Retry(t) ==
    /\ Requested(t)
    /\ status' = [status EXCEPT ![t] = "pending"]
    /\ RequestFrame
    /\ UNCHANGED <<lease, output, claimed>>

\* A heartbeat renews the lease; any status it reports is stored (without one
\* the task keeps its own) and the artifacts it brings, if any, are added.
Heartbeat(t) ==
    /\ Requested(t)
    /\ lease[t] # "none"
    /\ lease' = [lease EXCEPT ![t] = "valid"]
    /\ \E reported \in Status \ {"absent"}, brings \in BOOLEAN :
          /\ status' = [status EXCEPT ![t] = reported]
          /\ output' = [output EXCEPT ![t] = @ \/ brings]
          /\ claimed' = IF reported = "completed" /\ ~output'[t]
                        THEN claimed \cup {t} ELSE claimed
    /\ RequestFrame

\* The clock passes expires_at.
LeaseExpires(t) ==
    /\ lease[t] = "valid"
    /\ lease' = [lease EXCEPT ![t] = "expired"]
    /\ RequestFrame
    /\ UNCHANGED <<status, output, requests, claimed>>

-----------------------------------------------------------------------------
(* The worker: process_task.  It looks neither at the status nor at the     *)
(* lease, and renews nothing.                                               *)

WorkerFrame ==
    UNCHANGED <<lease, taskKey, index, handler, client, requests, overlapped,
                claimed>>

Works(t, at, s) ==
    /\ worker' = [worker EXCEPT ![t] = at]
    /\ status' = [status EXCEPT ![t] = s]

\* Without an execution plan the task is blocked.
StartWork(t) ==
    /\ worker[t] = "called"
    /\ Works(t, "executing", "running") \/ Works(t, "finished", "blocked")
    /\ WorkerFrame
    /\ UNCHANGED output

\* Variant: the task is completed before its result is attached.
CompleteFirst(t) ==
    /\ worker[t] = "executing"
    /\ Works(t, "answered", "completed")
    /\ WorkerFrame
    /\ UNCHANGED output

AttachOutput(t) ==
    /\ worker[t] = "executing"
    /\ output' = [output EXCEPT ![t] = TRUE]
    /\ worker' = [worker EXCEPT ![t] = "answered"]
    /\ WorkerFrame
    /\ UNCHANGED status

Complete(t) ==
    /\ worker[t] = "answered"
    /\ Works(t, "finished", "completed")
    /\ WorkerFrame
    /\ UNCHANGED output

Fail(t) ==
    /\ worker[t] = "executing"
    /\ Works(t, "finished", "failed")
    /\ WorkerFrame
    /\ UNCHANGED output

-----------------------------------------------------------------------------
Handle(c) == CheckKey(c) \/ Insert(c) \/ IndexKey(c) \/ EmitCreated(c) \/ Reply(c)
Work(t) == StartWork(t) \/ AttachOutput(t) \/ Complete(t) \/ Fail(t)

Next ==
    \/ \E c \in Client : \/ SendCreate(c) \/ CreateLost(c) \/ Return(c)
                         \/ Poll(c) \/ PollLost(c) \/ Handle(c)
    \/ \E t \in Task : \/ Cancel(t) \/ Retry(t) \/ Heartbeat(t)
                       \/ LeaseExpires(t) \/ Work(t)

Spec == Init /\ [][Next]_vars

\* The server handles the requests that reach it, a client goes on polling, a
\* worker's tools end by their own time-outs, and clocks do not stop.
Fairness ==
    /\ \A c \in Client : WF_vars(Handle(c)) /\ WF_vars(Return(c) \/ Poll(c))
    /\ \A t \in Task : WF_vars(Work(t)) /\ WF_vars(LeaseExpires(t))
FairSpec == Spec /\ Fairness

-----------------------------------------------------------------------------
(* Properties *)

\* An execution that succeeds has the output of the remote task with it,
\* whichever reply it read, of its own create, a replay or a poll, and whatever
\* was cancelled, retried or reported meanwhile; unless a heartbeat completed
\* the task before there was any.
Successful(c) == client[c].at = "returned" /\ client[c].seen = "completed"
SuccessHasOutput ==
    \A c \in Client :
        Successful(c) /\ client[c].task \notin claimed => client[c].output

\* Unless two creates with the same key are handled at the same time, all of
\* them get the same task, lost replies and repeated requests included
\* ("replay-safe task/create", README.md of the crate).
KeyedTasks(k) == {t \in Task : taskKey[t] = k}
ReplayIsSafe ==
    \A k \in Key : k \notin overlapped =>
        \A t, u \in KeyedTasks(k) : t = u

\* The execution of a remote task returns, whatever happens to the task: with
\* a lease it does not take the worker for it.
ExecutionReturns ==
    \A c \in Client : client[c].at = "polling" ~> client[c].at = "returned"

\* Not so in the code (the instance of a2a.cfg): every success has its output.
EverySuccessHasOutput == \A c \in Client : Successful(c) => client[c].output

\* Not so in the code (the instance of a2a.cfg): one task for each key.
OneTaskPerKey == \A k \in Key : \A t, u \in KeyedTasks(k) : t = u

\* Not so in the code (the instance of a2a.cfg): a task that is retried is worked on.
RetriedIsWorked ==
    \A t \in Task : status[t] = "pending" ~> status[t] # "pending"
=============================================================================
