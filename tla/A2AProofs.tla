----------------------------- MODULE A2AProofs ------------------------------
(***************************************************************************)
(* Theorems about A2A, for every set of clients, tasks and keys and every  *)
(* number of requests.                                                     *)
(***************************************************************************)
EXTENDS A2A, TLAPS

\* The tasks that requests, clients and the index name have been created.
Named ==
    /\ \A c \in Client : handler[c].at \notin {"none", "sent"} => handler[c].task \in Task
    /\ \A c \in Client : handler[c].at \in {"index", "emit", "reply"}
                           => status[handler[c].task] # "absent"
    /\ \A c \in Client : client[c].at = "polling" => client[c].task \in Task
    /\ \A k \in Key : index[k] # NoTask => status[index[k]] # "absent"

TypeInv == TypeOK /\ Named

\* Nothing that has been created disappears.
Persists == \A t \in Task : status[t] # "absent" => status'[t] # "absent"

\* A client that polls has polled before, for the same task.
KeepsPolling ==
    \A c \in Client : client'[c].at = "polling" =>
        client[c].at = "polling" /\ client'[c].task = client[c].task

USE DEF Tasks, Settled, Final

LEMMA ReturnsType ==
    ASSUME client \in [Client -> Execution], NEW c \in Client, NEW seen \in Status,
           Returns(c, seen)
    PROVE  client' \in [Client -> Execution] /\ KeepsPolling
<1>1. /\ client'[c] \in Execution /\ client'[c].at = "returned"
      /\ \A d \in Client \ {c} : client'[d] = client[d]
      /\ client' = [d \in Client |-> client'[d]]
  BY DEF Returns, Execution
<1> QED BY <1>1 DEF KeepsPolling

-----------------------------------------------------------------------------
(* Types *)

LEMMA InitTypes == Init => TypeInv
BY IdsAssumption, BoundAssumption
DEF Init, TypeInv, TypeOK, Named, Status, Lease, Worker, Handler, NoHandler,
    Execution, NotStarted

\* What is about a client and its request, while the server's maps only grow.
LEMMA ClientTypes ==
    ASSUME TypeInv, NEW c \in Client,
           SendCreate(c) \/ CreateLost(c) \/ Return(c) \/ Poll(c) \/ PollLost(c)
    PROVE  TypeInv'
<1> USE IdsAssumption DEF TypeInv, TypeOK, Named, ClientFrame, Returns
<1>1. CASE SendCreate(c)
  BY <1>1 DEF SendCreate, Handler, Execution
<1>2. CASE CreateLost(c)
  <2>1. client' \in [Client -> Execution] /\ KeepsPolling
    BY <1>2, ReturnsType DEF CreateLost, Status
  <2>2. /\ handler' \in [Client -> Handler]
        /\ \A d \in Client : handler'[d] \in {handler[d], NoHandler}
    <3>1. NoHandler \in Handler
      BY DEF Handler, NoHandler, Status
    <3>2. handler' = handler \/ handler' = [handler EXCEPT ![c] = NoHandler]
      BY <1>2 DEF CreateLost
    <3> QED BY <3>1, <3>2
  <2> QED BY <1>2, <2>1, <2>2 DEF CreateLost, NoHandler, KeepsPolling
<1>3. CASE Return(c)
  <2>1. client[c].seen \in Status
    BY DEF Execution
  <2>2. client' \in [Client -> Execution] /\ KeepsPolling
    BY <1>3, <2>1, ReturnsType DEF Return
  <2> QED BY <1>3, <2>2 DEF Return, KeepsPolling
<1>4. CASE Poll(c)
  <2>1. /\ client[c].task \in Task /\ Reconciled(client[c].task) \in Status \ {"absent"}
        /\ Delivered(client[c].task) \in BOOLEAN
    BY <1>4 DEF Poll, Reconciled, Delivered, Status, Execution
  <2>2. client' \in [Client -> Execution] /\ KeepsPolling
    <3>1. /\ client'[c] \in Execution /\ client'[c].task = client[c].task
          /\ \A d \in Client \ {c} : client'[d] = client[d]
          /\ client' = [d \in Client |-> client'[d]]
      BY <1>4, <2>1 DEF Poll, Execution
    <3>2. client[c].at = "polling"
      BY <1>4 DEF Poll
    <3> QED BY <3>1, <3>2 DEF KeepsPolling
  <2>3. status' \in [Task -> Status] /\ Persists
    BY <1>4, <2>1 DEF Poll, Persists
  <2> QED BY <1>4, <2>2, <2>3 DEF Poll, KeepsPolling, Persists, Execution, Handler
<1>5. CASE PollLost(c)
  BY <1>5 DEF PollLost, Execution, Status
<1> QED BY <1>1, <1>2, <1>3, <1>4, <1>5

LEMMA HandlerTypes ==
    ASSUME TypeInv, NEW c \in Client, Handle(c)
    PROVE  TypeInv'
<1> USE IdsAssumption DEF TypeInv, TypeOK, Named, HandlerFrame, HandlerAt
<1>1. CASE CheckKey(c)
  <2> DEFINE k == KeyOf[c]
  <2>1. TaskOfKey(k) # NoTask => /\ TaskOfKey(k) \in Task
                                 /\ status[TaskOfKey(k)] \in Status \ {"absent"}
    BY DEF TaskOfKey
  <2>2. Fresh # {} => (CHOOSE t \in Fresh : TRUE) \in Task
    BY DEF Fresh
  <2>3. overlapped' \subseteq Key
    BY <1>1 DEF CheckKey
  <2>4. /\ handler'[c] \in Handler /\ handler'[c].task \in Task
        /\ handler'[c].at \in {"reply", "insert"}
        /\ handler'[c].at = "reply" => status[handler'[c].task] # "absent"
    <3>0. Delivered(TaskOfKey(k)) \in BOOLEAN
      BY <2>1 DEF Delivered
    <3>1. CASE handler'[c] = [at |-> "reply", task |-> TaskOfKey(k),
                              seen |-> status[TaskOfKey(k)],
                              output |-> Delivered(TaskOfKey(k))] /\ TaskOfKey(k) # NoTask
      BY <2>1, <3>0, <3>1 DEF Handler
    <3>2. CASE handler'[c] = [at |-> "insert", task |-> CHOOSE t \in Fresh : TRUE,
                              seen |-> "pending", output |-> FALSE] /\ Fresh # {}
      BY <2>2, <3>2 DEF Handler, Status
    <3> QED BY <1>1, <3>1, <3>2 DEF CheckKey
  <2>5. /\ handler' \in [Client -> Handler]
        /\ \A d \in Client \ {c} : handler'[d] = handler[d]
    BY <1>1, <2>4 DEF CheckKey
  <2> QED BY <1>1, <2>3, <2>4, <2>5 DEF CheckKey
<1>2. CASE Insert(c)
  BY <1>2 DEF Insert, Handler, Status, Lease
<1>3. CASE IndexKey(c)
  BY <1>3 DEF IndexKey, Handler
<1>4. CASE EmitCreated(c)
  BY <1>4 DEF EmitCreated, Handler, Worker
<1>5. CASE Reply(c)
  BY <1>5 DEF Reply, Handler, NoHandler, Execution, Status
<1> QED BY <1>1, <1>2, <1>3, <1>4, <1>5 DEF Handle

\* The other requests, the clock and the worker write the status, the lease
\* and the output of one task.
LEMMA TaskTypes ==
    ASSUME TypeInv, NEW t \in Task,
           Cancel(t) \/ Retry(t) \/ Heartbeat(t) \/ LeaseExpires(t) \/ Work(t)
    PROVE  TypeInv'
<1>1. /\ status' \in [Task -> Status] /\ lease' \in [Task -> Lease]
      /\ output' \in [Task -> BOOLEAN] /\ worker' \in [Task -> Worker]
      /\ requests' \in 0..MaxRequests /\ claimed' \subseteq Task
  <2> USE BoundAssumption
      DEF TypeInv, TypeOK, Requested, RequestFrame, Works, WorkerFrame, Status,
          Lease, Worker
  <2>1. CASE Cancel(t) \/ Retry(t)
    BY <2>1 DEF Cancel, Retry
  <2>2. CASE Heartbeat(t) \/ LeaseExpires(t)
    BY <2>2 DEF Heartbeat, LeaseExpires
  <2>3. CASE StartWork(t)
    BY <2>3 DEF StartWork
  <2>4. CASE AttachOutput(t) \/ Complete(t) \/ Fail(t)
    BY <2>4 DEF AttachOutput, Complete, Fail
  <2> QED BY <2>1, <2>2, <2>3, <2>4 DEF Work
<1>2. Persists
  BY DEF TypeInv, TypeOK, Persists, Cancel, Retry, Heartbeat, LeaseExpires,
      RequestFrame, Work, StartWork, AttachOutput, Complete, Fail, Works, WorkerFrame
<1>3. UNCHANGED <<taskKey, index, handler, client, overlapped>>
  BY DEF Cancel, Retry, Heartbeat, LeaseExpires, RequestFrame, Work, StartWork,
      AttachOutput, Complete, Fail, WorkerFrame
<1> QED BY <1>1, <1>2, <1>3 DEF TypeInv, TypeOK, Named, Persists, Execution, Handler

LEMMA NextTypes == TypeInv /\ [Next]_vars => TypeInv'
<1> SUFFICES ASSUME TypeInv, [Next]_vars PROVE TypeInv'
  OBVIOUS
<1>1. CASE UNCHANGED vars
  BY <1>1 DEF vars, TypeInv, TypeOK, Named
<1>2. CASE Next
  BY <1>2, ClientTypes, HandlerTypes, TaskTypes DEF Next
<1> QED BY <1>1, <1>2

LEMMA TypesHold == Spec => []TypeInv
<1> QED BY InitTypes, NextTypes, PTL DEF Spec

\* The variables keep their types, a client that polls and a request that has
\* been inserted name a task of the server.
THEOREM TypeCorrect == Spec => []TypeOK
<1>1. TypeInv => TypeOK
  BY DEF TypeInv
<1> QED BY <1>1, TypesHold, PTL

-----------------------------------------------------------------------------
(* Output *)

\* A task that shows as completed has its output, or a heartbeat called it so
\* without; and so has whatever reply says so, on its way or received.
OutputInv ==
    /\ \A t \in Task :
          /\ worker[t] = "answered" => output[t]
          /\ status[t] = "completed" => output[t] \/ t \in claimed
    /\ \A c \in Client :
          handler[c].at \notin {"none", "sent"} /\ handler[c].seen = "completed"
            => handler[c].output \/ handler[c].task \in claimed
    /\ \A c \in Client :
          client[c].at \in {"polling", "returned"} /\ client[c].seen = "completed"
            => client[c].output \/ client[c].task \in claimed

LEMMA OutputStep == TypeInv /\ OutputInv /\ [Next]_vars => OutputInv'
<1> SUFFICES ASSUME TypeInv, OutputInv, [Next]_vars PROVE OutputInv'
  OBVIOUS
<1> USE IdsAssumption DEF TypeInv, TypeOK, Named, OutputInv
<1>1. ASSUME NEW c \in Client, SendCreate(c) PROVE OutputInv'
  BY <1>1 DEF SendCreate, ClientFrame, Execution, Handler
<1>2. ASSUME NEW c \in Client, CreateLost(c) PROVE OutputInv'
  <2>1. client' = [client EXCEPT ![c].at = "returned", ![c].seen = "blocked"]
    BY <1>2 DEF CreateLost, Returns
  <2>2. \A d \in Client : handler'[d] \in {handler[d], NoHandler}
    BY <1>2 DEF CreateLost
  <2>3. UNCHANGED <<status, output, worker, claimed>>
    BY <1>2 DEF CreateLost, ClientFrame
  <2> QED BY <2>1, <2>2, <2>3 DEF Execution, NoHandler
<1>3. ASSUME NEW c \in Client, Return(c) \/ PollLost(c) PROVE OutputInv'
  <2>1. PICK seen \in Status : Returns(c, seen) /\ seen \in {client[c].seen, "blocked"}
    BY <1>3 DEF Return, PollLost, Execution, Status
  <2>2. /\ client'[c].seen = seen /\ client'[c].output = client[c].output
        /\ \A d \in Client : d # c => client'[d] = client[d]
    BY <2>1 DEF Returns, Execution
  <2>3. client[c].at = "polling"
    BY <1>3 DEF Return, PollLost
  <2>4. UNCHANGED <<status, output, worker, handler, claimed>>
    BY <1>3 DEF Return, PollLost, ClientFrame
  <2>5. client'[c].task = client[c].task
    BY <2>1 DEF Returns, Execution
  <2> QED BY <2>1, <2>2, <2>3, <2>4, <2>5
<1>4. ASSUME NEW c \in Client, Poll(c) PROVE OutputInv'
  <2> DEFINE t == client[c].task
  <2>1. Reconciled(t) = "completed" => status[t] = "completed" /\ t \in Task
    BY <1>4 DEF Poll, Reconciled
  <2>2. \A d \in Client : d # c => client'[d] = client[d]
    BY <1>4 DEF Poll
  <2>3. /\ client'[c].seen = Reconciled(t) /\ client'[c].task = t
        /\ client'[c].output = (status[t] = "completed" /\ output[t])
    BY <1>4 DEF Poll, Execution, Delivered
  <2>4. \A u \in Task : status'[u] = "completed" => status[u] = "completed"
    BY <1>4, <2>1 DEF Poll
  <2>5. UNCHANGED <<output, worker, handler, claimed>>
    BY <1>4 DEF Poll, ClientFrame
  <2>6. client'[c].seen = "completed" => client'[c].output \/ client'[c].task \in claimed
    BY <2>1, <2>3
  <2> QED BY <2>2, <2>4, <2>5, <2>6
<1>5. ASSUME NEW c \in Client, CheckKey(c) PROVE OutputInv'
  <2>1. handler'[c].seen = "completed"
          => handler'[c].output \/ handler'[c].task \in claimed
    <3>1. TaskOfKey(KeyOf[c]) # NoTask => TaskOfKey(KeyOf[c]) \in Task
      BY DEF TaskOfKey
    <3> QED BY <1>5, <3>1 DEF CheckKey, Delivered
  <2>2. \A d \in Client : d # c => handler'[d] = handler[d]
    BY <1>5 DEF CheckKey
  <2> QED BY <1>5, <2>1, <2>2 DEF CheckKey, HandlerFrame
<1>6. ASSUME NEW c \in Client, Insert(c) PROVE OutputInv'
  BY <1>6 DEF Insert, HandlerFrame, HandlerAt, Handler
<1>7. ASSUME NEW c \in Client, IndexKey(c) PROVE OutputInv'
  BY <1>7 DEF IndexKey, HandlerFrame, HandlerAt, Handler
<1>8. ASSUME NEW c \in Client, EmitCreated(c) PROVE OutputInv'
  <2>1. \A d \in Client : /\ handler'[d].task = handler[d].task
                          /\ handler'[d].seen = handler[d].seen
                          /\ handler'[d].output = handler[d].output
                          /\ handler[d].at \in {"none", "sent"}
                               => handler'[d].at = handler[d].at
    BY <1>8 DEF EmitCreated, HandlerAt, Handler
  <2>2. \A t \in Task : worker'[t] = "answered" => worker[t] = "answered"
    BY <1>8 DEF EmitCreated
  <2> QED BY <1>8, <2>1, <2>2 DEF EmitCreated, HandlerFrame
<1>9. ASSUME NEW c \in Client, Reply(c) PROVE OutputInv'
  BY <1>9 DEF Reply, NoHandler, Execution, Handler
<1>10. ASSUME NEW t \in Task, Cancel(t) \/ Retry(t) \/ LeaseExpires(t)
       PROVE  OutputInv'
  BY <1>10 DEF Cancel, Retry, LeaseExpires, RequestFrame
<1>13. ASSUME NEW t \in Task, Heartbeat(t) PROVE OutputInv'
  <2>1. UNCHANGED <<worker, handler, client>>
    BY <1>13 DEF Heartbeat, RequestFrame
  <2>2. /\ claimed \subseteq claimed'
        /\ \A u \in Task : output[u] => output'[u]
        /\ \A u \in Task : u # t => status'[u] = status[u]
        /\ status'[t] = "completed" => output'[t] \/ t \in claimed'
    BY <1>13 DEF Heartbeat
  <2> QED BY <2>1, <2>2
<1>11. ASSUME NEW t \in Task, Work(t) PROVE OutputInv'
  <2>1. \A u \in Task : output[u] => output'[u]
    BY <1>11 DEF Work, StartWork, AttachOutput, Complete, Fail
  <2>2. \A u \in Task : /\ worker'[u] = "answered" => output'[u]
                        /\ status'[u] = "completed" => output'[u] \/ u \in claimed
    BY <1>11, <2>1 DEF Work, StartWork, AttachOutput, Complete, Fail, Works
  <2>3. UNCHANGED <<handler, client, claimed>>
    BY <1>11 DEF Work, StartWork, AttachOutput, Complete, Fail, WorkerFrame
  <2> QED BY <2>1, <2>2, <2>3
<1>12. CASE UNCHANGED vars
  BY <1>12 DEF vars
<1> QED BY <1>1, <1>2, <1>3, <1>4, <1>5, <1>6, <1>7, <1>8, <1>9, <1>10, <1>11, <1>12, <1>13
        DEF Next, Handle

\* An execution of a remote task that returns with success has the output with
\* it, unless a heartbeat called the task completed before there was any: the
\* worker attaches it before it completes the task, and every reply is made from
\* the task as it is.
THEOREM SuccessesHaveOutput == Spec => []SuccessHasOutput
<1>1. Init => OutputInv
  BY DEF Init, OutputInv, NoHandler, NotStarted
<1>2. OutputInv => SuccessHasOutput
  BY DEF OutputInv, SuccessHasOutput, Successful
<1> QED BY <1>1, <1>2, OutputStep, TypesHold, PTL DEF Spec

-----------------------------------------------------------------------------
(* Idempotency *)

\* Whatever is worked on, returned or keyed has been created; what a request is
\* about to insert has not, and is nobody else's.  A client has one request.
Created ==
    /\ \A c \in Client : client[c].at = "idle" => handler[c].at = "none"
    /\ \A t \in Task : worker[t] # "none" \/ taskKey[t] # NoKey => status[t] # "absent"
    /\ \A c \in Client : client[c].task # NoTask => status[client[c].task] # "absent"
    /\ \A c \in Client : handler[c].at = "insert" =>
          /\ status[handler[c].task] = "absent"
          /\ \A d \in Client \ {c} : handler[d].task # handler[c].task

\* A key that no two creates have used at the same time: at most one create
\* is past the look at the index, and then the index does not know the key and
\* the only task with it is the one this create has inserted; otherwise the
\* only task with the key is the one the index knows.
KeyIsSafe(k) ==
    /\ \A c, d \in Creating(k) : c = d
    /\ \A c \in Creating(k) :
          /\ index[k] = NoTask
          /\ \A t \in KeyedTasks(k) : handler[c].at = "index" /\ t = handler[c].task
    /\ Creating(k) = {} => \A t \in KeyedTasks(k) : t = index[k]

KeyInv == TypeInv /\ Created /\ \A k \in Key \ overlapped : KeyIsSafe(k)

\* A step that leaves the keys alone, and the requests that are under way.
KeepsKeys ==
    /\ UNCHANGED <<index, taskKey, overlapped>>
    /\ \A c \in Client :
          \/ handler'[c] = handler[c]
          \/ /\ handler'[c].at \notin {"insert", "index"}
             /\ handler[c].at \notin {"insert", "index"}

LEMMA KeysKept == KeyInv /\ KeepsKeys => \A k \in Key \ overlapped' : KeyIsSafe(k)'
<1> SUFFICES ASSUME KeyInv, KeepsKeys, NEW k \in Key \ overlapped
             PROVE  KeyIsSafe(k)'
  BY DEF KeepsKeys
<1>1. Creating(k)' = Creating(k) /\ KeyedTasks(k)' = KeyedTasks(k)
  BY DEF KeepsKeys, Creating, KeyedTasks
<1>2. \A c \in Creating(k) : handler'[c] = handler[c]
  BY DEF KeepsKeys, Creating
<1> QED BY <1>1, <1>2 DEF KeyInv, KeyIsSafe, KeepsKeys

LEMMA CheckKeyIsSafe ==
    ASSUME KeyInv, NEW c \in Client, CheckKey(c)
    PROVE  \A k \in Key \ overlapped' : KeyIsSafe(k)'
<1> SUFFICES ASSUME NEW k \in Key, k \notin overlapped' PROVE KeyIsSafe(k)'
  OBVIOUS
<1>1. k \notin overlapped /\ KeyIsSafe(k)
  BY DEF KeyInv, CheckKey
<1>2. UNCHANGED <<index, taskKey>> /\ KeyedTasks(k)' = KeyedTasks(k)
  BY DEF CheckKey, KeyedTasks
<1>3. \A d \in Client : d # c => handler'[d] = handler[d]
  BY DEF CheckKey, KeyInv, TypeInv, TypeOK
<1>4. c \notin Creating(k)
  BY DEF CheckKey, Creating
<1>5. CASE handler'[c].at = "insert" /\ KeyOf[c] = k
  <2>1. TaskOfKey(k) = NoTask
    BY <1>5 DEF CheckKey, KeyInv, TypeInv, TypeOK
  <2>2. index[k] = NoTask
    BY <2>1, IdsAssumption DEF TaskOfKey
  <2>3. Creating(k) = {}
    BY <1>5, IdsAssumption DEF CheckKey
  <2>4. KeyedTasks(k) = {}
    BY <1>1, <2>2, <2>3, IdsAssumption DEF KeyIsSafe, KeyedTasks
  <2>5. Creating(k)' = {c}
    BY <1>3, <1>5, <2>3 DEF Creating
  <2> QED BY <1>2, <2>2, <2>4, <2>5 DEF KeyIsSafe
<1>6. CASE ~(handler'[c].at = "insert" /\ KeyOf[c] = k)
  <2>1. handler'[c].at # "index"
    BY DEF CheckKey, KeyInv, TypeInv, TypeOK
  <2>2. Creating(k)' = Creating(k)
    BY <1>3, <1>4, <1>6, <2>1 DEF Creating
  <2>3. \A d \in Creating(k) : handler'[d] = handler[d]
    BY <1>3, <1>4 DEF Creating
  <2> QED BY <1>1, <1>2, <2>2, <2>3 DEF KeyIsSafe
<1> QED BY <1>5, <1>6

LEMMA InsertIsSafe ==
    ASSUME KeyInv, NEW c \in Client, Insert(c)
    PROVE  \A k \in Key \ overlapped' : KeyIsSafe(k)'
<1> SUFFICES ASSUME NEW k \in Key \ overlapped PROVE KeyIsSafe(k)'
  BY DEF Insert
<1> DEFINE t == handler[c].task
<1>1. t \in Task /\ taskKey[t] = NoKey /\ KeyIsSafe(k)
  BY DEF KeyInv, Insert, Created, TypeInv, Named
<1>2. UNCHANGED index /\ handler'[c].at = "index" /\ handler'[c].task = t
  BY DEF Insert, HandlerAt, KeyInv, TypeInv, TypeOK, Handler
<1>3. \A d \in Client : d # c => handler'[d] = handler[d]
  BY DEF Insert, HandlerAt, KeyInv, TypeInv, TypeOK
<1>4. Creating(k)' = Creating(k)
  BY <1>2, <1>3 DEF Creating, Insert
<1>5. CASE KeyOf[c] = k
  <2>1. c \in Creating(k)
    BY <1>5 DEF Creating, Insert
  <2>2. KeyedTasks(k) = {}
    BY <1>1, <2>1 DEF KeyIsSafe, Insert
  <2>3. KeyedTasks(k)' \subseteq {t}
    BY <1>5, <2>2 DEF KeyedTasks, Insert, KeyInv, TypeInv, TypeOK
  <2> QED BY <1>1, <1>2, <1>4, <2>1, <2>3 DEF KeyIsSafe
<1>6. CASE KeyOf[c] # k
  <2>1. KeyedTasks(k)' = KeyedTasks(k)
    BY <1>1, <1>6, IdsAssumption DEF KeyedTasks, Insert, KeyInv, TypeInv, TypeOK
  <2>2. c \notin Creating(k)
    BY <1>6 DEF Creating
  <2>3. \A d \in Creating(k) : handler'[d] = handler[d]
    BY <1>3, <2>2 DEF Creating
  <2> QED BY <1>1, <1>2, <1>4, <2>1, <2>3 DEF KeyIsSafe
<1> QED BY <1>5, <1>6

LEMMA IndexKeyIsSafe ==
    ASSUME KeyInv, NEW c \in Client, IndexKey(c)
    PROVE  \A k \in Key \ overlapped' : KeyIsSafe(k)'
<1> SUFFICES ASSUME NEW k \in Key \ overlapped PROVE KeyIsSafe(k)'
  BY DEF IndexKey
<1>1. KeyIsSafe(k) /\ KeyedTasks(k)' = KeyedTasks(k)
  BY DEF KeyInv, IndexKey, KeyedTasks
<1>2. handler'[c].at = "emit"
  BY DEF IndexKey, HandlerAt, KeyInv, TypeInv, TypeOK, Handler
<1>3. \A d \in Client : d # c => handler'[d] = handler[d]
  BY DEF IndexKey, HandlerAt, KeyInv, TypeInv, TypeOK
<1>4. Creating(k)' = Creating(k) \ {c}
  BY <1>2, <1>3 DEF Creating
<1>5. CASE KeyOf[c] = k
  <2>1. c \in Creating(k)
    BY <1>5 DEF Creating, IndexKey
  <2>2. Creating(k)' = {}
    BY <1>1, <1>4, <2>1 DEF KeyIsSafe
  <2>3. index'[k] = handler[c].task
    BY <1>5 DEF IndexKey
  <2>4. \A t \in KeyedTasks(k) : t = handler[c].task
    BY <1>1, <2>1 DEF KeyIsSafe
  <2> QED BY <1>1, <2>2, <2>3, <2>4 DEF KeyIsSafe
<1>6. CASE KeyOf[c] # k
  <2>1. Creating(k)' = Creating(k) /\ c \notin Creating(k)
    BY <1>4, <1>6 DEF Creating
  <2>2. \A d \in Creating(k) : handler'[d] = handler[d]
    BY <1>3, <2>1 DEF Creating
  <2>3. index'[k] = index[k]
    BY <1>6 DEF IndexKey
  <2> QED BY <1>1, <2>1, <2>2, <2>3 DEF KeyIsSafe
<1> QED BY <1>5, <1>6

LEMMA CreatedStep == TypeInv /\ Created /\ [Next]_vars => Created'
<1> SUFFICES ASSUME TypeInv, Created, [Next]_vars PROVE Created'
  OBVIOUS
<1> USE IdsAssumption DEF TypeInv, TypeOK, Named, Created
<1>1. ASSUME NEW c \in Client, SendCreate(c) PROVE Created'
  BY <1>1 DEF SendCreate, ClientFrame, Execution, Handler
<1>2. ASSUME NEW c \in Client, CreateLost(c) PROVE Created'
  <2>1. \A d \in Client : /\ client'[d].task = client[d].task
                          /\ client'[d].at = "idle" => client[d].at = "idle"
    BY <1>2 DEF CreateLost, Returns, Execution
  <2>2. \A d \in Client : handler'[d] \in {handler[d], NoHandler}
    BY <1>2 DEF CreateLost
  <2> QED BY <1>2, <2>1, <2>2 DEF CreateLost, ClientFrame, NoHandler
<1>3. ASSUME NEW c \in Client, Return(c) \/ PollLost(c) PROVE Created'
  <2>1. PICK seen \in Status : Returns(c, seen)
    BY <1>3 DEF Return, PollLost, Execution, Status
  <2>2. \A d \in Client : /\ client'[d].task = client[d].task
                          /\ client'[d].at = "idle" => client[d].at = "idle"
    BY <2>1 DEF Returns, Execution
  <2>3. UNCHANGED <<status, taskKey, worker, handler>>
    BY <1>3 DEF Return, PollLost, ClientFrame
  <2> QED BY <2>2, <2>3
<1>4. ASSUME NEW c \in Client, Poll(c) PROVE Created'
  <2> DEFINE t == client[c].task
  <2>1. t \in Task /\ status[t] # "absent" /\ Reconciled(t) # "absent"
    BY <1>4 DEF Poll, Reconciled
  <2>2. \A d \in Client : /\ client'[d].task = client[d].task
                          /\ client'[d].at = client[d].at
    BY <1>4 DEF Poll, Execution
  <2>3. \A u \in Task : status'[u] = "absent" <=> status[u] = "absent"
    BY <1>4, <2>1 DEF Poll
  <2>4. UNCHANGED <<taskKey, worker, handler>>
    BY <1>4 DEF Poll, ClientFrame
  <2> QED BY <2>2, <2>3, <2>4 DEF Execution, Handler
<1>5. ASSUME NEW c \in Client, CheckKey(c) PROVE Created'
  <2>1. \A d \in Client : d # c => handler'[d] = handler[d]
    BY <1>5 DEF CheckKey
  <2>2. CASE handler'[c].at = "insert"
    <3>1. PICK t \in Fresh : handler'[c].task = t
      BY <1>5, <2>2 DEF CheckKey
    <3> QED BY <1>5, <2>1, <3>1 DEF CheckKey, HandlerFrame, Fresh
  <2>3. CASE handler'[c].at # "insert"
    <3>1. /\ handler'[c].task = TaskOfKey(KeyOf[c])
          /\ TaskOfKey(KeyOf[c]) # NoTask
      BY <1>5, <2>3 DEF CheckKey
    <3>2. status[handler'[c].task] # "absent"
      BY <3>1 DEF TaskOfKey
    <3> QED BY <1>5, <2>1, <2>3, <3>2 DEF CheckKey, HandlerFrame
  <2> QED BY <2>2, <2>3
<1>6. ASSUME NEW c \in Client, Insert(c) PROVE Created'
  <2>1. /\ handler'[c].at = "index" /\ handler'[c].task = handler[c].task
        /\ \A d \in Client : d # c => handler'[d] = handler[d]
    BY <1>6 DEF Insert, HandlerAt, Handler
  <2> DEFINE t == handler[c].task
  <2>2. t \in Task
    BY <1>6 DEF Insert
  <2>3. /\ status'[t] = "pending"
        /\ \A u \in Task : u # t => status'[u] = status[u] /\ taskKey'[u] = taskKey[u]
    BY <1>6, <2>2 DEF Insert
  <2>4. UNCHANGED <<worker, client>>
    BY <1>6 DEF Insert, HandlerFrame
  <2>5. \A d \in Client : d # c /\ handler[d].at = "insert" => handler[d].task # t
    BY <1>6 DEF Insert
  <2>6. \A u \in Task : worker'[u] # "none" \/ taskKey'[u] # NoKey => status'[u] # "absent"
    BY <2>3, <2>4
  <2>7. \A d \in Client : client'[d].task # NoTask => status'[client'[d].task] # "absent"
    <3>1. \A d \in Client : client[d].task \in Task \cup {NoTask}
      BY DEF Execution
    <3> QED BY <2>3, <2>4, <3>1
  <2>8. \A d \in Client : handler'[d].at = "insert" =>
          /\ status'[handler'[d].task] = "absent"
          /\ \A e \in Client \ {d} : handler'[e].task # handler'[d].task
    BY <2>1, <2>3, <2>5
  <2>9. \A d \in Client : client'[d].at = "idle" => handler'[d].at = "none"
    BY <1>6, <2>1, <2>4 DEF Insert
  <2> QED BY <2>6, <2>7, <2>8, <2>9
<1>7. ASSUME NEW c \in Client, IndexKey(c) \/ EmitCreated(c) PROVE Created'
  <2>1. /\ handler'[c].at # "insert" /\ handler'[c].task = handler[c].task
        /\ \A d \in Client : d # c => handler'[d] = handler[d]
    BY <1>7 DEF IndexKey, EmitCreated, HandlerAt, Handler
  <2>2. handler[c].task \in Task /\ status[handler[c].task] # "absent"
    BY <1>7 DEF IndexKey, EmitCreated
  <2>3. \A t \in Task : worker'[t] # "none" => worker[t] # "none" \/ t = handler[c].task
    BY <1>7 DEF IndexKey, EmitCreated
  <2> QED BY <1>7, <2>1, <2>2, <2>3 DEF IndexKey, EmitCreated, HandlerFrame
<1>8. ASSUME NEW c \in Client, Reply(c) PROVE Created'
  <2>1. handler[c].task \in Task /\ status[handler[c].task] # "absent"
    BY <1>8 DEF Reply
  <2>2. \A d \in Client : handler'[d] \in {handler[d], NoHandler}
    BY <1>8 DEF Reply
  <2>3. \A d \in Client : /\ client'[d].task \in {client[d].task, handler[c].task}
                          /\ client'[d].at = "idle" => client[d].at = "idle"
    BY <1>8 DEF Reply
  <2> QED BY <1>8, <2>1, <2>2, <2>3 DEF Reply, NoHandler
<1>9. ASSUME NEW t \in Task, Cancel(t) \/ Retry(t) \/ Heartbeat(t) \/ LeaseExpires(t)
      PROVE  Created'
  <2>1. LeaseExpires(t) \/ status[t] # "absent"
    BY <1>9 DEF Cancel, Retry, Heartbeat, Requested
  <2>2. \A u \in Task : status'[u] = "absent" <=> status[u] = "absent"
    BY <1>9, <2>1 DEF Cancel, Retry, Heartbeat, LeaseExpires
  <2>3. UNCHANGED <<worker, taskKey, handler, client>>
    BY <1>9 DEF Cancel, Retry, Heartbeat, LeaseExpires, RequestFrame
  <2> QED BY <2>2, <2>3 DEF Execution, Handler
<1>10. ASSUME NEW t \in Task, Work(t) PROVE Created'
  <2>1. status[t] # "absent"
    BY <1>10 DEF Work, StartWork, AttachOutput, Complete, Fail
  <2>2. \A u \in Task : status'[u] = "absent" <=> status[u] = "absent"
    BY <1>10, <2>1 DEF Work, StartWork, AttachOutput, Complete, Fail, Works
  <2>3. \A u \in Task : worker'[u] # "none" => u = t \/ worker[u] # "none"
    BY <1>10 DEF Work, StartWork, AttachOutput, Complete, Fail, Works
  <2>4. UNCHANGED <<taskKey, handler, client>>
    BY <1>10 DEF Work, StartWork, AttachOutput, Complete, Fail, WorkerFrame
  <2> QED BY <2>1, <2>2, <2>3, <2>4 DEF Execution, Handler
<1>11. CASE UNCHANGED vars
  BY <1>11 DEF vars
<1> QED BY <1>1, <1>2, <1>3, <1>4, <1>5, <1>6, <1>7, <1>8, <1>9, <1>10, <1>11
        DEF Next, Handle

LEMMA KeyStep == KeyInv /\ [Next]_vars => KeyInv'
<1> SUFFICES ASSUME KeyInv, [Next]_vars PROVE KeyInv'
  OBVIOUS
<1>1. TypeInv' /\ Created'
  BY NextTypes, CreatedStep DEF KeyInv
<1>2. \A k \in Key \ overlapped' : KeyIsSafe(k)'
  <2> USE DEF KeyInv, TypeInv, TypeOK
  <2>1. ASSUME NEW c \in Client, SendCreate(c) PROVE KeepsKeys
    <3>1. handler[c].at = "none" /\ handler'[c].at = "sent"
      BY <2>1 DEF SendCreate, Created
    <3>2. \A d \in Client : d # c => handler'[d] = handler[d]
      BY <2>1 DEF SendCreate
    <3> QED BY <2>1, <3>1, <3>2 DEF SendCreate, ClientFrame, KeepsKeys
  <2>2. ASSUME NEW c \in Client, CreateLost(c) PROVE KeepsKeys
    <3>1. \A d \in Client : \/ handler'[d] = handler[d]
                            \/ handler'[d] = NoHandler /\ handler[d].at = "sent"
      BY <2>2 DEF CreateLost
    <3> QED BY <2>2, <3>1 DEF CreateLost, ClientFrame, KeepsKeys, NoHandler
  <2>3. ASSUME NEW c \in Client, Return(c) \/ Poll(c) \/ PollLost(c) PROVE KeepsKeys
    BY <2>3 DEF Return, Poll, PollLost, ClientFrame, KeepsKeys
  <2>4. ASSUME NEW c \in Client, EmitCreated(c) PROVE KeepsKeys
    BY <2>4 DEF EmitCreated, HandlerAt, KeepsKeys, Handler
  <2>5. ASSUME NEW c \in Client, Reply(c) PROVE KeepsKeys
    BY <2>5 DEF Reply, NoHandler, KeepsKeys
  <2>6. ASSUME NEW t \in Task, Cancel(t) \/ Retry(t) \/ Heartbeat(t) \/ LeaseExpires(t)
        PROVE  KeepsKeys
    BY <2>6 DEF Cancel, Retry, Heartbeat, LeaseExpires, RequestFrame, KeepsKeys
  <2>7. ASSUME NEW t \in Task, Work(t) PROVE KeepsKeys
    BY <2>7 DEF Work, StartWork, AttachOutput, Complete, Fail, WorkerFrame, KeepsKeys
  <2>8. ASSUME UNCHANGED vars PROVE KeepsKeys
    BY <2>8 DEF vars, KeepsKeys
  <2> HIDE DEF KeyInv, TypeInv, TypeOK
  <2> QED BY <2>1, <2>2, <2>3, <2>4, <2>5, <2>6, <2>7, <2>8, KeysKept,
             CheckKeyIsSafe, InsertIsSafe, IndexKeyIsSafe DEF Next, Handle
<1> QED BY <1>1, <1>2 DEF KeyInv

\* Unless two creates with one key are handled at the same time, the key has
\* one task, however often requests are lost, repeated or answered late.
THEOREM ReplaysAreSafe == Spec => []ReplayIsSafe
<1>1. Init => KeyInv
  <2> SUFFICES ASSUME Init PROVE KeyInv
    OBVIOUS
  <2>1. Created
    BY IdsAssumption DEF Init, Created, NoHandler, NotStarted
  <2>2. \A k \in Key : Creating(k) = {} /\ KeyedTasks(k) = {}
    BY IdsAssumption DEF Init, Creating, KeyedTasks, NoHandler
  <2> QED BY <2>1, <2>2, InitTypes DEF KeyInv, KeyIsSafe
<1>2. KeyInv => ReplayIsSafe
  <2> SUFFICES ASSUME KeyInv, NEW k \in Key \ overlapped, NEW t \in KeyedTasks(k),
                      NEW u \in KeyedTasks(k)
               PROVE  t = u
    BY DEF ReplayIsSafe
  <2>1. KeyIsSafe(k)
    BY DEF KeyInv
  <2>2. CASE Creating(k) = {}
    BY <2>1, <2>2 DEF KeyIsSafe
  <2>3. CASE Creating(k) # {}
    BY <2>1, <2>3 DEF KeyIsSafe
  <2> QED BY <2>2, <2>3
<1> QED BY <1>1, <1>2, KeyStep, PTL DEF Spec
=============================================================================
