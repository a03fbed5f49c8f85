---------------------------- MODULE TaskManager -----------------------------
(***************************************************************************)
(* The task list of one session:                                           *)
(* crates/gestura-core-tasks/src/tasks.rs, TaskManager and TaskList.       *)
(*                                                                         *)
(* The process has one TaskManager, called from every thread: the commands *)
(* of the window, the orchestrator's observer, the agent's tools.  A       *)
(* mutation clones the cached list, changes the clone, writes the file and *)
(* then replaces the cache; no lock is held in between, so each of these   *)
(* is a step.  The file is emptied before it is written, and whoever reads *)
(* it meanwhile, or after a write that did not finish, cannot parse it.    *)
(* Operations that are made of several mutations keep the ones still to do *)
(* in `todo`, as the `?` after each ends them all.                         *)
(*                                                                         *)
(* Names, descriptions, metadata and sort orders are left out; a mutation  *)
(* that changes nothing else is "touch".                                   *)
(***************************************************************************)
EXTENDS Naturals, Sequences, SequencesExt

CONSTANTS
    Task,      \* ids (UUIDs: an id is never used twice)
    NoTask,
    Parent,    \* Task.parent_id, given when the task is created
    Caller,    \* threads
    Kinds,     \* the operations the instance calls
    MaxCalls   \* bound on the number of calls

Status == {"not_started", "blocked", "in_progress", "completed", "cancelled"}
Terminal == {"completed", "cancelled"}

\* Background jobs: "open" is any of queued, blocked, awaiting, running.
Job == {"none", "open", "ended"}

Kind == {"create", "delete", "status", "depend", "job", "focus", "touch",
         "find", "materialize", "list_open", "inspect", "examine", "pick",
         "unfocus", "replace"}
Operation == [kind : Kind, task : Task \cup {NoTask}, status : Status,
              on : Task \cup {NoTask}]

ASSUME TasksAssumption ==
    /\ NoTask \notin Task
    /\ IsFiniteSet(Task)
    /\ Parent \in [Task -> Task \cup {NoTask}]
\* A parent is older than its children: there is no circle of parents.
ASSUME ParentsAssumption ==
    \A set \in SUBSET Task : set # {} => \E x \in set : Parent[x] \notin set
ASSUME CallsAssumption == MaxCalls \in Nat

VARIABLES
    disk,      \* the list in the session's file
    file,      \* whether the file holds a list
    cache,     \* the cached list, when there is one
    cached,    \* whether there is one
    call,      \* what each thread is doing
    known,     \* the ids that have been given out
    snapshot,  \* the list a session checkpoint keeps
    calls      \* number of calls made (bound)

vars == <<disk, file, cache, cached, call, known, snapshot, calls>>

List == [live : SUBSET Task,              \* the tasks in the list
         status : [Task -> Status],
         blockedBy : [Task -> SUBSET Task],
         job : [Task -> Job],
         current : Task \cup {NoTask}]
EmptyList == [live |-> {},
              status |-> [t \in Task |-> "not_started"],
              blockedBy |-> [t \in Task |-> {}],
              job |-> [t \in Task |-> "none"],
              current |-> NoTask]

\* A task that is not in the list has no record.
Canonical(l) ==
    \A t \in Task \ l.live : /\ l.status[t] = "not_started"
                             /\ l.blockedBy[t] = {}
                             /\ l.job[t] = "none"

\* Not a list: nothing at all, or text that does not parse.
File == {"whole", "empty", "torn"}

CallAt == {"idle", "load", "ready", "save", "write", "publish"}
Call == [at : CallAt, todo : Seq(Operation), list : List]
NoCall == [at |-> "idle", todo |-> <<>>, list |-> EmptyList]

\* The lists that are kept, or about to be.
Lists == {disk, cache, snapshot} \cup {call[c].list : c \in Caller}

\* The current task is a task of the list, whoever deletes what meanwhile.
CurrentExists == \A l \in Lists : l.current \in l.live \cup {NoTask}

TypeOK ==
    /\ disk \in List
    /\ file \in File
    /\ cache \in List
    /\ cached \in BOOLEAN
    /\ call \in [Caller -> Call]
    /\ known \subseteq Task
    /\ snapshot \in List
    /\ calls \in 0..MaxCalls
    /\ \A l \in Lists : Canonical(l)
    /\ CurrentExists

-----------------------------------------------------------------------------
(* TaskList: queries *)

\* Tasks whose chain of parents, through tasks of the list, reaches t.
Descendants(l, t) ==
    LET below[x \in Task] ==
            /\ x \in l.live
            /\ \/ Parent[x] = t
               \/ Parent[x] \in l.live /\ below[Parent[x]]
    IN  {x \in Task : below[x]}

\* ancestor_ids: the nearest first.  (Ids that are not in the list any more
\* are skipped by the caller.)
Ancestors(l, t) ==
    LET up[x \in Task] == IF Parent[x] \in l.live
                          THEN <<Parent[x]>> \o up[Parent[x]]
                          ELSE <<>>
    IN  up[t]

\* The ancestors of t.
Above(l, t) == Range(Ancestors(l, t))

OpenBelow(l, t) == {x \in Descendants(l, t) : l.status[x] \notin Terminal}

\* is_task_blocked: a dependency that has been deleted blocks for ever.
IsBlocked(l, t) ==
    \E d \in l.blockedBy[t] : d \notin l.live \/ l.status[d] \notin Terminal

\* depends_on_transitively, as a depth-first search decides it: `target` is in
\* every set that contains `start` and the dependencies of its members.
SelfContained(l, set) == \A x \in set : l.blockedBy[x] \subseteq set
DependsOn(l, start, target) ==
    \A set \in SUBSET Task :
        start \in set /\ SelfContained(l, set) => target \in set

\* Variant: the search starts at the wrong end.
ClosesBackwards(l, t, on) == DependsOn(l, t, on)

\* The cycle that the dependency of t on `on` would close.
ClosesCycle(l, t, on) == DependsOn(l, on, t)

\* Variant: open descendants do not matter.
CanCompleteFirst(l, t) == ~IsBlocked(l, t) /\ l.job[t] # "open"

\* validate_status_transition to Completed.
CanComplete(l, t) ==
    /\ ~IsBlocked(l, t)
    /\ OpenBelow(l, t) = {}
    /\ l.job[t] # "open"

-----------------------------------------------------------------------------
(* TaskList: mutations.  Every mutation returns a new list. *)

\* set_status and clear_current_task_if_terminal
WithStatus(l, t, s) ==
    [l EXCEPT !.status[t] = s,
              !.current = IF @ = t /\ s \in Terminal THEN NoTask ELSE @]

\* One round of reconcile_ancestor_statuses.
Reconciled(l, a) ==
    LET next == IF CanComplete(l, a) THEN "completed"
                ELSE IF IsBlocked(l, a) THEN "blocked" ELSE "in_progress"
    IN  IF l.status[a] \in {"cancelled", next} THEN l
        ELSE WithStatus(l, a, next)

\* Variant: the ancestors are left as they are.
StatusUpdatedOnly(l, t, s) == WithStatus(l, t, s)

\* update_task_status
StatusUpdated(l, t, s) ==
    LET above == Ancestors(l, t)
        after[i \in 0..Len(above)] ==
            IF i = 0 THEN WithStatus(l, t, s) ELSE Reconciled(after[i - 1], above[i])
    IN  after[Len(above)]

\* The statuses of u are all that changes, but that the current task may be
\* cleared with them.
WithStatuses(l, u) ==
    [l EXCEPT !.status = u.status,
              !.current = IF u.current = NoTask THEN NoTask ELSE @]

\* Variant: the pointer to the current task is left alone.
RemovedOnly(l, t) ==
    [l EXCEPT !.live = @ \ {t}, !.status[t] = "not_started",
              !.blockedBy[t] = {}, !.job[t] = "none"]

\* remove_task: nobody else's parent or dependencies are touched.
Removed(l, t) ==
    [l EXCEPT !.live = @ \ {t}, !.status[t] = "not_started",
              !.blockedBy[t] = {}, !.job[t] = "none",
              !.current = IF @ = t THEN NoTask ELSE @]

\* The children of t that a breakdown creates: the ones that exist are reused.
ToMaterialize(t) == {x \in Task : Parent[x] = t} \ known

\* Whether the mutation o of l is accepted.  A breakdown has looked for its
\* parent in an earlier list.
Accepts(l, o) ==
    CASE o.kind \in {"create", "replace", "materialize"} -> TRUE
      [] o.kind = "focus" -> o.task \in l.live \cup {NoTask}
      [] o.kind = "status" -> /\ o.task \in l.live
                              /\ o.status = "completed" => CanComplete(l, o.task)
      [] o.kind = "depend" -> /\ o.task # o.on
                              /\ {o.task, o.on} \subseteq l.live
                              /\ ~ClosesCycle(l, o.task, o.on)
      [] OTHER -> o.task \in l.live

\* The list it leads to.
Mutated(l, o) ==
    CASE o.kind = "create" -> [l EXCEPT !.live = @ \cup {o.task}]
      [] o.kind = "materialize" -> [l EXCEPT !.live = @ \cup ToMaterialize(o.task)]
      [] o.kind = "delete" -> Removed(l, o.task)
      [] o.kind = "status" -> WithStatuses(l, StatusUpdated(l, o.task, o.status))
      [] o.kind = "depend" -> [l EXCEPT !.blockedBy[o.task] = @ \cup {o.on}]
      [] o.kind = "job" -> [l EXCEPT !.job[o.task] =
                                IF o.status \in Terminal THEN "ended" ELSE "open"]
      [] o.kind = "focus" -> [l EXCEPT !.current = o.task]
      [] o.kind = "replace" -> snapshot
      [] OTHER -> l

-----------------------------------------------------------------------------
(* The operations of TaskManager, as the mutations and queries they make *)

Op(k, t) == [kind |-> k, task |-> t, status |-> "not_started", on |-> NoTask]
SetStatus(t, s) == [Op("status", t) EXCEPT !.status = s]

\* What a query leads to when it has looked at the list.
Queries == {"find", "list_open", "inspect", "examine", "pick", "unfocus"}

\* descendants: depth first, a task before those below it, and nothing between
\* two tasks below another that is not below it too.  (Siblings are in their
\* sort order, which is left out.)
InOrder(l, s) ==
    \A i, j \in DOMAIN s : i < j =>
        /\ s[j] \notin Above(l, s[i])
        /\ \A k \in (i + 1)..j :
              ({s[i]} \cup Above(l, s[i])) \cap Above(l, s[j]) \subseteq Above(l, s[k])

Orders(l, set) == {s \in SetToSeqs(set) : InOrder(l, s)}

Expanded(l, o, open) ==
    CASE o.kind = "find" -> <<>>     \* get_task
      [] o.kind = "list_open" ->     \* cancel_open_descendants
           [i \in DOMAIN open |-> SetStatus(open[i], "cancelled")]
      [] o.kind = "inspect" ->       \* finalize_...: the status, ...
           <<[Op("examine", o.task) EXCEPT !.status = l.status[o.task]]>>
      [] o.kind = "examine" ->       \* ... then the descendants
           IF open = <<>>
           THEN <<SetStatus(o.task, "completed"), Op("unfocus", o.task)>>
           ELSE IF o.status \in Terminal THEN <<>>
           ELSE <<SetStatus(o.task, "in_progress")>>
      [] o.kind = "unfocus" ->
           IF l.current = o.task THEN <<Op("focus", NoTask)>> ELSE <<>>
      [] o.kind = "pick" ->          \* the first task of a plan
           IF open = <<>>
           THEN <<Op("focus", o.task), Op("touch", o.task)>>
           ELSE <<SetStatus(Head(open), "in_progress"),
                  Op("focus", Head(open)), Op("touch", o.task)>>

\* The calls of the instance: create_task, delete_task, update_task_status,
\* add_task_dependency, set_task_background_job, set_current_task_id,
\* replace_task_list, record_task_result, cancel_open_descendants,
\* finalize_tracked_task_after_agent_run, initialize_auto_tracked_execution_plan.
Calls(t) ==
    {<<Op(k, t)>> : k \in {"create", "delete", "focus"}}
    \cup {<<SetStatus(t, s)>> : s \in Status}
    \cup {<<[Op("depend", t) EXCEPT !.on = u]>> : u \in Task}
    \cup {<<[Op("job", t) EXCEPT !.status = s]>> : s \in {"in_progress", "cancelled"}}
    \cup {<<Op("replace", NoTask)>>}
    \cup {<<Op("touch", t), SetStatus(t, s)>> : s \in Terminal}
    \cup {<<Op("list_open", t)>>, <<Op("inspect", t)>>}
    \cup {<<Op("create", t), SetStatus(t, "in_progress"), Op("find", t),
            Op("materialize", t), Op("pick", t)>>}

-----------------------------------------------------------------------------
(* Threads *)

Init ==
    /\ \E live \in SUBSET Task :
          /\ \A t \in live : Parent[t] # NoTask => Parent[t] \in live
          /\ disk = [EmptyList EXCEPT !.live = live]
          /\ known = live
    /\ file = "whole"
    /\ cache = EmptyList
    /\ cached = FALSE
    /\ call = [c \in Caller |-> NoCall]
    /\ snapshot = EmptyList
    /\ calls = 0

Idle(c) == call[c].at = "idle" /\ call[c].todo = <<>>
Going(c, at) == call[c].at = at /\ call[c].todo # <<>>

Begin(c, todo) ==
    /\ Idle(c)
    /\ calls < MaxCalls
    /\ calls' = calls + 1
    /\ call' = [call EXCEPT ![c].todo = todo]
    /\ IF Head(todo).kind = "create"
       THEN Head(todo).task \notin known /\ known' = known \cup {Head(todo).task}
       ELSE UNCHANGED known
    /\ UNCHANGED <<disk, file, cache, cached, snapshot>>

\* Only replace_task_list does without the list.
NeedsList(c) == Head(call[c].todo).kind # "replace"

\* get_or_load, when the list is not cached: it is read from the file ...
Load(c) ==
    /\ Going(c, "idle")
    /\ ~cached /\ NeedsList(c)
    /\ file = "whole"
    /\ call' = [call EXCEPT ![c].at = "load", ![c].list = disk]
    /\ UNCHANGED <<disk, file, cache, cached, known, snapshot, calls>>

\* ... which does not parse: the call fails ...
LoadFails(c) ==
    /\ Going(c, "idle")
    /\ ~cached /\ NeedsList(c)
    /\ file # "whole"
    /\ call' = [call EXCEPT ![c] = NoCall]
    /\ UNCHANGED <<disk, file, cache, cached, known, snapshot, calls>>

\* ... and put into the cache, over whatever has been put there since.
Fill(c) ==
    /\ Going(c, "load")
    /\ cache' = call[c].list
    /\ cached' = TRUE
    /\ call' = [call EXCEPT ![c].at = "ready"]
    /\ UNCHANGED <<disk, file, known, snapshot, calls>>

\* The next operation looks at l and is done with it, fails (which ends the
\* call) or has a new list to save.
Operate(c, l) ==
    LET o == Head(call[c].todo)
        later == Tail(call[c].todo)
        on(at, todo, list) ==
            call' = [call EXCEPT ![c] = [at |-> at, todo |-> todo, list |-> list]]
    IN  /\ IF o.kind \in Queries
           THEN IF o.task \in l.live
                THEN \E open \in Orders(l, OpenBelow(l, o.task)) :
                        on("idle", Expanded(l, o, open) \o later, EmptyList)
                ELSE on("idle", <<>>, EmptyList)
           ELSE IF ~Accepts(l, o) THEN on("idle", <<>>, EmptyList)
           ELSE IF o.kind = "materialize" /\ ToMaterialize(o.task) = {}
           THEN on("idle", later, EmptyList)
           ELSE on("save", call[c].todo, Mutated(l, o))
        /\ known' = IF o.kind = "materialize" /\ Accepts(l, o)
                    THEN known \cup ToMaterialize(o.task) ELSE known
        /\ UNCHANGED <<disk, file, cache, cached, snapshot, calls>>

OnCached(c) ==
    /\ Going(c, "idle")
    /\ cached \/ ~NeedsList(c)
    /\ Operate(c, cache)
OnLoaded(c) == Going(c, "ready") /\ Operate(c, call[c].list)

\* update_and_save, save_to_disk: the file is opened and emptied ...
Truncate(c) ==
    /\ Going(c, "save")
    /\ file' = "empty"
    /\ disk' = EmptyList
    /\ call' = [call EXCEPT ![c].at = "write"]
    /\ UNCHANGED <<cache, cached, known, snapshot, calls>>

\* ... and written from its start, over what another thread may have written
\* since: when that was longer, its end is still there.
Save(c) ==
    /\ Going(c, "write")
    /\ \/ /\ file' = "whole"
          /\ disk' = call[c].list
       \/ /\ file # "empty"
          /\ file' = "torn"
          /\ disk' = EmptyList
    /\ call' = [call EXCEPT ![c].at = "publish"]
    /\ UNCHANGED <<cache, cached, known, snapshot, calls>>

\* The file cannot be opened, or not be written to its end.
SaveFails(c) ==
    /\ Going(c, "save") \/ Going(c, "write")
    /\ \/ UNCHANGED <<disk, file>>
       \/ /\ call[c].at = "write"
          /\ file' = "torn"
          /\ disk' = EmptyList
    /\ call' = [call EXCEPT ![c] = NoCall]
    /\ UNCHANGED <<cache, cached, known, snapshot, calls>>

\* ... then the cache.
Publish(c) ==
    /\ Going(c, "publish")
    /\ cache' = call[c].list
    /\ cached' = TRUE
    /\ call' = [call EXCEPT ![c] = [NoCall EXCEPT !.todo = Tail(call[c].todo)]]
    /\ UNCHANGED <<disk, file, known, snapshot, calls>>

\* A session checkpoint keeps the list (load_task_list).
Checkpoint ==
    /\ "replace" \in Kinds
    /\ cached
    /\ snapshot' = cache
    /\ UNCHANGED <<disk, file, cache, cached, call, known, calls>>

\* The process ends, at any step, and is started again.
Restart ==
    /\ cached' = FALSE
    /\ cache' = EmptyList
    /\ call' = [c \in Caller |-> NoCall]
    /\ UNCHANGED <<disk, file, known, snapshot, calls>>

Next ==
    \/ \E c \in Caller :
          \/ \E t \in Task : \E todo \in Calls(t) :
                Head(todo).kind \in Kinds /\ Begin(c, todo)
          \/ Load(c) \/ LoadFails(c) \/ Fill(c) \/ OnCached(c) \/ OnLoaded(c)
          \/ Truncate(c) \/ Save(c) \/ SaveFails(c) \/ Publish(c)
    \/ Checkpoint
    \/ Restart

Spec == Init /\ [][Next]_vars

-----------------------------------------------------------------------------
(* Properties *)

Acyclic(l) == \A t \in Task : \A d \in l.blockedBy[t] : ~DependsOn(l, d, t)

\* No interleaving of the threads, no lost update and no restored checkpoint
\* makes tasks wait for each other in a circle (add_dependency checks the
\* clone it changes).
DependenciesAcyclic == \A l \in Lists : Acyclic(l)

\* Not so in the code (unreadable.cfg): a list that has been saved can be read,
\* but for the moment in which somebody writes it.
ListIsReadable ==
    file = "whole" \/ \E c \in Caller : call[c].at = "write"

\* The list the next operation of c is about, when it is a mutation.
Base(c) == IF call[c].at = "ready" THEN call[c].list ELSE cache
Mutates(c) == call[c].at \in {"idle", "ready"} /\ call'[c].at = "save"

\* A mutation completes a task, the one it is asked to complete or an
\* ancestor, only when the tasks below it are closed, its job has ended and it
\* waits for nothing; except that an ancestor it waited for may be opened
\* again by the same mutation.
CompletionIsEarned ==
    [][\A c \in Caller :
         Mutates(c) /\ Head(call[c].todo).kind # "replace" =>
           \A t \in Task :
             LET l == call'[c].list
                 completed == l.status[t] = "completed" /\ t \in l.live
             IN  completed /\ Base(c).status[t] # "completed" =>
                   /\ OpenBelow(l, t) = {}
                   /\ l.job[t] # "open"
                   /\ \A d \in l.blockedBy[t] :
                         \/ d \in l.live /\ l.status[d] \in Terminal
                         \/ \E i \in DOMAIN Ancestors(l, t) : Ancestors(l, t)[i] = d]_vars

\* A task that is opened opens its completed ancestors with it.
ReopeningPropagates ==
    [][\A c \in Caller :
         LET o == Head(call[c].todo)
             l == call'[c].list
         IN  Mutates(c) /\ o.kind = "status" /\ o.status \notin Terminal =>
               \A i \in DOMAIN Ancestors(l, o.task) :
                   l.status[Ancestors(l, o.task)[i]] # "completed"]_vars

\* Not so in the code (lost_update.cfg): a mutation takes effect on the list that
\* is current when it does.
UpdatesAreKept ==
    [][\A c \in Caller :
         call[c].at = "publish" /\ call'[c].at = "idle" /\ cached' =>
           cache' = Mutated(cache, Head(call[c].todo))]_vars
=============================================================================
