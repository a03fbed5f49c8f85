------------------------ MODULE SupervisorHierarchy -------------------------
(***************************************************************************)
(* Supervisor runs with child runs, and how the state of a child reaches   *)
(* its parent: crates/gestura-core/src/orchestrator.rs,                    *)
(*   create_child_supervisor_run, persist_run_with_hierarchy_sync,         *)
(*   sync_parent_run_from_child, recalculate_run_status,                   *)
(* and what a restart makes of the run files (orchestrator/recovery.rs).   *)
(*                                                                         *)
(* A handler changes a run under the lock of supervisor_runs and keeps a   *)
(* copy of it.  After the lock is released it writes the copy, takes the   *)
(* lock again to roll the run up into its parent, and writes the parent.   *)
(* Other handlers come in between.  What moves a task from state to state  *)
(* is the subject of Orchestrator: here a handler may do so at any time.   *)
(*                                                                         *)
(* A run keeps a list of summaries of its children.  It is modelled as     *)
(* `entry`, the first one of each child, which a roll-up replaces, and     *)
(* `extra`, those that were appended while there was one already.          *)
(***************************************************************************)
EXTENDS Naturals

CONSTANTS
    Run,         \* run ids
    NoRun,
    Task,        \* task ids
    RunOf,       \* the run each task is delegated to
    Moves,       \* <<task, state>>: the states that handlers give each task
    Fragile,     \* tasks whose environment a reconciliation may have to repair
    Chosen,      \* ids that callers choose; the others are UUIDs
    Requests,    \* <<child, parent>>: the child runs that callers ask for
    Handler,     \* handlers under way at the same time
    MaxBlocks,   \* bound on the handlers in all
    MaxCrashes   \* bound on the crashes

\* SupervisorTaskState; "waiting" is blocked, or pending at some gate.
State == {"queued", "running", "waiting", "completed", "failed", "cancelled"}

ASSUME RunsAssumption ==
    /\ NoRun \notin Run
    /\ RunOf \in [Task -> Run]
    /\ Moves \subseteq Task \X State
    /\ Fragile \subseteq Task
    /\ Chosen \subseteq Run
    /\ Requests \subseteq Run \X Run
    /\ \A q \in Requests : q[1] = q[2] => q[1] \in Chosen
ASSUME BoundsAssumption == MaxBlocks \in Nat /\ MaxCrashes \in Nat

VARIABLES
    run,       \* supervisor_runs
    file,      \* the file of each run
    handler,   \* the handlers under way
    used,      \* ids that have been given to a run, or to one being created
    behind,    \* history: runs that changed, with nobody left to roll them up
    blocks, crashes   \* their numbers so far (bounds)

vars == <<run, file, handler, used, behind, blocks, crashes>>

TaskState == State \cup {"absent"}

\* SupervisorRunStatus
RunStatus == {"draft", "running", "waiting", "completed", "failed", "cancelled"}

\* ChildSupervisorRunSummary
Summary == [status : RunStatus, attention : BOOLEAN]
NoEntry == [status |-> "none", attention |-> FALSE]

\* SupervisorRun; a run that is not known has no data.
RunRecord == [known : BOOLEAN, parent : Run \cup {NoRun},
              tasks : [Task -> TaskState],
              entry : [Run -> Summary \cup {NoEntry}], extra : SUBSET Summary]
Unknown == [known |-> FALSE, parent |-> NoRun,
            tasks |-> [t \in Task |-> "absent"],
            entry |-> [r \in Run |-> NoEntry], extra |-> {}]
NewRun(p) == [Unknown EXCEPT !.known = TRUE, !.parent = p]

\* At: "free" and "accepted" are the steps of create_child_supervisor_run,
\* the others what the handler does next.  todo: the copies it has to write
\* (that of a new child is NewRun(parent)).
At == {"idle", "free", "accepted", "child", "parent", "write", "sync", "reconciled"}
HandlerRecord == [at : At, run : Run \cup {NoRun}, parent : Run \cup {NoRun},
                  todo : [Run -> RunRecord]]
Nothing == [r \in Run |-> Unknown]
Idle == [at |-> "idle", run |-> NoRun, parent |-> NoRun, todo |-> Nothing]

Typed ==
    /\ run \in [Run -> RunRecord]
    /\ file \in [Run -> RunRecord]
    /\ handler \in [Handler -> HandlerRecord]
    /\ \A h \in Handler : /\ handler[h].at \notin {"idle", "reconciled"}
                               => handler[h].run \in Run
                          /\ handler[h].at \in {"free", "accepted", "child", "parent"}
                               => handler[h].parent \in Run
    /\ used \subseteq Run
    /\ behind \subseteq Run
    /\ blocks \in 0..MaxBlocks
    /\ crashes \in 0..MaxCrashes

\* The types, and that a run with a file is in memory: it is put there before
\* it is written, and a restart loads every file that it can read.
TypeOK == Typed /\ \A r \in Run : file[r].known => run[r].known

Init ==
    /\ run = Nothing
    /\ file = Nothing
    /\ handler = [h \in Handler |-> Idle]
    /\ used = {}
    /\ behind = {}
    /\ blocks = 0
    /\ crashes = 0

-----------------------------------------------------------------------------
(* The status of a run *)

Listed(x) == ({x.entry[c] : c \in Run} \ {NoEntry}) \cup x.extra
Own(x) == {x.tasks[t] : t \in Task} \ {"absent"}

\* recalculate_run_status
StatusOf(x) ==
    LET own  == Own(x)
        kids == {k.status : k \in Listed(x)}
        All(set) == (own \cup kids) \subseteq set
    IN  CASE (own \cup kids) = {} -> "draft"
          [] (own \cup kids) # {} /\ All({"cancelled"}) -> "cancelled"
          [] ~All({"cancelled"}) /\ (own \cap {"queued", "running"} # {} \/ "running" \in kids)
               -> "running"
          [] OTHER ->
               IF \/ "waiting" \in (own \cup kids)
                  \/ \E k \in Listed(x) : k.attention  THEN "waiting"
               ELSE IF "failed" \in (own \cup kids)      THEN "failed"
               ELSE IF All({"completed", "cancelled"}) THEN "completed"
               ELSE "draft"

\* build_child_run_summary, with run_requires_attention
SummaryOf(x) ==
    [status |-> StatusOf(x),
     attention |-> \/ Own(x) \cap {"waiting", "failed"} # {}
                   \/ \E k \in Listed(x) : k.attention]

\* upsert_child_run_summary
RolledUp(x, c, summary) == [x EXCEPT !.entry[c] = summary]

\* parent.child_runs.push(...)
Appended(x, c, summary) ==
    IF x.entry[c] = NoEntry THEN [x EXCEPT !.entry[c] = summary]
    ELSE [x EXCEPT !.extra = @ \cup {summary}]

\* Variant: the depth is not tested.
AcceptsDeep(x) ==
    /\ x.known
    /\ StatusOf(x) \notin {"completed", "cancelled"}

\* ensure_parent_run_accepts_child.  The depth of a run is 1 if it has a
\* parent and 0 otherwise, and MAX_CHILD_SUPERVISOR_DEPTH is 1.
Accepts(x) ==
    /\ x.known
    /\ x.parent = NoRun
    /\ StatusOf(x) \notin {"completed", "cancelled"}

\* synchronize_run_hierarchy_snapshots: what a query shows of r, among the runs
\* it has collected.
Viewed(all, r) ==
    [all[r] EXCEPT !.extra = {},
        !.entry = [c \in Run |-> IF all[c].known /\ all[c].parent = r
                                 THEN SummaryOf(all[c]) ELSE NoEntry]]

\* get_supervisor_run: from memory, else from the files.
Seen(r) == IF run[r].known THEN Viewed(run, r) ELSE Viewed(file, r)

-----------------------------------------------------------------------------
(* Handlers *)

\* The handlers that are about to insert r: its id is out, but nobody else has
\* it when it is a UUID.
Creating(r) == {h \in Handler : handler[h].at \in {"free", "accepted"} /\ handler[h].run = r}
Knows(r) == r \in Chosen \/ Creating(r) = {}

Copy(r, x) == [Nothing EXCEPT ![r] = x]
Goes(h, at) == handler' = [handler EXCEPT ![h].at = at]
Ends(h) == handler' = [handler EXCEPT ![h] = Idle]

\* The first block of handler h.
Begins(h) ==
    /\ handler[h].at = "idle"
    /\ blocks < MaxBlocks
    /\ blocks' = blocks + 1
    /\ UNCHANGED crashes

\* A block that changes r and leaves a copy to be written and rolled up.
Changes(h, r, x) ==
    /\ run' = [run EXCEPT ![r] = x]
    /\ handler' = [handler EXCEPT ![h] = [at |-> "write", run |-> r, parent |-> NoRun,
                                          todo |-> Copy(r, x)]]

\* delegate_task: the run is created, without a parent, with its first task.
Delegate(h, t) ==
    LET r == RunOf[t]
        x == IF run[r].known THEN run[r] ELSE NewRun(NoRun)
    IN  /\ Begins(h)
        /\ Knows(r)
        /\ x.tasks[t] = "absent"
        /\ \E s \in {"queued", "waiting"} :
              <<t, s>> \in Moves /\ Changes(h, r, [x EXCEPT !.tasks[t] = s])
        /\ used' = used \cup {r}
        /\ UNCHANGED <<file, behind>>

\* A block of any other handler of the task's lifecycle: a task of the run
\* gets another state, and waiting ones may be queued (collect_ready_tasks).
Change(h, t) ==
    LET r == RunOf[t]
    IN  /\ Begins(h)
        /\ run[r].tasks[t] # "absent"
        /\ \E s \in State, ready \in SUBSET {u \in Task \ {t} : run[r].tasks[u] = "waiting"} :
              /\ <<t, s>> \in Moves
              /\ Changes(h, r, [run[r] EXCEPT !.tasks =
                     [u \in Task |-> IF u = t THEN s
                                     ELSE IF u \in ready THEN "queued" ELSE @[u]]])
        /\ UNCHANGED <<file, used, behind>>

\* persist_run_with_hierarchy_sync: the copy is written, whatever has become of
\* the run meanwhile.
Write(h) ==
    /\ handler[h].at = "write"
    /\ file' = [file EXCEPT ![handler[h].run] = handler[h].todo[handler[h].run]]
    /\ handler' = [handler EXCEPT ![h].at = "sync", ![h].todo = Nothing]
    /\ UNCHANGED <<run, used, behind, blocks, crashes>>

\* Variant: the child as it was last written.
SyncWritten(h) ==
    LET c == handler[h].run
        p == run[c].parent
    IN  /\ handler[h].at = "sync"
        /\ IF p # NoRun /\ run[p].known
           THEN LET x == RolledUp(run[p], c, SummaryOf(file[c]))
                IN  /\ run' = [run EXCEPT ![p] = x]
                    /\ handler' = [handler EXCEPT ![h].at = "parent", ![h].parent = p,
                                                  ![h].todo = Copy(p, x)]
                    /\ behind' = behind \ {c}
           ELSE Ends(h) /\ UNCHANGED <<run, behind>>
        /\ UNCHANGED <<file, used, blocks, crashes>>

\* sync_parent_run_from_child: the child as it is now.  A parent that is not in
\* memory is an error, which ends the handler.
Sync(h) ==
    LET c == handler[h].run
        p == run[c].parent
    IN  /\ handler[h].at = "sync"
        /\ IF p # NoRun /\ run[p].known
           THEN LET x == RolledUp(run[p], c, SummaryOf(run[c]))
                IN  /\ run' = [run EXCEPT ![p] = x]
                    /\ handler' = [handler EXCEPT ![h].at = "parent", ![h].parent = p,
                                                  ![h].todo = Copy(p, x)]
                    /\ behind' = behind \ {c}
           ELSE Ends(h) /\ UNCHANGED <<run, behind>>
        /\ UNCHANGED <<file, used, blocks, crashes>>

WriteParent(h) ==
    /\ handler[h].at = "parent"
    /\ file' = [file EXCEPT ![handler[h].parent] = handler[h].todo[handler[h].parent]]
    /\ Ends(h)
    /\ UNCHANGED <<run, used, behind, blocks, crashes>>

\* A write fails: nothing of the handler that comes after it is done.
WriteFails(h) ==
    /\ handler[h].at \in {"write", "child", "parent", "reconciled"}
    /\ Ends(h)
    /\ behind' = IF handler[h].at = "write" THEN behind \cup {handler[h].run} ELSE behind
    /\ UNCHANGED <<run, file, used, blocks, crashes>>

-----------------------------------------------------------------------------
(* create_child_supervisor_run *)

\* There is no run with this id, in memory or on disk.
CheckId(h, c, p) ==
    /\ Begins(h)
    /\ c \in Chosen \/ c \notin used
    /\ ~run[c].known /\ ~file[c].known
    /\ handler' = [handler EXCEPT ![h] = [at |-> "free", run |-> c, parent |-> p,
                                          todo |-> Nothing]]
    /\ used' = used \cup {c}
    /\ UNCHANGED <<run, file, behind>>

\* The parent, as a query shows it, accepts a child.
CheckParent(h) ==
    /\ handler[h].at = "free"
    /\ IF Accepts(Seen(handler[h].parent)) THEN Goes(h, "accepted") ELSE Ends(h)
    /\ UNCHANGED <<run, file, used, behind, blocks, crashes>>

\* Variant: the child is not put into memory.
InsertUnlisted(h) ==
    LET c == handler[h].run
        p == handler[h].parent
        x == Appended(run[p], c, SummaryOf(NewRun(p)))
    IN  /\ handler[h].at = "accepted"
        /\ IF Accepts(run[p])
           THEN /\ run' = [run EXCEPT ![p] = x]
                /\ handler' = [handler EXCEPT ![h].at = "child", ![h].todo = Copy(p, x)]
           ELSE Ends(h) /\ UNCHANGED run
        /\ UNCHANGED <<file, used, behind, blocks, crashes>>

\* Under the lock: the parent is looked at again, the id is not.  Nothing keeps
\* the two apart: a run that was created under the id after CheckId, and is also
\* the parent, is replaced by its own child.
Insert(h) ==
    LET c == handler[h].run
        p == handler[h].parent
        x == Appended(run[p], c, SummaryOf(NewRun(p)))
    IN  /\ handler[h].at = "accepted"
        /\ IF Accepts(run[p])
           THEN /\ run' = [run EXCEPT ![p] = x, ![c] = NewRun(p)]
                /\ handler' = [handler EXCEPT ![h].at = "child", ![h].todo = Copy(p, x)]
           ELSE Ends(h) /\ UNCHANGED run
        /\ UNCHANGED <<file, used, behind, blocks, crashes>>

\* The child is written first, then the parent (WriteParent).
WriteChild(h) ==
    /\ handler[h].at = "child"
    /\ file' = [file EXCEPT ![handler[h].run] = NewRun(handler[h].parent)]
    /\ Goes(h, "parent")
    /\ UNCHANGED <<run, used, behind, blocks, crashes>>

-----------------------------------------------------------------------------
(* Reconciliation, crash and restart *)

\* Tasks that run, and those whose environment is gone or still leased
\* (reconcile_environment_record), are blocked.
Interrupted(x, hurt) ==
    {t \in Task : \/ x.tasks[t] = "running"
                  \/ x.tasks[t] # "absent" /\ t \in hurt}

\* The run after that, and after the resumption from checkpoints, which queues
\* tasks that are blocked by now.
Recovered(x, hurt, resumed) ==
    [x EXCEPT !.tasks = [t \in Task |->
        IF t \in resumed /\ (t \in Interrupted(x, hurt) \/ @[t] = "waiting") THEN "queued"
        ELSE IF t \in Interrupted(x, hurt) THEN "waiting" ELSE @[t]]]

\* reconcile_persisted_state on demand: tasks are blocked, in all runs at once,
\* and their runs are written but not rolled up.
Reconcile(h) ==
    \E hurt \in SUBSET Fragile :
        LET changed == {r \in Run : Interrupted(run[r], hurt) # {}}
            after == [r \in Run |-> Recovered(run[r], hurt, {})]
        IN  /\ Begins(h)
            /\ changed # {}
            /\ run' = after
            /\ handler' = [handler EXCEPT ![h] =
                  [at |-> "reconciled", run |-> NoRun, parent |-> NoRun,
                   todo |-> [r \in Run |-> IF r \in changed THEN after[r] ELSE Unknown]]]
            /\ behind' = behind \cup changed
            /\ UNCHANGED <<file, used>>

WriteReconciled(h) ==
    /\ handler[h].at = "reconciled"
    /\ \E r \in Run :
          /\ handler[h].todo[r].known
          /\ file' = [file EXCEPT ![r] = handler[h].todo[r]]
          /\ LET rest == [handler[h].todo EXCEPT ![r] = Unknown]
             IN  IF rest = Nothing THEN Ends(h)
                 ELSE handler' = [handler EXCEPT ![h].todo = rest]
    /\ UNCHANGED <<run, used, behind, blocks, crashes>>

\* The files that a crash may cut in two: their next load skips them.
Torn ==
    UNION {CASE handler[h].at \in {"write", "child"} -> {handler[h].run}
             [] handler[h].at = "parent" -> {handler[h].parent}
             [] handler[h].at = "reconciled" -> {r \in Run : handler[h].todo[r].known}
             [] OTHER -> {} : h \in Handler}

Stored == {t \in Task : file[RunOf[t]].tasks[t] # "absent"}

\* bootstrap_persisted_state: the runs are loaded and reconciled; tasks with a
\* usable checkpoint are queued again.  Summaries stay as they were written.
Restart ==
    /\ crashes < MaxCrashes
    /\ crashes' = crashes + 1
    /\ \E torn \in SUBSET Torn, hurt \in SUBSET Fragile, resumed \in SUBSET Stored :
          run' = [r \in Run |-> IF r \in torn THEN Unknown
                                ELSE Recovered(file[r], hurt, resumed)]
    /\ file' = run'
    /\ handler' = [h \in Handler |-> Idle]
    /\ behind' = Run
    /\ UNCHANGED <<used, blocks>>

-----------------------------------------------------------------------------
(* The specification *)

Step(h) ==
    \/ Write(h) \/ Sync(h) \/ WriteParent(h) \/ WriteFails(h)
    \/ CheckParent(h) \/ Insert(h) \/ WriteChild(h) \/ WriteReconciled(h)

Next ==
    \/ \E h \in Handler :
          \/ \E t \in Task : Delegate(h, t) \/ Change(h, t)
          \/ \E q \in Requests : CheckId(h, q[1], q[2])
          \/ Reconcile(h)
          \/ Step(h)
    \/ Restart

Spec == Init /\ [][Next]_vars

-----------------------------------------------------------------------------
(* Properties *)

\* What the parent of a run shows of it is what it is, however many handlers
\* of the run and of its siblings roll up at the same time, unless one of the
\* run's handlers is still to do so, or none is left that will ("when a child
\* run changes, refresh the parent summary/status", docs/DEVELOPER_GUIDE.md).
\* Runs whose id a caller may choose are left out: another run may replace them.
Refreshing(c) == \E h \in Handler : handler[h].run = c /\ handler[h].at \in {"write", "sync"}
RollUpAgrees ==
    \A c \in Run \ (Chosen \cup behind) :
        LET p == run[c].parent
        IN  p \in Run \ Chosen /\ run[p].known /\ ~Refreshing(c)
              => run[p].entry[c] = SummaryOf(run[c])

\* get_supervisor_run_ancestry follows the parents of a run, among the runs in
\* memory and on disk, until one has none.  Whatever runs are created with what
\* ids at the same time, and whichever files survive a crash, two or more of them
\* form no circle; a single one does only if a caller asked for it.
ParentOf(r) == IF run[r].known THEN run[r].parent ELSE file[r].parent
CirclesAreAskedFor ==
    \A set \in SUBSET Run : set # {} =>
        \E r \in set : \/ ParentOf(r) \notin set
                       \/ ParentOf(r) = r /\ <<r, r>> \in Requests

\* The ancestry of every run ends.  It does not hold where a caller names a run
\* as its own parent.
AncestryEnds ==
    \A set \in SUBSET Run : set # {} => \E r \in set : ParentOf(r) \notin set

\* A child run creates no grandchildren (docs/DEVELOPER_GUIDE.md).  It holds
\* where no caller chooses an id.
NoGrandchildren ==
    \A r \in Run : ParentOf(r) # NoRun => ParentOf(ParentOf(r)) = NoRun

\* A run that exists is not replaced by another one with its id.
NothingIsReplaced ==
    [][\A r \in Run : run[r].known /\ crashes' = crashes
          => /\ run'[r].parent = run[r].parent
             /\ \A t \in Task : run[r].tasks[t] # "absent" => run'[r].tasks[t] # "absent"]_vars

\* The parent of a run is loaded whenever the run is: without it every handler
\* of the run ends with an error.
ParentIsLoaded ==
    \A r \in Run : run[r].parent # NoRun => run[run[r].parent].known
=============================================================================
