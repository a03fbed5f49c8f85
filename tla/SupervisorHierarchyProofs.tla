--------------------- MODULE SupervisorHierarchyProofs ----------------------
(***************************************************************************)
(* Theorems about SupervisorHierarchy, for every set of runs, tasks,       *)
(* requests and handlers and every number of blocks and crashes.           *)
(***************************************************************************)
EXTENDS SupervisorHierarchy, TLAPS

-----------------------------------------------------------------------------
(* Run records *)

LEMMA UnknownFacts ==
    /\ Unknown \in RunRecord
    /\ Unknown.known = FALSE
    /\ Unknown.parent = NoRun
    /\ \A c \in Run : Unknown.entry[c] = NoEntry
BY DEF Unknown, RunRecord, TaskState

LEMMA NewRunFacts ==
    ASSUME NEW q \in Run \cup {NoRun}
    PROVE  /\ NewRun(q) \in RunRecord
           /\ NewRun(q).known = TRUE
           /\ NewRun(q).parent = q
           /\ \A c \in Run : NewRun(q).entry[c] = NoEntry
BY DEF NewRun, Unknown, RunRecord, TaskState

LEMMA SummaryType ==
    ASSUME NEW x
    PROVE  SummaryOf(x) \in Summary
<1>1. StatusOf(x) \in RunStatus
  BY DEF StatusOf, RunStatus
<1> QED BY <1>1 DEF SummaryOf, Summary

\* A roll-up, or the summary of a new child, changes one entry at most.
LEMMA RolledUpFacts ==
    ASSUME NEW x \in RunRecord, NEW c \in Run, NEW s \in Summary
    PROVE  /\ RolledUp(x, c, s) \in RunRecord
           /\ RolledUp(x, c, s).known = x.known
           /\ RolledUp(x, c, s).parent = x.parent
           /\ RolledUp(x, c, s).entry[c] = s
           /\ \A d \in Run \ {c} : RolledUp(x, c, s).entry[d] = x.entry[d]
BY DEF RolledUp, RunRecord

LEMMA AppendedFacts ==
    ASSUME NEW x \in RunRecord, NEW c \in Run, NEW s \in Summary
    PROVE  /\ Appended(x, c, s) \in RunRecord
           /\ Appended(x, c, s).known = x.known
           /\ Appended(x, c, s).parent = x.parent
           /\ x.entry[c] = NoEntry => Appended(x, c, s).entry[c] = s
           /\ \A d \in Run \ {c} : Appended(x, c, s).entry[d] = x.entry[d]
<1>1. CASE x.entry[c] = NoEntry
  BY <1>1 DEF Appended, RunRecord
<1>2. CASE x.entry[c] # NoEntry
  BY <1>2 DEF Appended, RunRecord
<1> QED BY <1>1, <1>2

LEMMA RecoveredFacts ==
    ASSUME NEW x \in RunRecord, NEW hurt, NEW resumed
    PROVE  /\ Recovered(x, hurt, resumed) \in RunRecord
           /\ Recovered(x, hurt, resumed).known = x.known
           /\ Recovered(x, hurt, resumed).parent = x.parent
           /\ Recovered(x, hurt, resumed).entry = x.entry
<1>1. \A t \in Task : x.tasks[t] \in TaskState
  BY DEF RunRecord
<1> QED BY <1>1 DEF Recovered, RunRecord, TaskState, State

\* Reconciliation leaves a run as it is if it blocks no task and none waits to
\* be resumed.
LEMMA RecoveredSame ==
    ASSUME NEW x \in RunRecord, NEW hurt, NEW resumed,
           Interrupted(x, hurt) = {},
           \A t \in Task : x.tasks[t] = "waiting" => t \notin resumed
    PROVE  Recovered(x, hurt, resumed) = x
<1> DEFINE after == [t \in Task |->
               IF t \in resumed /\ (t \in Interrupted(x, hurt) \/ x.tasks[t] = "waiting")
               THEN "queued"
               ELSE IF t \in Interrupted(x, hurt) THEN "waiting" ELSE x.tasks[t]]
<1>1. \A t \in Task : after[t] = x.tasks[t]
  OBVIOUS
<1>2. after = x.tasks
  <2>1. x.tasks \in [Task -> TaskState]
    BY DEF RunRecord
  <2>2. after = [t \in Task |-> x.tasks[t]]
    BY <1>1
  <2> HIDE DEF after
  <2> QED BY <2>1, <2>2
<1>3. [x EXCEPT !.tasks = x.tasks] = x
  BY DEF RunRecord
<1>4. Recovered(x, hurt, resumed) = [x EXCEPT !.tasks = after]
  BY DEF Recovered
<1> HIDE DEF after
<1> QED BY <1>2, <1>3, <1>4

LEMMA RecoveredUnknown ==
    ASSUME NEW hurt, NEW resumed
    PROVE  Recovered(Unknown, hurt, resumed) = Unknown
<1>1. \A t \in Task : Unknown.tasks[t] = "absent"
  BY DEF Unknown
<1>2. Interrupted(Unknown, hurt) = {}
  BY <1>1 DEF Interrupted
<1> QED BY <1>1, <1>2, UnknownFacts, RecoveredSame

-----------------------------------------------------------------------------
(* Types *)

LEMMA NothingType == Nothing \in [Run -> RunRecord]
BY UnknownFacts DEF Nothing

LEMMA CopyType ==
    ASSUME NEW r \in Run, NEW x \in RunRecord
    PROVE  /\ Copy(r, x) \in [Run -> RunRecord]
           /\ Copy(r, x)[r] = x
           /\ \A q \in Run \ {r} : Copy(r, x)[q] = Unknown
BY NothingType DEF Copy, Nothing

LEMMA IdleType ==
    /\ Idle \in HandlerRecord
    /\ Idle.at = "idle" /\ Idle.run = NoRun /\ Idle.parent = NoRun
    /\ \A r \in Run : Idle.todo[r] = Unknown
BY NothingType DEF Idle, HandlerRecord, At, Nothing

LEMMA InitTypes == Init => Typed
BY NothingType, IdleType, BoundsAssumption DEF Init, Typed

\* What the runs and the handler of a block may become.
LEMMA BeginTypes ==
    ASSUME Typed, NEW h \in Handler, Begins(h)
    PROVE  blocks' \in 0..MaxBlocks /\ crashes' \in 0..MaxCrashes
BY BoundsAssumption DEF Typed, Begins

LEMMA ChangesTypes ==
    ASSUME Typed, NEW h \in Handler, NEW r \in Run, NEW x \in RunRecord, Changes(h, r, x)
    PROVE  /\ run' \in [Run -> RunRecord]
           /\ handler' \in [Handler -> HandlerRecord]
           /\ handler'[h].at = "write" /\ handler'[h].run = r
           /\ handler'[h].todo = Copy(r, x)
           /\ \A k \in Handler \ {h} : handler'[k] = handler[k]
           /\ run'[r] = x
           /\ \A q \in Run \ {r} : run'[q] = run[q]
<1>1. [at |-> "write", run |-> r, parent |-> NoRun, todo |-> Copy(r, x)] \in HandlerRecord
  BY CopyType DEF HandlerRecord, At
<1> QED BY <1>1 DEF Changes, Typed

LEMMA EndsTypes ==
    ASSUME Typed, NEW h \in Handler, Ends(h)
    PROVE  /\ handler' \in [Handler -> HandlerRecord]
           /\ handler'[h] = Idle
           /\ \A k \in Handler \ {h} : handler'[k] = handler[k]
BY IdleType DEF Ends, Typed

-----------------------------------------------------------------------------
(* Copies: what the memory, the files and the handlers hold of a run *)

\* A run that is not in memory is nowhere, and what is not known is empty.
KnownInv ==
    \A r \in Run :
        /\ run[r].known \/ /\ run[r] = Unknown
                           /\ file[r] = Unknown
                           /\ \A h \in Handler : handler[h].todo[r] = Unknown
                           /\ \A h \in Handler : ~(handler[h].at = "child" /\ handler[h].run = r)
        /\ file[r].known \/ file[r] = Unknown
        /\ \A h \in Handler : handler[h].todo[r].known \/ handler[h].todo[r] = Unknown

\* Handler h is about to write r, a new child of q.
Bears(h, r, q) == handler[h].at = "child" /\ handler[h].run = r /\ handler[h].parent = q

\* A copy that differs from the run in memory in its tasks and one summary.
LikeMemory(r, x) ==
    /\ run[r].known /\ run'[r].known /\ x.known
    /\ x.parent = run[r].parent
    /\ \A d \in Run : x.entry[d] # run[r].entry[d] => run'[d].known

\* A step writes and keeps copies of what is, or was, in memory.
Copied ==
    /\ \A r \in Run :
        /\ \/ file'[r] \in {run'[r], file[r], Unknown}
           \/ \E h \in Handler : file'[r] = handler[h].todo[r]
           \/ \E h \in Handler, q \in Run : Bears(h, r, q) /\ file'[r] = NewRun(q)
        /\ \A h \in Handler : \/ handler'[h].todo[r] \in {run'[r], handler[h].todo[r], Unknown}
                              \/ LikeMemory(r, handler'[h].todo[r])
    /\ \A h \in Handler, r, q \in Run :
          Bears(h, r, q)' => \/ Bears(h, r, q)
                             \/ run'[r].known /\ run'[r].parent = q

\* Most steps change neither the copies nor the children about to be written.
Copies ==
    \A r \in Run :
        /\ \/ file'[r] \in {run'[r], file[r], Unknown}
           \/ \E h \in Handler : file'[r] = handler[h].todo[r]
        /\ \A h \in Handler : handler'[h].todo[r] \in {run'[r], handler[h].todo[r], Unknown}
NoBirths == \A h \in Handler, r, q \in Run : Bears(h, r, q)' => Bears(h, r, q)

LEMMA PlainlyCopied ==
    ASSUME Copies, NoBirths
    PROVE  Copied
BY DEF Copies, NoBirths, Copied

\* A step leaves every run where it is in the hierarchy.
Kept ==
    \A r \in Run :
        /\ run'[r].parent = run[r].parent
        /\ run[r].known => run'[r].known
        /\ run'[r].known \/ run'[r] = Unknown

\* What the blocks that change tasks have in common.
LEMMA ChangesEffect ==
    ASSUME Typed, KnownInv, NEW h \in Handler, NEW r \in Run, NEW x \in RunRecord,
           Begins(h), Changes(h, r, x), x.known, x.parent = run[r].parent,
           file' = file, behind' = behind, used' \in SUBSET Run
    PROVE  Typed' /\ Copied /\ Kept
<1>1. Typed'
  BY ChangesTypes, BeginTypes DEF Typed
<1>2. Copied
  <2>1. \A q \in Run : handler'[h].todo[q] \in {run'[q], Unknown}
    BY ChangesTypes, CopyType
  <2>2. handler'[h].at = "write" /\ \A k \in Handler \ {h} : handler'[k] = handler[k]
    BY ChangesTypes
  <2>3. Copies
    BY <2>1, <2>2 DEF Copies
  <2>4. NoBirths
    BY <2>2 DEF NoBirths, Bears
  <2> QED BY <2>3, <2>4, PlainlyCopied
<1>3. Kept
  BY ChangesTypes DEF Kept, KnownInv
<1> QED BY <1>1, <1>2, <1>3

LEMMA TasksType ==
    ASSUME NEW x \in RunRecord, NEW tasks \in [Task -> TaskState]
    PROVE  /\ [x EXCEPT !.tasks = tasks] \in RunRecord
           /\ [x EXCEPT !.tasks = tasks].known = x.known
           /\ [x EXCEPT !.tasks = tasks].parent = x.parent
           /\ [x EXCEPT !.tasks = tasks].entry = x.entry
BY DEF RunRecord

\* The runs that Delegate and Change leave in memory.
LEMMA DelegateChanges ==
    ASSUME Typed, KnownInv, NEW h \in Handler, NEW t \in Task, Delegate(h, t)
    PROVE  \E x \in RunRecord : /\ Changes(h, RunOf[t], x)
                                /\ x.known
                                /\ x.parent = run[RunOf[t]].parent
                                /\ x.entry = run[RunOf[t]].entry
<1> DEFINE r == RunOf[t]
           old == IF run[r].known THEN run[r] ELSE NewRun(NoRun)
<1>1. r \in Run
  BY RunsAssumption
<1>2. /\ old \in RunRecord
      /\ old.known
      /\ old.parent = run[r].parent
      /\ old.entry = run[r].entry
  <2>1. CASE run[r].known
    BY <1>1, <2>1 DEF Typed
  <2>2. CASE ~run[r].known
    <3>1. run[r] = Unknown
      BY <1>1, <2>2 DEF KnownInv
    <3>2. NewRun(NoRun).entry = Unknown.entry
      BY DEF NewRun, Unknown
    <3> QED BY <2>2, <3>1, <3>2, NewRunFacts, UnknownFacts
  <2> QED BY <2>1, <2>2
<1>3. PICK s \in {"queued", "waiting"} : Changes(h, r, [old EXCEPT !.tasks[t] = s])
  BY DEF Delegate
<1>4. [old EXCEPT !.tasks[t] = s] = [old EXCEPT !.tasks = [old.tasks EXCEPT ![t] = s]]
  OBVIOUS
<1>5. [old.tasks EXCEPT ![t] = s] \in [Task -> TaskState]
  BY <1>2 DEF RunRecord, TaskState, State
<1> DEFINE new == [old EXCEPT !.tasks = [old.tasks EXCEPT ![t] = s]]
<1> HIDE DEF old
<1>6. new \in RunRecord /\ new.known = old.known /\ new.parent = old.parent /\ new.entry = old.entry
  BY <1>2, <1>5, TasksType
<1>7. Changes(h, r, new)
  BY <1>3, <1>4
<1> HIDE DEF new
<1> QED BY <1>2, <1>6, <1>7

LEMMA ChangeChanges ==
    ASSUME Typed, KnownInv, NEW h \in Handler, NEW t \in Task, Change(h, t)
    PROVE  \E x \in RunRecord : /\ Changes(h, RunOf[t], x)
                                /\ x.known
                                /\ x.parent = run[RunOf[t]].parent
                                /\ x.entry = run[RunOf[t]].entry
<1> DEFINE r == RunOf[t]
           old == run[r]
           After(s, ready) == [u \in Task |-> IF u = t THEN s
                                 ELSE IF u \in ready THEN "queued" ELSE old.tasks[u]]
<1>1. r \in Run /\ old \in RunRecord
  BY RunsAssumption DEF Typed
<1>2. old.known
  BY <1>1, UnknownFacts DEF Change, KnownInv, Unknown
<1>3. PICK s \in State, ready \in SUBSET {u \in Task \ {t} : run[r].tasks[u] = "waiting"} :
         Changes(h, r, [old EXCEPT !.tasks = After(s, ready)])
  BY DEF Change
<1>4. After(s, ready) \in [Task -> TaskState]
  BY <1>1 DEF RunRecord, TaskState, State
<1> HIDE DEF old, After
<1>5. [old EXCEPT !.tasks = After(s, ready)] \in RunRecord
  BY <1>1, <1>4, TasksType
<1> QED BY <1>1, <1>2, <1>3, <1>4, <1>5, TasksType DEF old

LEMMA DelegateEffect ==
    ASSUME Typed, KnownInv, NEW h \in Handler, NEW t \in Task, Delegate(h, t)
    PROVE  Typed' /\ Copied /\ Kept
<1>1. RunOf[t] \in Run
  BY RunsAssumption
<1>2. Begins(h) /\ file' = file /\ behind' = behind /\ used' \in SUBSET Run
  BY <1>1 DEF Delegate, Typed
<1> QED BY <1>1, <1>2, DelegateChanges, ChangesEffect

LEMMA ChangeEffect ==
    ASSUME Typed, KnownInv, NEW h \in Handler, NEW t \in Task, Change(h, t)
    PROVE  Typed' /\ Copied /\ Kept
<1>1. RunOf[t] \in Run
  BY RunsAssumption
<1>2. Begins(h) /\ file' = file /\ behind' = behind /\ used' \in SUBSET Run
  BY <1>1 DEF Change, Typed
<1> QED BY <1>1, <1>2, ChangeChanges, ChangesEffect

\* Runs as they are.
LEMMA SameRuns ==
    ASSUME KnownInv, run' = run
    PROVE  Kept
BY DEF Kept, KnownInv

\* One handler goes on, or ends.
OnlyHandler(h) ==
    /\ handler'[h] \in HandlerRecord
    /\ \A k \in Handler \ {h} : handler'[k] = handler[k]

LEMMA HandlerType ==
    ASSUME Typed, NEW h \in Handler, OnlyHandler(h),
           handler' = [handler EXCEPT ![h] = handler'[h]],
           handler'[h].at \notin {"idle", "reconciled"} => handler'[h].run \in Run,
           handler'[h].at \in {"free", "accepted", "child", "parent"} => handler'[h].parent \in Run
    PROVE  /\ handler' \in [Handler -> HandlerRecord]
           /\ \A k \in Handler : /\ handler'[k].at \notin {"idle", "reconciled"}
                                      => handler'[k].run \in Run
                                 /\ handler'[k].at \in {"free", "accepted", "child", "parent"}
                                      => handler'[k].parent \in Run
BY DEF Typed, OnlyHandler

LEMMA WriteEffect ==
    ASSUME Typed, KnownInv, NEW h \in Handler, Write(h)
    PROVE  Typed' /\ Copied /\ Kept
<1>1. /\ handler'[h].at = "sync" /\ handler'[h].run = handler[h].run
      /\ handler'[h].todo = Nothing
      /\ OnlyHandler(h)
      /\ handler' = [handler EXCEPT ![h] = handler'[h]]
  BY NothingType DEF Write, Typed, OnlyHandler, HandlerRecord, At
<1>2. handler[h].run \in Run /\ handler[h].todo \in [Run -> RunRecord]
  BY DEF Write, Typed, HandlerRecord
<1>3. Typed'
  <2>1. file' \in [Run -> RunRecord]
    BY <1>2 DEF Write, Typed
  <2> QED BY <1>1, <1>2, <2>1, HandlerType DEF Write, Typed
<1>4. Copied
  <2>1. Copies
    BY <1>1, <1>2 DEF Copies, Write, Typed, OnlyHandler, Nothing
  <2>2. NoBirths
    BY <1>1, <1>2 DEF NoBirths, Bears, Write, Typed, OnlyHandler, Nothing
  <2> QED BY <2>1, <2>2, PlainlyCopied
<1> QED BY <1>3, <1>4, SameRuns DEF Write

LEMMA WriteParentEffect ==
    ASSUME Typed, KnownInv, NEW h \in Handler, WriteParent(h)
    PROVE  Typed' /\ Copied /\ Kept
<1>1. handler[h].parent \in Run /\ handler[h].todo \in [Run -> RunRecord]
  BY DEF WriteParent, Typed, HandlerRecord
<1>2. Ends(h)
  BY DEF WriteParent
<1>3. Typed'
  BY <1>1, <1>2, EndsTypes, IdleType DEF WriteParent, Typed
<1>4. Copied
  <2>1. Copies
    BY <1>1, <1>2, EndsTypes, IdleType DEF Copies, WriteParent, Typed
  <2>2. NoBirths
    BY <1>1, <1>2, EndsTypes, IdleType DEF NoBirths, Bears, WriteParent, Typed
  <2> QED BY <2>1, <2>2, PlainlyCopied
<1> QED BY <1>3, <1>4, SameRuns DEF WriteParent

LEMMA WriteChildEffect ==
    ASSUME Typed, KnownInv, NEW h \in Handler, WriteChild(h)
    PROVE  Typed' /\ Copied /\ Kept
<1>1. /\ handler'[h] = [handler[h] EXCEPT !.at = "parent"]
      /\ OnlyHandler(h)
      /\ handler' = [handler EXCEPT ![h] = handler'[h]]
  BY DEF WriteChild, Goes, Typed, OnlyHandler, HandlerRecord, At
<1>2. /\ handler'[h].at = "parent" /\ handler'[h].run = handler[h].run
      /\ handler'[h].parent = handler[h].parent /\ handler'[h].todo = handler[h].todo
  BY <1>1 DEF Typed, HandlerRecord
<1>3. /\ handler[h].run \in Run /\ handler[h].parent \in Run
      /\ handler[h].todo \in [Run -> RunRecord]
  BY DEF WriteChild, Typed, HandlerRecord
<1>4. Typed'
  <2>1. file' \in [Run -> RunRecord]
    BY <1>3, NewRunFacts DEF WriteChild, Typed
  <2> QED BY <1>1, <1>2, <1>3, <2>1, HandlerType DEF WriteChild, Typed
<1>5. Copied
  <2>1. /\ file'[handler[h].run] = NewRun(handler[h].parent)
        /\ \A r \in Run \ {handler[h].run} : file'[r] = file[r]
    BY <1>3 DEF WriteChild, Typed
  <2>2. Bears(h, handler[h].run, handler[h].parent)
    BY DEF Bears, WriteChild
  <2>3. \A r \in Run : \/ file'[r] = file[r]
                       \/ Bears(h, r, handler[h].parent) /\ file'[r] = NewRun(handler[h].parent)
    BY <2>1, <2>2
  <2>4. \A r \in Run : \A k \in Handler : handler'[k].todo[r] = handler[k].todo[r]
    BY <1>2, <1>1 DEF OnlyHandler
  <2>5. \A k \in Handler, r, q \in Run : Bears(k, r, q)' => Bears(k, r, q)
    BY <1>1, <1>2 DEF OnlyHandler, Bears
  <2> QED BY <1>3, <2>3, <2>4, <2>5 DEF Copied
<1> QED BY <1>4, <1>5, SameRuns DEF WriteChild

LEMMA WriteFailsEffect ==
    ASSUME Typed, KnownInv, NEW h \in Handler, WriteFails(h)
    PROVE  Typed' /\ Copied /\ Kept
<1>1. Ends(h)
  BY DEF WriteFails
<1>2. Typed'
  BY <1>1, EndsTypes, IdleType DEF WriteFails, Typed
<1>3. Copied
  <2>1. Copies
    BY <1>1, EndsTypes, IdleType DEF Copies, WriteFails
  <2>2. NoBirths
    BY <1>1, EndsTypes, IdleType DEF NoBirths, Bears, WriteFails
  <2> QED BY <2>1, <2>2, PlainlyCopied
<1> QED BY <1>2, <1>3, SameRuns DEF WriteFails

LEMMA CheckIdEffect ==
    ASSUME Typed, KnownInv, NEW h \in Handler, NEW c \in Run, NEW p \in Run, CheckId(h, c, p)
    PROVE  Typed' /\ Copied /\ Kept
<1>1. [at |-> "free", run |-> c, parent |-> p, todo |-> Nothing] \in HandlerRecord
  BY NothingType DEF HandlerRecord, At
<1>2. Typed'
  BY <1>1, BeginTypes DEF CheckId, Typed
<1>3. Copied
  <2>1. Copies
    BY DEF Copies, CheckId, Nothing, Typed
  <2>2. NoBirths
    BY DEF NoBirths, Bears, CheckId, Nothing, Typed
  <2> QED BY <2>1, <2>2, PlainlyCopied
<1> QED BY <1>2, <1>3, SameRuns DEF CheckId

LEMMA CheckParentEffect ==
    ASSUME Typed, KnownInv, NEW h \in Handler, CheckParent(h)
    PROVE  Typed' /\ Copied /\ Kept
<1>1. Typed' /\ Copied
  <2>1. CASE Ends(h)
    <3>1. Typed' /\ Copies
      BY <2>1, EndsTypes, IdleType DEF CheckParent, Typed, Copies
    <3>2. NoBirths
      BY <2>1, EndsTypes, IdleType DEF NoBirths, Bears
    <3> QED BY <3>1, <3>2, PlainlyCopied
  <2>2. CASE Goes(h, "accepted")
    <3>1. /\ handler'[h] = [handler[h] EXCEPT !.at = "accepted"]
          /\ OnlyHandler(h)
          /\ handler' = [handler EXCEPT ![h] = handler'[h]]
      BY <2>2 DEF Goes, Typed, OnlyHandler, HandlerRecord, At
    <3>2. /\ handler'[h].at = "accepted" /\ handler'[h].run = handler[h].run
          /\ handler'[h].parent = handler[h].parent /\ handler'[h].todo = handler[h].todo
      BY <3>1 DEF Typed, HandlerRecord
    <3>3. handler[h].run \in Run /\ handler[h].parent \in Run
      BY DEF CheckParent, Typed
    <3>4. Typed'
      BY <3>1, <3>2, <3>3, HandlerType DEF CheckParent, Typed
    <3>5. Copied
      <4>1. Copies
        BY <3>1, <3>2 DEF Copies, CheckParent, OnlyHandler
      <4>2. NoBirths
        BY <3>1, <3>2 DEF NoBirths, Bears, CheckParent, OnlyHandler
      <4> QED BY <4>1, <4>2, PlainlyCopied
    <3> QED BY <3>4, <3>5
  <2> QED BY <2>1, <2>2 DEF CheckParent
<1> QED BY <1>1, SameRuns DEF CheckParent

\* The roll-up of a child that has a parent in memory.
Rolls(h) ==
    LET c == handler[h].run
        p == run[c].parent
    IN  /\ c \in Run /\ p \in Run /\ run[p].known
        /\ run' = [run EXCEPT ![p] = RolledUp(run[p], c, SummaryOf(run[c]))]
        /\ handler'[h].at = "parent" /\ handler'[h].run = c /\ handler'[h].parent = p
        /\ handler'[h].todo = Copy(p, run'[p])
        /\ OnlyHandler(h)
        /\ handler' = [handler EXCEPT ![h] = handler'[h]]
        /\ behind' = behind \ {c}

LEMMA SyncCases ==
    ASSUME Typed, NEW h \in Handler, Sync(h)
    PROVE  \/ Rolls(h)
           \/ /\ Ends(h) /\ run' = run /\ behind' = behind
              /\ handler[h].run \in Run
              /\ run[handler[h].run].parent = NoRun
                   \/ ~run[run[handler[h].run].parent].known
<1> DEFINE c == handler[h].run
           p == run[c].parent
<1>1. c \in Run /\ p \in Run \cup {NoRun}
  BY DEF Sync, Typed, RunRecord
<1>2. CASE p # NoRun /\ run[p].known
  <2> DEFINE x == RolledUp(run[p], c, SummaryOf(run[c]))
  <2>1. /\ run' = [run EXCEPT ![p] = x]
        /\ handler' = [handler EXCEPT ![h].at = "parent", ![h].parent = p, ![h].todo = Copy(p, x)]
        /\ behind' = behind \ {c}
    BY <1>2 DEF Sync
  <2>2. x \in RunRecord /\ p \in Run
    BY <1>1, <1>2, RolledUpFacts, SummaryType DEF Typed
  <2> HIDE DEF x
  <2>3. run'[p] = x
    BY <2>1, <2>2 DEF Typed
  <2>4. Copy(p, x) \in [Run -> RunRecord]
    BY <2>2, CopyType
  <2>5. /\ handler'[h].at = "parent" /\ handler'[h].run = c /\ handler'[h].parent = p
        /\ handler'[h].todo = Copy(p, x)
        /\ OnlyHandler(h)
        /\ handler' = [handler EXCEPT ![h] = handler'[h]]
    BY <2>1, <2>2, <2>4 DEF Typed, OnlyHandler, HandlerRecord, At
  <2> QED BY <1>1, <1>2, <2>1, <2>2, <2>3, <2>5 DEF Rolls, x
<1>3. CASE ~(p # NoRun /\ run[p].known)
  BY <1>1, <1>3 DEF Sync
<1> QED BY <1>2, <1>3

LEMMA SyncEffect ==
    ASSUME Typed, KnownInv, NEW h \in Handler, Sync(h)
    PROVE  Typed' /\ Copied /\ Kept
<1>1. CASE Rolls(h)
  <2> DEFINE c == handler[h].run
             p == run[c].parent
             x == RolledUp(run[p], c, SummaryOf(run[c]))
  <2>1. /\ c \in Run /\ p \in Run /\ x \in RunRecord
        /\ run[p].known /\ x.known = run[p].known /\ x.parent = run[p].parent
    <3>1. c \in Run /\ p \in Run /\ run[p].known /\ run[p] \in RunRecord
      BY <1>1 DEF Rolls, Typed
    <3>2. SummaryOf(run[c]) \in Summary
      BY SummaryType
    <3> DEFINE s == SummaryOf(run[c])
    <3>3. run[p] \in RunRecord /\ c \in Run /\ s \in Summary
      BY <3>1, <3>2
    <3> HIDE DEF s
    <3>4. /\ RolledUp(run[p], c, s) \in RunRecord
          /\ RolledUp(run[p], c, s).known = run[p].known
          /\ RolledUp(run[p], c, s).parent = run[p].parent
      BY <3>3, RolledUpFacts
    <3> QED BY <3>1, <3>4 DEF s
  <2> HIDE DEF x
  <2>2. /\ run' \in [Run -> RunRecord]
        /\ run'[p] = x
        /\ \A q \in Run \ {p} : run'[q] = run[q]
    BY <1>1, <2>1 DEF Rolls, Typed, x
  <2>3. Typed'
    BY <1>1, <2>1, <2>2, HandlerType DEF Rolls, Sync, Typed
  <2>4. Copied
    <3>1. \A q \in Run : handler'[h].todo[q] \in {run'[q], Unknown}
      BY <1>1, <2>1, <2>2, CopyType DEF Rolls
    <3>2. Copies
      BY <1>1, <3>1 DEF Copies, Rolls, OnlyHandler, Sync
    <3>3. NoBirths
      BY <1>1 DEF NoBirths, Bears, Rolls, OnlyHandler
    <3> QED BY <3>2, <3>3, PlainlyCopied
  <2>5. Kept
    BY <2>1, <2>2 DEF Kept, KnownInv
  <2> QED BY <2>3, <2>4, <2>5
<1>2. CASE Ends(h) /\ run' = run /\ behind' = behind
  <2>1. Typed'
    BY <1>2, EndsTypes, IdleType DEF Sync, Typed
  <2>2. Copied
    <3>1. Copies
      BY <1>2, EndsTypes, IdleType DEF Copies, Sync
    <3>2. NoBirths
      BY <1>2, EndsTypes, IdleType DEF NoBirths, Bears, Sync
    <3> QED BY <3>1, <3>2, PlainlyCopied
  <2> QED BY <1>2, <2>1, <2>2, SameRuns
<1> QED BY <1>1, <1>2, SyncCases

LEMMA WriteReconciledEffect ==
    ASSUME Typed, KnownInv, NEW h \in Handler, WriteReconciled(h)
    PROVE  /\ Typed' /\ Copied /\ Kept
           /\ \/ Ends(h)
              \/ /\ OnlyHandler(h)
                 /\ handler'[h].at = "reconciled" /\ handler'[h].run = handler[h].run
<1>1. PICK r \in Run :
         /\ handler[h].todo[r].known
         /\ file' = [file EXCEPT ![r] = handler[h].todo[r]]
         /\ LET rest == [handler[h].todo EXCEPT ![r] = Unknown]
            IN  IF rest = Nothing THEN Ends(h)
                ELSE handler' = [handler EXCEPT ![h].todo = rest]
  BY DEF WriteReconciled
<1> DEFINE rest == [handler[h].todo EXCEPT ![r] = Unknown]
<1>2. /\ handler[h].todo \in [Run -> RunRecord]
      /\ rest \in [Run -> RunRecord]
      /\ \A q \in Run : rest[q] \in {handler[h].todo[q], Unknown}
  BY UnknownFacts DEF Typed, HandlerRecord
<1>3. /\ file' \in [Run -> RunRecord]
      /\ file'[r] = handler[h].todo[r]
      /\ \A q \in Run \ {r} : file'[q] = file[q]
  BY <1>1, <1>2 DEF Typed
<1> HIDE DEF rest
<1>4. CASE Ends(h)
  <2>1. Typed'
    BY <1>3, <1>4, EndsTypes, IdleType DEF WriteReconciled, Typed
  <2>2. Copied
    <3>1. Copies
      BY <1>3, <1>4, EndsTypes, IdleType DEF Copies
    <3>2. NoBirths
      BY <1>3, <1>4, EndsTypes, IdleType DEF NoBirths, Bears
    <3> QED BY <3>1, <3>2, PlainlyCopied
  <2> QED BY <1>4, <2>1, <2>2, SameRuns DEF WriteReconciled
<1>5. CASE handler' = [handler EXCEPT ![h].todo = rest]
  <2>1. /\ handler'[h].at = "reconciled" /\ handler'[h].todo = rest
        /\ handler'[h].run = handler[h].run
        /\ OnlyHandler(h)
        /\ handler' = [handler EXCEPT ![h] = handler'[h]]
    <3> DEFINE next == [handler[h] EXCEPT !.todo = rest]
    <3>1. /\ next \in HandlerRecord /\ next.at = "reconciled" /\ next.todo = rest
          /\ next.run = handler[h].run
      <4>1. handler[h].at = "reconciled" /\ handler[h] \in HandlerRecord
        BY DEF WriteReconciled, Typed
      <4> QED BY <1>2, <4>1 DEF HandlerRecord
    <3>2. handler' = [handler EXCEPT ![h] = next]
      BY <1>5
    <3> HIDE DEF next
    <3> QED BY <3>1, <3>2 DEF Typed, OnlyHandler
  <2>2. Typed'
    BY <1>3, <2>1, HandlerType DEF WriteReconciled, Typed
  <2>3. Copied
    <3>1. Copies
      BY <1>2, <1>3, <2>1 DEF Copies, OnlyHandler
    <3>2. NoBirths
      BY <1>2, <1>3, <2>1 DEF NoBirths, Bears, OnlyHandler
    <3> QED BY <3>1, <3>2, PlainlyCopied
  <2> QED BY <2>1, <2>2, <2>3, SameRuns DEF WriteReconciled
<1> QED BY <1>1, <1>4, <1>5 DEF rest

\* What reconciliation makes of the runs in memory.
LEMMA ReconcileRuns ==
    ASSUME Typed, KnownInv, NEW h \in Handler, Reconcile(h)
    PROVE  /\ run' \in [Run -> RunRecord]
           /\ \A r \in Run : /\ run'[r].known = run[r].known
                             /\ run'[r].parent = run[r].parent
                             /\ run'[r].entry = run[r].entry
                             /\ run[r] = Unknown => run'[r] = Unknown
                             /\ r \notin behind' => run'[r] = run[r]
<1>1. PICK hurt \in SUBSET Fragile :
      /\ run' = [r \in Run |-> Recovered(run[r], hurt, {})]
      /\ \A r \in Run \ behind' : Interrupted(run[r], hurt) = {}
  BY DEF Reconcile
<1>2. SUFFICES ASSUME NEW r \in Run
               PROVE  /\ Recovered(run[r], hurt, {}) \in RunRecord
                      /\ Recovered(run[r], hurt, {}).known = run[r].known
                      /\ Recovered(run[r], hurt, {}).parent = run[r].parent
                      /\ Recovered(run[r], hurt, {}).entry = run[r].entry
                      /\ run[r] = Unknown => Recovered(run[r], hurt, {}) = Unknown
                      /\ r \notin behind' => Recovered(run[r], hurt, {}) = run[r]
  BY <1>1
<1>3. run[r] \in RunRecord
  BY DEF Typed
<1>4. r \notin behind' => Recovered(run[r], hurt, {}) = run[r]
  BY <1>1, <1>3, RecoveredSame
<1> QED BY <1>3, <1>4, RecoveredFacts, RecoveredUnknown

LEMMA ReconcileEffect ==
    ASSUME Typed, KnownInv, NEW h \in Handler, Reconcile(h)
    PROVE  Typed' /\ Copied /\ Kept
<1>0. PICK hurt \in SUBSET Fragile :
        LET changed == {r \in Run : Interrupted(run[r], hurt) # {}}
            todo == [r \in Run |-> IF r \in changed THEN run'[r] ELSE Unknown]
        IN  /\ handler' = [handler EXCEPT ![h] =
                  [at |-> "reconciled", run |-> NoRun, parent |-> NoRun, todo |-> todo]]
            /\ behind' = behind \cup changed /\ file' = file /\ used' = used
            /\ Begins(h)
  BY DEF Reconcile
<1> DEFINE changed == {r \in Run : Interrupted(run[r], hurt) # {}}
           todo == [r \in Run |-> IF r \in changed THEN run'[r] ELSE Unknown]
           next == [at |-> "reconciled", run |-> NoRun, parent |-> NoRun, todo |-> todo]
<1>1. /\ handler' = [handler EXCEPT ![h] = next]
      /\ behind' = behind \cup changed /\ file' = file /\ used' = used
      /\ Begins(h)
  BY <1>0
<1>2. next \in HandlerRecord
  BY ReconcileRuns, UnknownFacts DEF HandlerRecord, At
<1>3. \A r \in Run : todo[r] \in {run'[r], Unknown}
  OBVIOUS
<1>4. next.at = "reconciled" /\ next.todo = todo
  OBVIOUS
<1>5. changed \subseteq Run
  OBVIOUS
<1> HIDE DEF next, todo, changed
<1>6. Typed'
  BY <1>1, <1>2, <1>4, <1>5, ReconcileRuns, BeginTypes DEF Typed
<1>7. Copied
  <2>1. Copies
    BY <1>1, <1>3, <1>4 DEF Copies, Typed
  <2>2. NoBirths
    BY <1>1, <1>3, <1>4 DEF NoBirths, Bears, Typed
  <2> QED BY <2>1, <2>2, PlainlyCopied
<1>8. Kept
  BY ReconcileRuns DEF Kept, KnownInv
<1> QED BY <1>6, <1>7, <1>8

-----------------------------------------------------------------------------
(* The two steps that change the hierarchy *)

\* What a handler is about to create has been asked for.
Asked ==
    \A h \in Handler : handler[h].at \in {"free", "accepted"}
                          => <<handler[h].run, handler[h].parent>> \in Requests

\* A child run is created.
Inserts(h) ==
    LET c == handler[h].run
        p == handler[h].parent
        x == Appended(run[p], c, SummaryOf(NewRun(p)))
    IN  /\ c \in Run /\ p \in Run /\ <<c, p>> \in Requests
        /\ Accepts(run[p])
        /\ run' \in [Run -> RunRecord]
        /\ c # p => run'[p] = x
        /\ run'[c] = NewRun(p)
        /\ \A r \in Run \ {c, p} : run'[r] = run[r]
        /\ handler'[h].at = "child" /\ handler'[h].run = c /\ handler'[h].parent = p
        /\ handler'[h].todo = Copy(p, x)
        /\ OnlyHandler(h)
        /\ handler' = [handler EXCEPT ![h] = handler'[h]]

LEMMA InsertCases ==
    ASSUME Typed, Asked, NEW h \in Handler, Insert(h)
    PROVE  Inserts(h) \/ (Ends(h) /\ run' = run)
<1> DEFINE c == handler[h].run
           p == handler[h].parent
           x == Appended(run[p], c, SummaryOf(NewRun(p)))
           todo == Copy(p, x)
<1>1. c \in Run /\ p \in Run /\ <<c, p>> \in Requests
  BY DEF Insert, Typed, Asked
<1>2. CASE Accepts(run[p])
  <2>1. x \in RunRecord /\ NewRun(p) \in RunRecord
    <3>1. run[p] \in RunRecord
      BY <1>1 DEF Typed
    <3> QED BY <1>1, <3>1, AppendedFacts, SummaryType, NewRunFacts
  <2>2. /\ run' = [run EXCEPT ![p] = x, ![c] = NewRun(p)]
        /\ handler' = [handler EXCEPT ![h].at = "child", ![h].todo = todo]
    BY <1>2 DEF Insert
  <2> HIDE DEF x
  <2>3. /\ run' \in [Run -> RunRecord]
        /\ c # p => run'[p] = x
        /\ run'[c] = NewRun(p)
        /\ \A r \in Run \ {c, p} : run'[r] = run[r]
    BY <1>1, <2>1, <2>2 DEF Typed
  <2>4. todo \in [Run -> RunRecord]
    BY <1>1, <2>1, CopyType
  <2> HIDE DEF todo
  <2>5. /\ handler'[h].at = "child" /\ handler'[h].run = c /\ handler'[h].parent = p
        /\ handler'[h].todo = todo
        /\ OnlyHandler(h)
        /\ handler' = [handler EXCEPT ![h] = handler'[h]]
    <3> DEFINE next == [handler[h] EXCEPT !.at = "child", !.todo = todo]
    <3>1. /\ next \in HandlerRecord /\ next.at = "child" /\ next.todo = todo
          /\ next.run = c /\ next.parent = p
      BY <2>4 DEF Typed, HandlerRecord, At
    <3>2. handler' = [handler EXCEPT ![h] = next]
      BY <2>2
    <3> HIDE DEF next
    <3> QED BY <3>1, <3>2 DEF Typed, OnlyHandler
  <2> QED BY <1>1, <1>2, <2>3, <2>4, <2>5 DEF Inserts, x, todo
<1>3. CASE ~Accepts(run[p])
  BY <1>3 DEF Insert
<1> QED BY <1>2, <1>3

\* The copy that a new child's handler keeps is the parent with the summary of
\* the child, also where the child has replaced the parent.
LEMMA InsertCopies ==
    ASSUME Typed, KnownInv, NEW h \in Handler, Insert(h), Inserts(h)
    PROVE  Copied
<1>1. PICK c \in Run, p \in Run : c = handler[h].run /\ p = handler[h].parent
  BY DEF Inserts
<1> DEFINE s == SummaryOf(NewRun(p))
           x == Appended(run[p], c, s)
<1>2. s \in Summary /\ run[p] \in RunRecord
  BY SummaryType DEF Typed
<1>3. /\ c # p => run'[p] = x
      /\ run'[c] = NewRun(p)
      /\ handler'[h].at = "child" /\ handler'[h].run = c /\ handler'[h].parent = p
      /\ handler'[h].todo = Copy(p, x)
      /\ \A k \in Handler \ {h} : handler'[k] = handler[k]
      /\ run[p].known /\ file' = file
  BY <1>1 DEF Inserts, Insert, Accepts, OnlyHandler
<1> HIDE DEF s
<1>4. /\ x \in RunRecord /\ x.known = run[p].known /\ x.parent = run[p].parent
      /\ \A d \in Run \ {c} : x.entry[d] = run[p].entry[d]
  BY <1>2, AppendedFacts
<1> HIDE DEF x
<1>5. run'[c].known = TRUE /\ run'[c].parent = p
  BY <1>3, NewRunFacts
<1>6. LikeMemory(p, x)
  <2>1. run'[p].known
    BY <1>3, <1>4, <1>5
  <2>2. \A d \in Run : x.entry[d] # run[p].entry[d] => run'[d].known
    BY <1>4, <1>5
  <2>3. x.known
    BY <1>3, <1>4
  <2> QED BY <1>3, <1>4, <2>1, <2>2, <2>3 DEF LikeMemory
<1>7. \A r \in Run : handler'[h].todo[r] = Unknown \/ LikeMemory(r, handler'[h].todo[r])
  BY <1>3, <1>4, <1>6, CopyType
<1>8. \A k \in Handler, r, q \in Run :
         Bears(k, r, q)' => Bears(k, r, q) \/ (run'[r].known /\ run'[r].parent = q)
  BY <1>3, <1>5 DEF Bears
<1> QED BY <1>3, <1>7, <1>8 DEF Copied

LEMMA InsertEffect ==
    ASSUME Typed, KnownInv, Asked, NEW h \in Handler, Insert(h)
    PROVE  Typed' /\ Copied /\ (Inserts(h) \/ (Ends(h) /\ Kept))
<1>1. CASE Inserts(h)
  <2>1. Typed'
    BY <1>1, HandlerType DEF Inserts, Insert, Typed
  <2>2. Copied
    BY <1>1, InsertCopies
  <2> QED BY <1>1, <2>1, <2>2
<1>2. CASE Ends(h) /\ run' = run
  <2>1. Typed'
    BY <1>2, EndsTypes, IdleType DEF Insert, Typed
  <2>2. Copied
    <3>1. Copies
      BY <1>2, EndsTypes, IdleType DEF Copies, Insert
    <3>2. NoBirths
      BY <1>2, EndsTypes, IdleType DEF NoBirths, Bears, Insert
    <3> QED BY <3>1, <3>2, PlainlyCopied
  <2> QED BY <1>2, <2>1, <2>2, SameRuns
<1> QED BY <1>1, <1>2, InsertCases

\* After a restart, memory and files are the same, and no other copies are left.
Restarts ==
    /\ \A r \in Run : /\ file'[r] = run'[r]
                      /\ \/ run'[r] = Unknown
                         \/ /\ file[r].known
                            /\ run'[r].known
                            /\ run'[r].parent = file[r].parent
                            /\ run'[r].entry = file[r].entry
    /\ \A h \in Handler : handler'[h] = Idle
    /\ behind' = Run

LEMMA RestartEffect ==
    ASSUME Typed, KnownInv, Restart
    PROVE  Typed' /\ Copied /\ Restarts
<1>1. PICK torn \in SUBSET Torn, hurt \in SUBSET Fragile, resumed \in SUBSET Stored :
         run' = [r \in Run |-> IF r \in torn THEN Unknown
                               ELSE Recovered(file[r], hurt, resumed)]
  BY DEF Restart
<1>2. \A r \in Run : /\ run'[r] \in RunRecord
                     /\ \/ run'[r] = Unknown
                        \/ /\ file[r].known
                           /\ run'[r].known
                           /\ run'[r].parent = file[r].parent
                           /\ run'[r].entry = file[r].entry
  <2> TAKE r \in Run
  <2>1. CASE r \in torn
    BY <1>1, <2>1, UnknownFacts
  <2>2. CASE r \notin torn /\ file[r] = Unknown
    BY <1>1, <2>2, RecoveredUnknown, UnknownFacts
  <2>3. CASE r \notin torn /\ file[r].known
    <3> DEFINE y == Recovered(file[r], hurt, resumed)
    <3>1. /\ y \in RunRecord /\ y.known = file[r].known
          /\ y.parent = file[r].parent /\ y.entry = file[r].entry
      <4>1. file[r] \in RunRecord
        BY DEF Typed
      <4> QED BY <4>1, RecoveredFacts
    <3>2. run'[r] = y
      BY <1>1, <2>3
    <3> HIDE DEF y
    <3> QED BY <2>3, <3>1, <3>2
  <2> QED BY <2>1, <2>2, <2>3 DEF KnownInv
<1>3. /\ run' \in [Run -> RunRecord]
      /\ file' = run'
      /\ handler' = [h \in Handler |-> Idle]
      /\ behind' = Run
  BY <1>1, <1>2 DEF Restart
<1>4. Typed'
  <2>1. crashes' \in 0..MaxCrashes
    BY BoundsAssumption DEF Restart, Typed
  <2> QED BY <1>3, <2>1, IdleType DEF Restart, Typed
<1>5. Copied
  <2>1. Copies
    BY <1>3, IdleType DEF Copies
  <2>2. NoBirths
    BY <1>3, IdleType DEF NoBirths, Bears
  <2> QED BY <2>1, <2>2, PlainlyCopied
<1> QED BY <1>2, <1>3, <1>4, <1>5 DEF Restarts

-----------------------------------------------------------------------------
(* The type invariant, and that runs are created as asked *)

Kinds(h) ==
    \/ Kept /\ \/ \E t \in Task : Delegate(h, t) \/ Change(h, t)
               \/ \E q \in Requests : CheckId(h, q[1], q[2])
               \/ Reconcile(h) \/ Sync(h)
               \/ Write(h) \/ WriteParent(h) \/ WriteFails(h)
               \/ CheckParent(h) \/ WriteChild(h) \/ WriteReconciled(h)
               \/ Insert(h) /\ Ends(h)
    \/ Insert(h) /\ Inserts(h)

\* Every step copies; all but two kinds of them keep the hierarchy as it is.
LEMMA StepKinds ==
    ASSUME Typed, KnownInv, Asked, Next
    PROVE  /\ Typed' /\ Copied
           /\ (\E h \in Handler : Kinds(h)) \/ (Restart /\ Restarts)
<1>1. ASSUME NEW h \in Handler, NEW t \in Task, Delegate(h, t) \/ Change(h, t)
      PROVE  Typed' /\ Copied /\ Kinds(h)
  BY <1>1, DelegateEffect, ChangeEffect DEF Kinds
<1>2. ASSUME NEW h \in Handler, NEW q \in Requests, CheckId(h, q[1], q[2])
      PROVE  Typed' /\ Copied /\ Kinds(h)
  <2>1. q[1] \in Run /\ q[2] \in Run
    BY RunsAssumption
  <2> QED BY <1>2, <2>1, CheckIdEffect DEF Kinds
<1>3. ASSUME NEW h \in Handler, Reconcile(h)
      PROVE  Typed' /\ Copied /\ Kinds(h)
  BY <1>3, ReconcileEffect DEF Kinds
<1>4. ASSUME NEW h \in Handler, Step(h)
      PROVE  Typed' /\ Copied /\ Kinds(h)
  BY <1>4, WriteEffect, SyncEffect, WriteParentEffect, WriteFailsEffect, CheckParentEffect,
     InsertEffect, WriteChildEffect, WriteReconciledEffect
  DEF Kinds, Step
<1> QED BY <1>1, <1>2, <1>3, <1>4, RestartEffect DEF Next

\* A handler that is about to create a run has checked the ids, or was about to.
LEMMA AskedKept ==
    ASSUME Typed, KnownInv, Asked, Next
    PROVE  Asked'
<1>1. ASSUME NEW h \in Handler, NEW t \in Task, Delegate(h, t)
      PROVE  Asked'
  <2>1. /\ handler'[h].at = "write"
        /\ \A k \in Handler \ {h} : handler'[k] = handler[k]
    BY <1>1, DelegateChanges, ChangesTypes, RunsAssumption
  <2> QED BY <2>1 DEF Asked
<1>2. ASSUME NEW h \in Handler, NEW t \in Task, Change(h, t)
      PROVE  Asked'
  <2>1. /\ handler'[h].at = "write"
        /\ \A k \in Handler \ {h} : handler'[k] = handler[k]
    BY <1>2, ChangeChanges, ChangesTypes, RunsAssumption
  <2> QED BY <2>1 DEF Asked
<1>3. ASSUME NEW h \in Handler, NEW q \in Requests, CheckId(h, q[1], q[2])
      PROVE  Asked'
  BY <1>3, RunsAssumption DEF Asked, CheckId, Typed
<1>4. ASSUME NEW h \in Handler, Reconcile(h)
      PROVE  Asked'
  BY <1>4 DEF Asked, Reconcile, Typed
<1>5. ASSUME NEW h \in Handler, Step(h)
      PROVE  Asked'
  <2>1. ASSUME Ends(h)
        PROVE  Asked'
    BY <2>1, EndsTypes, IdleType DEF Asked
  <2>2. ASSUME OnlyHandler(h), handler'[h].at \notin {"free", "accepted"}
        PROVE  Asked'
    BY <2>2 DEF Asked, OnlyHandler
  <2>3. CASE Write(h)
    BY <2>3 DEF Write, Asked, Typed, HandlerRecord
  <2>4. CASE Sync(h)
    BY <2>1, <2>2, <2>4, SyncCases DEF Rolls
  <2>5. CASE WriteParent(h) \/ WriteFails(h)
    BY <2>1, <2>5 DEF WriteParent, WriteFails
  <2>6. CASE CheckParent(h)
    BY <2>1, <2>6 DEF CheckParent, Goes, Asked, Typed, HandlerRecord
  <2>7. CASE Insert(h)
    BY <2>1, <2>2, <2>7, InsertCases DEF Inserts
  <2>8. CASE WriteChild(h)
    BY <2>8 DEF WriteChild, Goes, Asked, Typed, HandlerRecord
  <2>9. CASE WriteReconciled(h)
    BY <2>1, <2>2, <2>9, WriteReconciledEffect
  <2> QED BY <1>5, <2>3, <2>4, <2>5, <2>6, <2>7, <2>8, <2>9 DEF Step
<1>6. ASSUME Restart
      PROVE  Asked'
  BY <1>6, IdleType DEF Restart, Asked
<1> QED BY <1>1, <1>2, <1>3, <1>4, <1>5, <1>6 DEF Next

LEMMA CopiesKnown ==
    ASSUME Typed', KnownInv, Copied, NEW r \in Run,
           run[r].known => run'[r].known, run'[r].known \/ run'[r] = Unknown
    PROVE  /\ run'[r].known \/ /\ run'[r] = Unknown
                               /\ file'[r] = Unknown
                               /\ \A h \in Handler : handler'[h].todo[r] = Unknown
                               /\ \A h \in Handler : ~(handler'[h].at = "child"
                                                       /\ handler'[h].run = r)
           /\ file'[r].known \/ file'[r] = Unknown
           /\ \A h \in Handler : handler'[h].todo[r].known \/ handler'[h].todo[r] = Unknown
<1>1. \A q \in Run : NewRun(q).known
  BY NewRunFacts
<1>2. \A h \in Handler : handler'[h].todo[r].known \/ handler'[h].todo[r] = Unknown
  BY DEF Copied, KnownInv, LikeMemory
<1>3. \/ file'[r] \in {run'[r], file[r], Unknown}
      \/ \E h \in Handler : file'[r] = handler[h].todo[r]
      \/ \E h \in Handler, q \in Run : Bears(h, r, q) /\ file'[r] = NewRun(q)
  BY DEF Copied
<1>4. file'[r].known \/ file'[r] = Unknown
  BY <1>1, <1>3 DEF KnownInv
<1>5. CASE run'[r].known
  BY <1>2, <1>4, <1>5
<1>6. CASE ~run'[r].known
  <2>1. /\ run'[r] = Unknown /\ file[r] = Unknown
        /\ \A h \in Handler : handler[h].todo[r] = Unknown
        /\ \A h \in Handler, q \in Run : ~Bears(h, r, q)
    BY <1>6 DEF KnownInv, Bears
  <2>2. file'[r] = Unknown
    BY <1>3, <2>1
  <2>3. \A h \in Handler : handler'[h].todo[r] = Unknown
    BY <1>6, <2>1 DEF Copied, LikeMemory
  <2>4. \A h \in Handler, q \in Run : ~Bears(h, r, q)'
    BY <1>6, <2>1 DEF Copied
  <2>5. ASSUME NEW h \in Handler, handler'[h].at = "child", handler'[h].run = r
        PROVE  FALSE
    BY <2>4, <2>5 DEF Bears, Typed
  <2> QED BY <1>2, <1>4, <2>1, <2>2, <2>3, <2>5
<1> QED BY <1>5, <1>6

LEMMA KnownKept ==
    ASSUME Typed, KnownInv, Asked, Next
    PROVE  KnownInv'
<1>1. Typed' /\ Copied
  BY StepKinds
<1>2. ASSUME Kept
      PROVE  KnownInv'
  <2> SUFFICES ASSUME NEW r \in Run
               PROVE  /\ run'[r].known \/ /\ run'[r] = Unknown
                                          /\ file'[r] = Unknown
                                          /\ \A h \in Handler : handler'[h].todo[r] = Unknown
                                          /\ \A h \in Handler : ~(handler'[h].at = "child"
                                                                  /\ handler'[h].run = r)
                      /\ file'[r].known \/ file'[r] = Unknown
                      /\ \A h \in Handler : handler'[h].todo[r].known
                                              \/ handler'[h].todo[r] = Unknown
    BY DEF KnownInv
  <2>1. run'[r].known \/ run'[r] = Unknown
    BY <1>2 DEF Kept
  <2>2. run[r].known => run'[r].known
    BY <1>2 DEF Kept
  <2> QED BY <1>1, <2>1, <2>2, CopiesKnown
<1>3. ASSUME NEW h \in Handler, Inserts(h)
      PROVE  KnownInv'
  <2> DEFINE c == handler[h].run
             p == handler[h].parent
  <2>1. \A r \in Run : /\ run[r].known => run'[r].known
                       /\ run'[r].known \/ run'[r] = Unknown
    <3>1. run'[c].known
      BY <1>3, NewRunFacts DEF Inserts
    <3>2. c # p => run'[p].known
      <4>1. run[p] \in RunRecord /\ run[p].known = TRUE /\ c \in Run
        BY <1>3 DEF Inserts, Accepts, Typed, RunRecord
      <4> QED BY <1>3, <4>1, AppendedFacts, SummaryType DEF Inserts
    <3> QED BY <1>3, <3>1, <3>2 DEF Inserts, KnownInv
  <2> HIDE DEF c, p
  <2> QED BY <1>1, <2>1, CopiesKnown DEF KnownInv
<1>4. ASSUME Restarts
      PROVE  KnownInv'
  BY <1>4, IdleType DEF Restarts, KnownInv
<1> QED BY <1>2, <1>3, <1>4, StepKinds DEF Kinds

\* The type of the state, with what types do not say of the copies.
TypeInv == Typed /\ KnownInv /\ Asked

LEMMA InitInv == Init => TypeInv
BY InitTypes, IdleType, UnknownFacts DEF Init, TypeInv, KnownInv, Asked, Nothing

LEMMA TypeInvKept == TypeInv /\ [Next]_vars => TypeInv'
<1> SUFFICES ASSUME TypeInv, [Next]_vars
             PROVE  TypeInv'
  OBVIOUS
<1>1. CASE Next
  BY <1>1, StepKinds, KnownKept, AskedKept DEF TypeInv
<1>2. CASE UNCHANGED vars
  BY <1>2 DEF vars, TypeInv, Typed, KnownInv, Asked
<1> QED BY <1>1, <1>2

\* Whatever handlers, reconciliations, failing writes and restarts do to the
\* runs, their files and the copies under way, all of them have their type.
THEOREM TypeCorrect == Spec => []TypeOK
<1>1. Spec => []TypeInv
  BY InitInv, TypeInvKept, PTL DEF Spec
<1>2. TypeInv => TypeOK
  BY UnknownFacts DEF TypeInv, KnownInv, TypeOK
<1> QED BY <1>1, <1>2, PTL

-----------------------------------------------------------------------------
(* A run with a UUID is not heard of until it is created *)

HasParent(r, q) ==
    \/ run[r].parent = q
    \/ file[r].parent = q
    \/ \E h \in Handler : handler[h].todo[r].parent = q \/ Bears(h, r, q)

HasEntry(r, c) ==
    \/ run[r].entry[c] # NoEntry
    \/ file[r].entry[c] # NoEntry
    \/ \E h \in Handler : handler[h].todo[r].entry[c] # NoEntry

\* No id has been given out for c, or a handler that will create it has it.
Early(c) == c \notin used \/ Creating(c) # {}
Unborn(c) ==
    /\ run[c] = Unknown
    /\ \A r \in Run : ~HasParent(r, c) /\ ~HasEntry(r, c)

UnbornInv == \A c \in Run \ Chosen : Early(c) => Unborn(c)

\* One handler at most has the id of a run that is still to be created.
ClaimInv ==
    \A c \in Run \ Chosen :
        /\ c \notin used => \A h \in Handler : handler[h].run # c
        /\ \A h \in Creating(c) : \A k \in Handler \ {h} : handler[k].run # c

TypeAndFresh == TypeInv /\ UnbornInv /\ ClaimInv

\* A handler goes on with its run, or ends, and creates no other.
GoesOn(h) ==
    /\ \A k \in Handler \ {h} : handler'[k] = handler[k]
    /\ handler'[h].run \in {handler[h].run, NoRun}
    /\ handler'[h].at \in {"free", "accepted"} => handler[h].at \in {"free", "accepted"}
    /\ used' = used

LEMMA StepGoesOn ==
    ASSUME TypeInv, NEW h \in Handler, Step(h)
    PROVE  GoesOn(h)
<1> USE DEF TypeInv
<1>1. ASSUME Ends(h), used' = used
      PROVE  GoesOn(h)
  BY <1>1, EndsTypes, IdleType DEF GoesOn
<1>2. CASE Write(h)
  BY <1>2 DEF Write, GoesOn, Typed, HandlerRecord
<1>3. CASE Sync(h)
  <2>1. used' = used
    BY <1>3 DEF Sync
  <2> QED BY <1>1, <1>3, <2>1, SyncCases DEF Rolls, GoesOn, OnlyHandler
<1>4. CASE WriteParent(h) \/ WriteFails(h)
  BY <1>1, <1>4 DEF WriteParent, WriteFails
<1>5. CASE CheckParent(h)
  BY <1>1, <1>5 DEF CheckParent, Goes, GoesOn, Typed, HandlerRecord
<1>6. CASE Insert(h)
  <2>1. used' = used
    BY <1>6 DEF Insert
  <2> QED BY <1>1, <1>6, <2>1, InsertCases DEF Inserts, GoesOn, OnlyHandler
<1>7. CASE WriteChild(h)
  BY <1>7 DEF WriteChild, Goes, GoesOn, Typed, HandlerRecord
<1>8. CASE WriteReconciled(h)
  <2>1. used' = used
    BY <1>8 DEF WriteReconciled
  <2> QED BY <1>1, <1>8, <2>1, WriteReconciledEffect DEF GoesOn, OnlyHandler
<1> QED BY <1>2, <1>3, <1>4, <1>5, <1>6, <1>7, <1>8 DEF Step

\* A run with tasks has been created.
LEMMA ChangedIsNotEarly ==
    ASSUME TypeAndFresh, NEW h \in Handler, NEW t \in Task, Change(h, t)
    PROVE  RunOf[t] \in Chosen \/ ~Early(RunOf[t])
<1>1. run[RunOf[t]] # Unknown
  BY DEF Change, Unknown
<1> QED BY <1>1, RunsAssumption DEF TypeAndFresh, UnbornInv, Unborn

\* Nothing becomes early again, and claims stay exclusive.
LEMMA ClaimKept ==
    ASSUME TypeAndFresh, Next
    PROVE  ClaimInv' /\ \A c \in Run \ Chosen : Early(c)' => Early(c)
<1> USE RunsAssumption DEF TypeAndFresh, ClaimInv, Early, Creating
<1>1. ASSUME NEW h \in Handler, NEW t \in Task, Delegate(h, t)
      PROVE  ClaimInv' /\ \A c \in Run \ Chosen : Early(c)' => Early(c)
  <2>1. /\ handler'[h].at = "write" /\ handler'[h].run = RunOf[t]
        /\ \A k \in Handler \ {h} : handler'[k] = handler[k]
    BY <1>1, DelegateChanges, ChangesTypes DEF TypeInv
  <2>2. used' = used \cup {RunOf[t]} /\ (RunOf[t] \in Chosen \/ Creating(RunOf[t]) = {})
    BY <1>1 DEF Delegate, Knows
  <2> QED BY <2>1, <2>2
<1>2. ASSUME NEW h \in Handler, NEW t \in Task, Change(h, t)
      PROVE  ClaimInv' /\ \A c \in Run \ Chosen : Early(c)' => Early(c)
  <2>1. /\ handler'[h].at = "write" /\ handler'[h].run = RunOf[t]
        /\ \A k \in Handler \ {h} : handler'[k] = handler[k]
    BY <1>2, ChangeChanges, ChangesTypes DEF TypeInv
  <2>2. used' = used /\ (RunOf[t] \in Chosen \/ ~Early(RunOf[t]))
    BY <1>2, ChangedIsNotEarly DEF Change
  <2> QED BY <2>1, <2>2
<1>3. ASSUME NEW h \in Handler, NEW q \in Requests, CheckId(h, q[1], q[2])
      PROVE  ClaimInv' /\ \A c \in Run \ Chosen : Early(c)' => Early(c)
  <2>1. /\ handler'[h].at = "free" /\ handler'[h].run = q[1]
        /\ \A k \in Handler \ {h} : handler'[k] = handler[k]
        /\ used' = used \cup {q[1]}
        /\ q[1] \in Chosen \/ q[1] \notin used
    BY <1>3 DEF CheckId, TypeInv, Typed
  <2> QED BY <2>1
<1>4. ASSUME NEW h \in Handler, Reconcile(h)
      PROVE  ClaimInv' /\ \A c \in Run \ Chosen : Early(c)' => Early(c)
  <2>1. /\ handler'[h].at = "reconciled" /\ handler'[h].run = NoRun
        /\ \A k \in Handler \ {h} : handler'[k] = handler[k]
        /\ used' = used
    BY <1>4 DEF Reconcile, TypeInv, Typed
  <2> QED BY <2>1
<1>5. ASSUME NEW h \in Handler, Step(h)
      PROVE  ClaimInv' /\ \A c \in Run \ Chosen : Early(c)' => Early(c)
  BY <1>5, StepGoesOn DEF GoesOn
<1>6. ASSUME Restart
      PROVE  ClaimInv' /\ \A c \in Run \ Chosen : Early(c)' => Early(c)
  BY <1>6, IdleType DEF Restart
<1> QED BY <1>1, <1>2, <1>3, <1>4, <1>5, <1>6 DEF Next

\* The runs in memory still say nothing of c.
StillUnborn(c) ==
    /\ run'[c] = Unknown
    /\ \A r \in Run : run'[r].parent # c /\ run'[r].entry[c] = NoEntry

LEMMA StillUnbornSuffices ==
    ASSUME Copied, NEW c \in Run, Unborn(c), StillUnborn(c)
    PROVE  Unborn(c)'
<1> DEFINE Silent(y) == y.parent # c /\ y.entry[c] = NoEntry
<1>1. run'[c] = Unknown
  BY DEF StillUnborn
<1>2. ASSUME NEW r \in Run
      PROVE  ~HasParent(r, c)' /\ ~HasEntry(r, c)'
  <2>1. Silent(run'[r]) /\ Silent(Unknown)
    BY UnknownFacts, RunsAssumption DEF StillUnborn
  <2>2. Silent(file[r]) /\ \A h \in Handler : Silent(handler[h].todo[r])
    BY DEF Unborn, HasParent, HasEntry
  <2>3. \A h \in Handler, q \in Run : Bears(h, r, q) => Silent(NewRun(q))
    <3> SUFFICES ASSUME NEW h \in Handler, NEW q \in Run, Bears(h, r, q)
                 PROVE  Silent(NewRun(q))
      OBVIOUS
    <3>1. q # c
      BY DEF Unborn, HasParent
    <3>2. NewRun(q).parent = q /\ NewRun(q).entry[c] = NoEntry
      BY NewRunFacts
    <3> QED BY <3>1, <3>2
  <2>4. \A h \in Handler : LikeMemory(r, handler'[h].todo[r]) => Silent(handler'[h].todo[r])
    BY <1>1, UnknownFacts DEF LikeMemory, Unborn, HasParent, HasEntry
  <2>5. \A h \in Handler : ~Bears(h, r, c)'
    BY <2>1 DEF Copied, Unborn, HasParent
  <2> HIDE DEF Silent
  <2>6. Silent(file'[r])
    BY <2>1, <2>2, <2>3 DEF Copied
  <2>7. \A h \in Handler : Silent(handler'[h].todo[r])
    BY <2>1, <2>2, <2>4 DEF Copied
  <2> QED BY <2>1, <2>5, <2>6, <2>7 DEF Silent, HasParent, HasEntry
<1> QED BY <1>1, <1>2 DEF Unborn

\* A change of a run other than c that leaves parents and entries alone.
LEMMA ChangesUnborn ==
    ASSUME Typed, NEW h \in Handler, NEW r \in Run, NEW x \in RunRecord, Changes(h, r, x),
           x.parent = run[r].parent, x.entry = run[r].entry,
           NEW c \in Run \ {r}, Unborn(c)
    PROVE  StillUnborn(c)
BY ChangesTypes DEF Unborn, StillUnborn, HasParent, HasEntry

LEMMA UnbornKept ==
    ASSUME TypeAndFresh, Next
    PROVE  UnbornInv'
<1> SUFFICES ASSUME NEW c \in Run \ Chosen, Early(c)'
             PROVE  Unborn(c)'
  BY DEF UnbornInv
<1>1. /\ Typed /\ KnownInv /\ Asked
      /\ Copied
      /\ Early(c) /\ Unborn(c)
      /\ c \notin used => \A h \in Handler : handler[h].run # c
      /\ \A h \in Creating(c) : \A k \in Handler \ {h} : handler[k].run # c
  BY StepKinds, ClaimKept DEF TypeAndFresh, TypeInv, UnbornInv, ClaimInv
<1> SUFFICES StillUnborn(c)
  BY <1>1, StillUnbornSuffices
<1>2. ASSUME run' = run
      PROVE  StillUnborn(c)
  BY <1>1, <1>2 DEF Unborn, StillUnborn, HasParent, HasEntry
<1>3. ASSUME NEW h \in Handler, NEW t \in Task, Delegate(h, t)
      PROVE  StillUnborn(c)
  <2>1. /\ handler'[h].at = "write"
        /\ \A k \in Handler \ {h} : handler'[k] = handler[k]
    BY <1>1, <1>3, DelegateChanges, ChangesTypes, RunsAssumption
  <2>2. c # RunOf[t]
    BY <1>1, <1>3, <2>1 DEF Delegate, Knows, Early, Creating
  <2>3. RunOf[t] \in Run
    BY RunsAssumption
  <2> QED BY <1>1, <1>3, <2>2, <2>3, DelegateChanges, ChangesUnborn
<1>4. ASSUME NEW h \in Handler, NEW t \in Task, Change(h, t)
      PROVE  StillUnborn(c)
  <2>1. c # RunOf[t] /\ RunOf[t] \in Run
    BY <1>1, <1>4, ChangedIsNotEarly, RunsAssumption
  <2> QED BY <1>1, <1>4, <2>1, ChangeChanges, ChangesUnborn
<1>5. ASSUME NEW h \in Handler, NEW q \in Requests, CheckId(h, q[1], q[2])
      PROVE  StillUnborn(c)
  BY <1>2, <1>5 DEF CheckId
<1>6. ASSUME NEW h \in Handler, Reconcile(h)
      PROVE  StillUnborn(c)
  BY <1>1, <1>6, ReconcileRuns DEF Unborn, StillUnborn, HasParent, HasEntry
<1>7. ASSUME NEW h \in Handler, Sync(h)
      PROVE  StillUnborn(c)
  <2>1. CASE Rolls(h)
    <3> DEFINE d == handler[h].run
               p == run[d].parent
               x == RolledUp(run[p], d, SummaryOf(run[d]))
    <3>1. d \in Run /\ p \in Run /\ run[p] \in RunRecord /\ p # c
      BY <1>1, <2>1, UnknownFacts DEF Rolls, Typed, Unborn
    <3>2. d # c
      BY <1>1, <1>7 DEF Early, Creating, Sync
    <3>3. x.parent = run[p].parent /\ x.entry[c] = run[p].entry[c]
      <4> DEFINE s == SummaryOf(run[d])
      <4>1. s \in Summary
        BY SummaryType
      <4> HIDE DEF s
      <4>2. /\ RolledUp(run[p], d, s).parent = run[p].parent
            /\ RolledUp(run[p], d, s).entry[c] = run[p].entry[c]
        BY <3>1, <3>2, <4>1, RolledUpFacts
      <4> QED BY <4>2 DEF s
    <3>4. /\ run'[p] = x
          /\ \A r \in Run \ {p} : run'[r] = run[r]
      BY <1>1, <2>1, <3>1 DEF Rolls, Typed
    <3> HIDE DEF x, p, d
    <3> QED BY <1>1, <3>1, <3>3, <3>4 DEF Unborn, StillUnborn, HasParent, HasEntry
  <2> QED BY <1>1, <1>2, <1>7, <2>1, SyncCases
<1>8. ASSUME NEW h \in Handler, Insert(h)
      PROVE  StillUnborn(c)
  <2>1. CASE Inserts(h)
    <3> DEFINE d == handler[h].run
               p == handler[h].parent
               x == Appended(run[p], d, SummaryOf(NewRun(p)))
    <3>1. d \in Run /\ p \in Run /\ run[p] \in RunRecord /\ p # c
      BY <1>1, <2>1, UnknownFacts DEF Inserts, Accepts, Typed, Unborn
    <3>2. d # c
      BY <1>1, <1>8, <2>1 DEF Inserts, Insert, OnlyHandler, Early, Creating
    <3>3. x.parent = run[p].parent /\ x.entry[c] = run[p].entry[c]
      <4> DEFINE s == SummaryOf(NewRun(p))
      <4>1. s \in Summary
        BY SummaryType
      <4> HIDE DEF s
      <4>2. /\ Appended(run[p], d, s).parent = run[p].parent
            /\ Appended(run[p], d, s).entry[c] = run[p].entry[c]
        BY <3>1, <3>2, <4>1, AppendedFacts
      <4> QED BY <4>2 DEF s
    <3>4. /\ d # p => run'[p] = x
          /\ run'[d] = NewRun(p)
          /\ \A r \in Run \ {d, p} : run'[r] = run[r]
      BY <2>1 DEF Inserts
    <3>5. NewRun(p).parent # c /\ NewRun(p).entry[c] = NoEntry
      BY <3>1, NewRunFacts
    <3> HIDE DEF x, p, d
    <3> QED BY <1>1, <3>1, <3>2, <3>3, <3>4, <3>5 DEF Unborn, StillUnborn, HasParent, HasEntry
  <2> QED BY <1>1, <1>2, <1>8, <2>1, InsertCases
<1>9. ASSUME NEW h \in Handler, Write(h) \/ WriteParent(h) \/ WriteFails(h) \/ CheckParent(h)
                                  \/ WriteChild(h) \/ WriteReconciled(h)
      PROVE  StillUnborn(c)
  BY <1>2, <1>9 DEF Write, WriteParent, WriteFails, CheckParent, WriteChild, WriteReconciled
<1>10. ASSUME Restart
       PROVE  StillUnborn(c)
  <2>1. file[c] = Unknown
    BY <1>1, UnknownFacts DEF KnownInv, Unborn
  <2>2. Restarts
    BY <1>1, <1>10, RestartEffect
  <2> QED BY <1>1, <2>1, <2>2, UnknownFacts, RunsAssumption
      DEF Restarts, Unborn, StillUnborn, HasParent, HasEntry
<1> QED BY <1>3, <1>4, <1>5, <1>6, <1>7, <1>8, <1>9, <1>10 DEF Next, Step

-----------------------------------------------------------------------------
(* Ancestry *)

\* No copy gives a parent to a run that has none in memory.
RootInv == \A r, q \in Run : run[r].parent = NoRun => ~HasParent(r, q)

\* The parents that memory, files and copies give to runs form no circle of two
\* or more, and a run is its own parent only if that has been asked for.
EdgeInv ==
    \A set \in SUBSET Run : set # {} => \E r \in set : \A q \in set \ {r} : ~HasParent(r, q)
SelfInv == \A r \in Run : HasParent(r, r) => <<r, r>> \in Requests

\* A parent with a UUID has no parent.
FlatInv == \A r \in Run, q \in Run \ Chosen : HasParent(r, q) => run[q].parent = NoRun

AncestryInv == RootInv /\ EdgeInv /\ SelfInv /\ FlatInv
HierarchyInv == TypeAndFresh /\ AncestryInv

\* The parents that a step gives to a run are those of its copies.
LEMMA ParentsCopied ==
    ASSUME Copied, NEW r \in Run, NEW q \in Run, HasParent(r, q)'
    PROVE  HasParent(r, q) \/ run'[r].parent = q
<1>1. \A p \in Run : NewRun(p).parent = p
  BY NewRunFacts
<1>2. Unknown.parent # q
  BY UnknownFacts, RunsAssumption
<1>3. file'[r].parent = q => HasParent(r, q) \/ run'[r].parent = q
  BY <1>1, <1>2 DEF Copied, HasParent
<1>4. \A h \in Handler : handler'[h].todo[r].parent = q => HasParent(r, q) \/ run'[r].parent = q
  BY <1>2 DEF Copied, LikeMemory, HasParent
<1>5. \A h \in Handler : Bears(h, r, q)' => HasParent(r, q) \/ run'[r].parent = q
  BY DEF Copied, HasParent
<1> QED BY <1>3, <1>4, <1>5 DEF HasParent

LEMMA NotItsOwnParent ==
    ASSUME SelfInv, NEW r \in Run \ Chosen
    PROVE  ~HasParent(r, r)
BY RunsAssumption DEF SelfInv

LEMMA FewerEdges ==
    ASSUME EdgeInv, \A r, q \in Run : HasParent(r, q)' => HasParent(r, q)
    PROVE  EdgeInv'
<1> SUFFICES ASSUME NEW set \in SUBSET Run, set # {}
             PROVE  \E r \in set : \A q \in set \ {r} : ~HasParent(r, q)'
  BY DEF EdgeInv
<1> QED BY DEF EdgeInv

LEMMA AncestryKeptByKept ==
    ASSUME AncestryInv, Copied, Kept
    PROVE  AncestryInv'
<1>1. \A r, q \in Run : HasParent(r, q)' => HasParent(r, q)
  BY ParentsCopied DEF Kept, HasParent
<1>2. EdgeInv'
  BY <1>1, FewerEdges DEF AncestryInv
<1>3. SelfInv'
  BY <1>1 DEF AncestryInv, SelfInv
<1> QED BY <1>1, <1>2, <1>3 DEF AncestryInv, RootInv, FlatInv, Kept

LEMMA AncestryKeptByRestart ==
    ASSUME Typed', AncestryInv, Restarts
    PROVE  AncestryInv'
<1>1. \A r, q \in Run : HasParent(r, q)' => run'[r].parent = q /\ file[r].parent = q
  <2>1. \A h \in Handler, r, q \in Run : ~Bears(h, r, q)' /\ handler'[h].todo[r].parent # q
    BY IdleType, UnknownFacts, RunsAssumption DEF Restarts, Bears
  <2> QED BY <2>1, UnknownFacts, RunsAssumption DEF Restarts, HasParent
<1>2. \A r, q \in Run : HasParent(r, q)' => HasParent(r, q)
  BY <1>1 DEF HasParent
<1>3. EdgeInv'
  BY <1>2, FewerEdges DEF AncestryInv
<1>4. RootInv'
  BY <1>1, RunsAssumption DEF RootInv
<1>5. FlatInv'
  <2> SUFFICES ASSUME NEW r \in Run, NEW q \in Run \ Chosen, HasParent(r, q)'
               PROVE  run'[q].parent = NoRun
    BY DEF FlatInv
  <2>1. run[q].parent = NoRun
    BY <1>2 DEF AncestryInv, FlatInv
  <2>2. \A p \in Run : run'[q].parent # p
    BY <1>2, <2>1 DEF AncestryInv, RootInv, HasParent
  <2>3. run'[q].parent \in Run \cup {NoRun}
    BY DEF Typed, RunRecord
  <2> QED BY <2>2, <2>3
<1>6. SelfInv'
  BY <1>2 DEF AncestryInv, SelfInv
<1> QED BY <1>3, <1>4, <1>5, <1>6 DEF AncestryInv

\* The new child gets the only new parent, which has none itself.
LEMMA AncestryKeptByInsert ==
    ASSUME TypeAndFresh, AncestryInv, Copied, NEW h \in Handler, Insert(h), Inserts(h)
    PROVE  AncestryInv'
<1>0. PICK c \in Run, p \in Run : c = handler[h].run /\ p = handler[h].parent
  BY DEF Inserts
<1>1. /\ c \in Run /\ p \in Run /\ <<c, p>> \in Requests
      /\ run[p].parent = NoRun
  BY <1>0 DEF Inserts, Accepts
<1>2. /\ run'[c].parent = p
      /\ c # p => run'[p].parent = NoRun
      /\ \A r \in Run \ {c, p} : run'[r] = run[r]
  <2>1. run'[c].parent = p
    BY <1>0, <1>1, NewRunFacts DEF Inserts
  <2>2. c # p => run'[p].parent = NoRun
    <3> DEFINE s == SummaryOf(NewRun(p))
    <3>1. s \in Summary /\ run[p] \in RunRecord
      BY <1>1, SummaryType DEF TypeAndFresh, TypeInv, Typed
    <3> HIDE DEF s
    <3>2. Appended(run[p], c, s).parent = run[p].parent
      BY <1>1, <3>1, AppendedFacts
    <3>3. c # p => run'[p] = Appended(run[p], c, s)
      BY <1>0 DEF Inserts, s
    <3> QED BY <1>1, <3>2, <3>3
  <2> QED BY <1>0, <2>1, <2>2 DEF Inserts
<1>3. c \notin Chosen => \A r \in Run : ~HasParent(r, c)
  <2>1. h \in Creating(c)
    BY <1>0 DEF Creating, Insert
  <2> QED BY <1>1, <2>1 DEF TypeAndFresh, UnbornInv, Early, Unborn
<1>4. \A r, q \in Run : HasParent(r, q)' => HasParent(r, q) \/ (r = c /\ q = p)
  <2> SUFFICES ASSUME NEW r \in Run, NEW q \in Run, HasParent(r, q)'
               PROVE  HasParent(r, q) \/ (r = c /\ q = p)
    OBVIOUS
  <2>1. HasParent(r, q) \/ run'[r].parent = q
    BY ParentsCopied
  <2> QED BY <1>1, <1>2, <2>1, RunsAssumption DEF HasParent
<1>5. \A q \in Run \ {p} : ~HasParent(p, q)'
  BY <1>1, <1>4 DEF AncestryInv, RootInv
<1>6. RootInv'
  <2> SUFFICES ASSUME NEW r \in Run, NEW q \in Run, run'[r].parent = NoRun
               PROVE  ~HasParent(r, q)'
    BY DEF RootInv
  <2>1. r # c /\ run[r].parent = NoRun
    BY <1>1, <1>2, RunsAssumption
  <2> QED BY <1>4, <2>1 DEF AncestryInv, RootInv
<1>7. EdgeInv'
  <2> SUFFICES ASSUME NEW set \in SUBSET Run, set # {}
               PROVE  \E r \in set : \A q \in set \ {r} : ~HasParent(r, q)'
    BY DEF EdgeInv
  <2>1. CASE p \in set
    BY <1>5, <2>1
  <2>2. CASE p \notin set
    <3>1. PICK r \in set : \A q \in set \ {r} : ~HasParent(r, q)
      BY DEF AncestryInv, EdgeInv
    <3> QED BY <1>4, <2>2, <3>1
  <2> QED BY <2>1, <2>2
<1>8. FlatInv'
  <2>1. p \in Chosen \/ c # p
    BY <1>1, RunsAssumption
  <2> QED BY <1>1, <1>2, <1>3, <1>4, <2>1 DEF AncestryInv, FlatInv
<1>9. SelfInv'
  BY <1>1, <1>4 DEF AncestryInv, SelfInv
<1> QED BY <1>6, <1>7, <1>8, <1>9 DEF AncestryInv

LEMMA HierarchyInit == Init => HierarchyInv
<1> SUFFICES ASSUME Init
             PROVE  HierarchyInv
  OBVIOUS
<1>1. /\ \A r \in Run : run[r] = Unknown /\ file[r] = Unknown
      /\ \A h \in Handler : handler[h].run = NoRun /\ \A r \in Run : handler[h].todo[r] = Unknown
  BY IdleType DEF Init, Nothing
<1>2. \A r, q \in Run : ~HasParent(r, q) /\ ~HasEntry(r, q)
  <2>1. \A h \in Handler, r, q \in Run : ~Bears(h, r, q)
    BY IdleType DEF Init, Bears
  <2> QED BY <1>1, <2>1, UnknownFacts, RunsAssumption DEF HasParent, HasEntry
<1>3. UnbornInv /\ ClaimInv
  BY <1>1, <1>2, RunsAssumption DEF UnbornInv, ClaimInv, Unborn, Creating
<1>4. AncestryInv
  BY <1>2 DEF AncestryInv, RootInv, EdgeInv, SelfInv, FlatInv
<1> QED BY <1>3, <1>4, InitInv DEF HierarchyInv, TypeAndFresh

LEMMA HierarchyKept ==
    ASSUME HierarchyInv, [Next]_vars
    PROVE  HierarchyInv'
<1>1. CASE Next
  <2>1. TypeInv' /\ UnbornInv' /\ ClaimInv'
    BY <1>1, TypeInvKept, UnbornKept, ClaimKept DEF HierarchyInv, TypeAndFresh
  <2>2. AncestryInv'
    <3>1. /\ Typed' /\ Copied
          /\ (\E h \in Handler : Kinds(h)) \/ (Restart /\ Restarts)
      BY <1>1, StepKinds DEF HierarchyInv, TypeAndFresh, TypeInv
    <3>2. ASSUME NEW h \in Handler, Kinds(h)
          PROVE  AncestryInv'
      BY <3>1, <3>2, AncestryKeptByKept, AncestryKeptByInsert DEF Kinds, HierarchyInv
    <3> QED BY <3>1, <3>2, AncestryKeptByRestart DEF HierarchyInv
  <2> QED BY <2>1, <2>2 DEF HierarchyInv, TypeAndFresh
<1>2. CASE UNCHANGED vars
  BY <1>2 DEF vars, HierarchyInv, TypeAndFresh, TypeInv, Typed, KnownInv, Asked,
     UnbornInv, Early, Creating, Unborn, ClaimInv, AncestryInv, RootInv, EdgeInv, SelfInv,
     FlatInv, HasParent, HasEntry, Bears
<1> QED BY <1>1, <1>2

LEMMA ParentIsCopy ==
    ASSUME NEW r \in Run, NEW q \in Run, ParentOf(r) = q
    PROVE  HasParent(r, q)
BY DEF ParentOf, HasParent

\* Whatever runs are created at the same time, with whatever ids, and whatever
\* files a crash destroys, the ancestors of a run form no circle, unless a caller
\* has named one of them as its own parent.
THEOREM CirclesAreRequested == Spec => []CirclesAreAskedFor
<1>1. HierarchyInv => CirclesAreAskedFor
  <2> SUFFICES ASSUME HierarchyInv, NEW set \in SUBSET Run, set # {}
               PROVE  \E r \in set : \/ ParentOf(r) \notin set
                                     \/ ParentOf(r) = r /\ <<r, r>> \in Requests
    BY DEF CirclesAreAskedFor
  <2>1. PICK r \in set : \A q \in set \ {r} : ~HasParent(r, q)
    BY DEF HierarchyInv, AncestryInv, EdgeInv
  <2>2. ParentOf(r) \notin set \ {r}
    BY <2>1, ParentIsCopy
  <2>3. ParentOf(r) = r => <<r, r>> \in Requests
    BY ParentIsCopy DEF HierarchyInv, AncestryInv, SelfInv
  <2> QED BY <2>2, <2>3
<1> QED BY <1>1, HierarchyInit, HierarchyKept, PTL DEF Spec

\* Where no caller names a run as its own parent, every ancestry ends.
COROLLARY AncestriesEnd ==
    ASSUME \A r \in Run : <<r, r>> \notin Requests
    PROVE  Spec => []AncestryEnds
<1>1. CirclesAreAskedFor => AncestryEnds
  BY DEF CirclesAreAskedFor, AncestryEnds
<1> QED BY <1>1, CirclesAreRequested, PTL

\* Where no caller chooses the id of a run, a child run has no children
\* (docs/DEVELOPER_GUIDE.md: "child runs may not create grandchildren").
THEOREM ChildrenHaveNoChildren ==
    ASSUME Chosen = {}
    PROVE  Spec => []NoGrandchildren
<1>1. HierarchyInv => NoGrandchildren
  <2> SUFFICES ASSUME HierarchyInv, NEW r \in Run, ParentOf(r) # NoRun
               PROVE  ParentOf(ParentOf(r)) = NoRun
    BY DEF NoGrandchildren
  <2> DEFINE p == ParentOf(r)
  <2>1. p \in Run
    BY DEF ParentOf, HierarchyInv, TypeAndFresh, TypeInv, Typed, RunRecord
  <2>2. run[p].parent = NoRun
    BY <2>1, ParentIsCopy DEF HierarchyInv, AncestryInv, FlatInv
  <2>3. ParentOf(p) \in Run \cup {NoRun}
    BY <2>1 DEF ParentOf, HierarchyInv, TypeAndFresh, TypeInv, Typed, RunRecord
  <2>4. \A q \in Run : ParentOf(p) # q
    BY <2>1, <2>2, ParentIsCopy DEF HierarchyInv, AncestryInv, RootInv
  <2> QED BY <2>3, <2>4
<1> QED BY <1>1, HierarchyInit, HierarchyKept, PTL DEF Spec

-----------------------------------------------------------------------------
(* Roll-ups *)

\* The parent of a run that has been rolled up is in memory.
RaisedInv ==
    \A c \in Run \ behind, p \in Run : run[c].parent = p => run[p].known

\* RollUpAgrees for one run and one parent.
Agrees(c, p) ==
    c \notin behind /\ run[c].parent = p /\ run[p].known /\ ~Refreshing(c)
        => run[p].entry[c] = SummaryOf(run[c])

RollInv == HierarchyInv /\ RaisedInv /\ RollUpAgrees

LEMMA AgreesEverywhere ==
    RollUpAgrees <=> \A c, p \in Run \ Chosen : Agrees(c, p)
BY DEF RollUpAgrees, Agrees

\* Where c is quiet after a step, it was so before.
Quiet(c) ==
    c \notin behind' /\ ~Refreshing(c)' => c \notin behind /\ ~Refreshing(c)

LEMMA AgreesSame ==
    ASSUME RaisedInv, NEW c \in Run, NEW p \in Run, Agrees(c, p), Quiet(c),
           run'[c] = run[c], run'[p].entry[c] = run[p].entry[c]
    PROVE  Agrees(c, p)'
BY DEF RaisedInv, Agrees, Quiet

\* A handler that was not about to roll anything up does not stop doing so.
LEMMA QuietBegins ==
    ASSUME NEW h \in Handler, handler[h].at \notin {"write", "sync"},
           \A k \in Handler \ {h} : handler'[k] = handler[k],
           behind \subseteq behind', NEW c \in Run
    PROVE  Quiet(c)
BY DEF Quiet, Refreshing

LEMMA AgreesAfterChange ==
    ASSUME Typed, RaisedInv, NEW h \in Handler, NEW r \in Run, NEW x \in RunRecord,
           handler[h].at = "idle", Changes(h, r, x), x.entry = run[r].entry, behind' = behind,
           NEW c \in Run, NEW p \in Run, Agrees(c, p)
    PROVE  Agrees(c, p)'
<1>1. CASE c = r
  BY <1>1, ChangesTypes DEF Agrees, Refreshing
<1>2. CASE c # r
  <2>1. Quiet(c)
    BY ChangesTypes, QuietBegins
  <2>2. run'[c] = run[c] /\ run'[p].entry[c] = run[p].entry[c]
    BY <1>2, ChangesTypes
  <2> QED BY <2>1, <2>2, AgreesSame
<1> QED BY <1>1, <1>2

LEMMA AgreesAfterSync ==
    ASSUME HierarchyInv, RaisedInv, NEW h \in Handler, Sync(h),
           NEW c \in Run \ Chosen, NEW p \in Run \ Chosen, Agrees(c, p)
    PROVE  Agrees(c, p)'
<1> USE DEF HierarchyInv, TypeAndFresh, TypeInv
<1>1. CASE Rolls(h)
  <2>1. PICK d \in Run, q \in Run : /\ d = handler[h].run /\ q = run[d].parent
    BY <1>1 DEF Rolls
  <2>2. HasParent(d, q)
    BY <2>1 DEF HasParent
  <2>3. d = q => d \in Chosen
    BY <2>2, NotItsOwnParent DEF AncestryInv
  <2> DEFINE s == SummaryOf(run[d])
  <2>4. s \in Summary /\ run[q] \in RunRecord
    BY SummaryType DEF Typed
  <2>5. /\ run'[q] = RolledUp(run[q], d, s)
        /\ \A r \in Run \ {q} : run'[r] = run[r]
        /\ behind' = behind \ {d}
        /\ \A k \in Handler \ {h} : handler'[k] = handler[k]
    <3> HIDE DEF s
    <3>1. run' = [run EXCEPT ![q] = RolledUp(run[q], d, s)]
      BY <1>1, <2>1 DEF Rolls, s
    <3>2. behind' = behind \ {d} /\ OnlyHandler(h)
      BY <1>1, <2>1 DEF Rolls
    <3> QED BY <3>1, <3>2 DEF Typed, OnlyHandler
  <2> HIDE DEF s
  <2>6. /\ run'[q].entry[d] = s
        /\ run'[q].parent = run[q].parent
        /\ \A r \in Run \ {d} : run'[q].entry[r] = run[q].entry[r]
    BY <2>4, <2>5, RolledUpFacts
  <2>7. CASE c = d
    BY <2>1, <2>3, <2>5, <2>6, <2>7 DEF Agrees, s
  <2>8. CASE c = q
    <3>1. run[c].parent = NoRun
      BY <2>2, <2>8 DEF AncestryInv, FlatInv
    <3> QED BY <2>6, <2>8, <3>1, RunsAssumption DEF Agrees
  <2>9. CASE c # d /\ c # q
    <3>1. Quiet(c)
      BY <2>1, <2>5, <2>9 DEF Quiet, Refreshing
    <3>2. run'[c] = run[c] /\ run'[p].entry[c] = run[p].entry[c]
      BY <2>5, <2>6, <2>9
    <3> QED BY <3>1, <3>2, AgreesSame
  <2> QED BY <2>7, <2>8, <2>9
<1>2. CASE Ends(h) /\ run' = run /\ behind' = behind
           /\ (run[handler[h].run].parent = NoRun \/ ~run[run[handler[h].run].parent].known)
  <2>1. CASE c = handler[h].run
    BY <1>2, <2>1, RunsAssumption DEF Agrees
  <2>2. CASE c # handler[h].run
    <3>1. Quiet(c)
      BY <1>2, <2>2, EndsTypes DEF Quiet, Refreshing
    <3> QED BY <1>2, <3>1, AgreesSame
  <2> QED BY <2>1, <2>2
<1> QED BY <1>1, <1>2, SyncCases

LEMMA AgreesAfterInsert ==
    ASSUME HierarchyInv, RaisedInv, NEW h \in Handler, Insert(h),
           NEW c \in Run \ Chosen, NEW p \in Run \ Chosen, Agrees(c, p)
    PROVE  Agrees(c, p)'
<1> USE DEF HierarchyInv, TypeAndFresh, TypeInv
<1>1. Quiet(c)
  <2>1. handler[h].at \notin {"write", "sync"} /\ behind' = behind
    BY DEF Insert
  <2>2. \A k \in Handler \ {h} : handler'[k] = handler[k]
    BY InsertCases, EndsTypes DEF Inserts, OnlyHandler
  <2> QED BY <2>1, <2>2, QuietBegins
<1>2. CASE Inserts(h)
  <2>1. PICK d \in Run, q \in Run : d = handler[h].run /\ q = handler[h].parent
    BY <1>2 DEF Inserts
  <2>2. /\ run[q].parent = NoRun
        /\ d = q => d \in Chosen
    BY <1>2, <2>1, RunsAssumption DEF Inserts, Accepts
  <2> DEFINE s == SummaryOf(NewRun(q))
  <2>3. s \in Summary /\ run[q] \in RunRecord
    BY SummaryType DEF Typed
  <2>4. /\ d # q => run'[q] = Appended(run[q], d, s)
        /\ run'[d] = NewRun(q)
        /\ \A r \in Run \ {d, q} : run'[r] = run[r]
    BY <1>2, <2>1 DEF Inserts
  <2>5. d \notin Chosen => Unborn(d)
    BY <2>1 DEF UnbornInv, Early, Creating, Insert
  <2>6. NewRun(q).parent = q
    BY NewRunFacts
  <2> HIDE DEF s
  <2>7. d # q => /\ run'[q].parent = run[q].parent
                 /\ run[q].entry[d] = NoEntry => run'[q].entry[d] = s
                 /\ \A r \in Run \ {d} : run'[q].entry[r] = run[q].entry[r]
    BY <2>3, <2>4, AppendedFacts
  <2>8. CASE c = d
    <3>1. run[q].entry[d] = NoEntry
      BY <2>5, <2>8 DEF Unborn, HasEntry
    <3> QED BY <2>2, <2>4, <2>6, <2>7, <2>8, <3>1 DEF Agrees, s
  <2>9. CASE c = q
    BY <2>2, <2>7, <2>9, RunsAssumption DEF Agrees
  <2>10. CASE c # d /\ c # q /\ p = d
    <3>1. run[c].parent # p
      BY <2>5, <2>10 DEF Unborn, HasParent
    <3> QED BY <2>4, <2>10, <3>1 DEF Agrees
  <2>11. CASE c # d /\ c # q /\ p # d
    <3>1. run'[c] = run[c] /\ run'[p].entry[c] = run[p].entry[c]
      BY <2>4, <2>7, <2>11
    <3> QED BY <1>1, <3>1, AgreesSame
  <2> QED BY <2>8, <2>9, <2>10, <2>11
<1>3. CASE run' = run
  BY <1>1, <1>3, AgreesSame
<1> QED BY <1>2, <1>3, InsertCases

LEMMA AgreesKept ==
    ASSUME RollInv, Next, NEW c \in Run \ Chosen, NEW p \in Run \ Chosen
    PROVE  Agrees(c, p)'
<1>1. /\ Typed /\ KnownInv /\ Asked /\ HierarchyInv /\ RaisedInv /\ Agrees(c, p)
  BY AgreesEverywhere DEF RollInv, HierarchyInv, TypeAndFresh, TypeInv
<1>2. ASSUME NEW h \in Handler, NEW t \in Task, Delegate(h, t)
      PROVE  Agrees(c, p)'
  <2>1. RunOf[t] \in Run /\ handler[h].at = "idle" /\ behind' = behind
    BY <1>2, RunsAssumption DEF Delegate, Begins
  <2> QED BY <1>1, <1>2, <2>1, DelegateChanges, AgreesAfterChange
<1>3. ASSUME NEW h \in Handler, NEW t \in Task, Change(h, t)
      PROVE  Agrees(c, p)'
  <2>1. RunOf[t] \in Run /\ handler[h].at = "idle" /\ behind' = behind
    BY <1>3, RunsAssumption DEF Change, Begins
  <2> QED BY <1>1, <1>3, <2>1, ChangeChanges, AgreesAfterChange
<1>4. ASSUME NEW h \in Handler, NEW q \in Requests, CheckId(h, q[1], q[2])
      PROVE  Agrees(c, p)'
  <2>1. /\ handler[h].at = "idle" /\ behind' = behind /\ run' = run
        /\ \A k \in Handler \ {h} : handler'[k] = handler[k]
    BY <1>1, <1>4 DEF CheckId, Begins, Typed
  <2> QED BY <1>1, <2>1, QuietBegins, AgreesSame
<1>5. ASSUME NEW h \in Handler, Reconcile(h)
      PROVE  Agrees(c, p)'
  <2>1. /\ handler[h].at = "idle" /\ behind \subseteq behind'
        /\ \A k \in Handler \ {h} : handler'[k] = handler[k]
    BY <1>1, <1>5 DEF Reconcile, Begins, Typed
  <2>2. Quiet(c)
    BY <2>1, QuietBegins
  <2>3. CASE c \in behind'
    BY <2>3 DEF Agrees
  <2>4. CASE c \notin behind'
    BY <1>1, <1>5, <2>2, <2>4, ReconcileRuns, AgreesSame
  <2> QED BY <2>3, <2>4
<1>6. ASSUME NEW h \in Handler, Write(h)
      PROVE  Agrees(c, p)'
  <2>1. Quiet(c) /\ run' = run
    BY <1>1, <1>6 DEF Write, Quiet, Refreshing, Typed, HandlerRecord
  <2> QED BY <1>1, <2>1, AgreesSame
<1>7. ASSUME NEW h \in Handler, WriteFails(h)
      PROVE  Agrees(c, p)'
  <2>1. Ends(h) /\ run' = run
    BY <1>7 DEF WriteFails
  <2>2. CASE handler[h].at = "write" /\ handler[h].run = c
    BY <1>7, <2>2 DEF WriteFails, Agrees
  <2>3. CASE ~(handler[h].at = "write" /\ handler[h].run = c)
    <3>1. Quiet(c)
      BY <1>1, <1>7, <2>1, <2>3, EndsTypes DEF WriteFails, Quiet, Refreshing
    <3> QED BY <1>1, <2>1, <3>1, AgreesSame
  <2> QED BY <2>2, <2>3
<1>8. ASSUME NEW h \in Handler,
             WriteParent(h) \/ CheckParent(h) \/ WriteChild(h) \/ WriteReconciled(h)
      PROVE  Agrees(c, p)'
  <2>1. GoesOn(h)
    BY <1>8, StepGoesOn DEF RollInv, HierarchyInv, TypeAndFresh, Step
  <2>2. handler[h].at \notin {"write", "sync"} /\ run' = run /\ behind' = behind
    BY <1>8 DEF WriteParent, CheckParent, WriteChild, WriteReconciled
  <2>3. Quiet(c)
    BY <2>1, <2>2, QuietBegins DEF GoesOn
  <2> QED BY <1>1, <2>2, <2>3, AgreesSame
<1>9. ASSUME Restart
      PROVE  Agrees(c, p)'
  BY <1>9 DEF Restart, Agrees
<1> QED BY <1>1, <1>2, <1>3, <1>4, <1>5, <1>6, <1>7, <1>8, <1>9, AgreesAfterSync, AgreesAfterInsert
    DEF Next, Step

\* Only a roll-up into a parent in memory takes a run off the list.
LEMMA BehindGrows ==
    ASSUME TypeInv, NEW h \in Handler, Kinds(h)
    PROVE  \/ behind \subseteq behind'
           \/ Rolls(h)
<1> USE DEF TypeInv
<1>1. CASE Sync(h)
  BY <1>1, SyncCases
<1>2. CASE ~Sync(h)
  BY <1>2 DEF Kinds, Delegate, Change, CheckId, Reconcile, Write, WriteParent, WriteFails,
     CheckParent, WriteChild, WriteReconciled, Insert
<1> QED BY <1>1, <1>2

LEMMA RaisedKept ==
    ASSUME RollInv, Next
    PROVE  RaisedInv'
<1>1. TypeInv /\ Typed /\ KnownInv /\ RaisedInv
  BY DEF RollInv, HierarchyInv, TypeAndFresh, TypeInv
<1>2. ASSUME NEW h \in Handler, Kinds(h), Kept
      PROVE  RaisedInv'
  <2>1. CASE behind \subseteq behind'
    BY <1>1, <1>2, <2>1 DEF RaisedInv, Kept
  <2>2. CASE Rolls(h)
    <3>1. PICK d \in Run : /\ behind' = behind \ {d}
                           /\ run[d].parent \in Run /\ run[run[d].parent].known
      BY <2>2 DEF Rolls
    <3> QED BY <1>1, <1>2, <3>1 DEF RaisedInv, Kept
  <2> QED BY <1>1, <1>2, <2>1, <2>2, BehindGrows
<1>3. ASSUME NEW h \in Handler, Insert(h), Inserts(h)
      PROVE  RaisedInv'
  <2>1. PICK d \in Run, q \in Run : d = handler[h].run /\ q = handler[h].parent
    BY <1>3 DEF Inserts
  <2> DEFINE s == SummaryOf(NewRun(q))
  <2>2. s \in Summary /\ run[q] \in RunRecord /\ run[q].known = TRUE
    BY <1>1, <1>3, <2>1, SummaryType DEF Typed, RunRecord, Inserts, Accepts
  <2>3. /\ d # q => run'[q] = Appended(run[q], d, s)
        /\ run'[d] = NewRun(q)
        /\ \A r \in Run \ {d, q} : run'[r] = run[r]
    BY <1>3, <2>1 DEF Inserts
  <2> HIDE DEF s
  <2>4. d # q => run'[q].known = TRUE /\ run'[q].parent = run[q].parent
    BY <2>2, <2>3, AppendedFacts
  <2>5. run'[d].known = TRUE /\ run'[d].parent = q
    BY <2>3, NewRunFacts
  <2>6. behind' = behind
    BY <1>3 DEF Insert
  <2> QED BY <1>1, <2>3, <2>4, <2>5, <2>6 DEF RaisedInv
<1>4. ASSUME Restarts
      PROVE  RaisedInv'
  BY <1>4 DEF Restarts, RaisedInv
<1>5. (\E h \in Handler : Kinds(h)) \/ (Restart /\ Restarts)
  BY StepKinds DEF RollInv, HierarchyInv, TypeAndFresh, TypeInv
<1> QED BY <1>2, <1>3, <1>4, <1>5 DEF Kinds

\* However many handlers of a run, of its siblings and of its parent overlap,
\* fail or are cut off by a crash: what the parent shows of the run is what it
\* is, as soon as the last of the run's handlers has rolled it up.
THEOREM RollUpsAgree == Spec => []RollUpAgrees
<1>1. Init => RollInv
  <2> SUFFICES ASSUME Init
               PROVE  RollInv
    OBVIOUS
  <2>1. \A r \in Run : run[r] = Unknown
    BY DEF Init, Nothing
  <2>2. RaisedInv /\ RollUpAgrees
    BY <2>1, UnknownFacts, RunsAssumption DEF RaisedInv, RollUpAgrees
  <2> QED BY <2>2, HierarchyInit DEF RollInv
<1>2. RollInv /\ [Next]_vars => RollInv'
  <2> SUFFICES ASSUME RollInv, [Next]_vars
               PROVE  RollInv'
    OBVIOUS
  <2>1. HierarchyInv'
    BY HierarchyKept DEF RollInv
  <2>2. CASE Next
    <3>1. \A c, p \in Run \ Chosen : Agrees(c, p)'
      BY <2>2, AgreesKept
    <3>2. RollUpAgrees'
      BY <3>1 DEF RollUpAgrees, Agrees
    <3> QED BY <2>1, <2>2, <3>2, RaisedKept DEF RollInv
  <2>3. CASE UNCHANGED vars
    BY <2>1, <2>3 DEF vars, RollInv, RaisedInv, RollUpAgrees, Refreshing
  <2> QED BY <2>2, <2>3
<1>3. RollInv => RollUpAgrees
  BY DEF RollInv
<1> QED BY <1>1, <1>2, <1>3, PTL DEF Spec
=============================================================================
