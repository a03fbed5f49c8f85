------------------------- MODULE TaskManagerProofs --------------------------
(***************************************************************************)
(* Theorems about TaskManager, for every set of tasks and threads, every   *)
(* tree of parents and every bound on the calls.                           *)
(***************************************************************************)
EXTENDS TaskManager, FiniteSetTheorems, NaturalsInduction, SequenceTheorems,
        TLAPS

\* What the theorems need of a list: its fields are there, no dependencies
\* form a circle, and the current task is in it.
Fields == {"live", "status", "blockedBy", "job", "current"}
Sound(l) ==
    /\ DOMAIN l = Fields
    /\ l = [f \in Fields |-> l[f]]
    /\ DOMAIN l.blockedBy = Task
    /\ l.blockedBy = [t \in Task |-> l.blockedBy[t]]
    /\ Acyclic(l)
    /\ l.current \in l.live \cup {NoTask}

SoundCall(k) ==
    /\ k = [at |-> k.at, todo |-> k.todo, list |-> k.list]
    /\ Sound(k.list)

ListInv ==
    /\ Sound(disk) /\ Sound(cache) /\ Sound(snapshot)
    /\ DOMAIN call = Caller
    /\ call = [c \in Caller |-> call[c]]
    /\ \A c \in Caller : SoundCall(call[c])

-----------------------------------------------------------------------------
(* Dependencies *)

\* add_dependency: when t is not among the tasks that `on` waits for, the new
\* dependency closes no circle.  A set that keeps two tasks apart in the old
\* list is turned into one that does so in the new list, with the help of the
\* set C that keeps t away from `on`.
LEMMA DependencyClosesNoCycle ==
    ASSUME NEW l, NEW m, NEW t, NEW on,
           Acyclic(l), ~ClosesCycle(l, t, on),
           m.blockedBy = [l.blockedBy EXCEPT ![t] = @ \cup {on}],
           DOMAIN l.blockedBy = Task
    PROVE  Acyclic(m)
<1>1. PICK C \in SUBSET Task : on \in C /\ SelfContained(l, C) /\ t \notin C
  BY DEF ClosesCycle, DependsOn
<1>2. SUFFICES ASSUME NEW x \in Task, NEW d \in m.blockedBy[x]
               PROVE  \E S \in SUBSET Task :
                          d \in S /\ SelfContained(m, S) /\ x \notin S
  BY DEF Acyclic, DependsOn
<1>3. \A y \in Task : y # t => m.blockedBy[y] = l.blockedBy[y]
  OBVIOUS
<1>4. t \in Task => m.blockedBy[t] = l.blockedBy[t] \cup {on}
  OBVIOUS
<1>5. \A S \in SUBSET Task : SelfContained(l, S) /\ t \notin S => SelfContained(m, S)
  BY <1>3 DEF SelfContained
<1>6. CASE d \in l.blockedBy[x]
  <2>1. PICK S \in SUBSET Task : d \in S /\ SelfContained(l, S) /\ x \notin S
    BY <1>6 DEF Acyclic, DependsOn
  <2>2. CASE x \in C
    <3>1. S \cap C \in SUBSET Task /\ d \in S \cap C /\ x \notin S \cap C
      BY <1>1, <1>6, <2>1, <2>2 DEF SelfContained
    <3>2. SelfContained(l, S \cap C) /\ t \notin S \cap C
      BY <1>1, <2>1 DEF SelfContained
    <3> QED BY <1>5, <3>1, <3>2
  <2>3. CASE x \notin C
    <3>1. S \cup C \in SUBSET Task /\ d \in S \cup C /\ x \notin S \cup C
      BY <2>1, <2>3
    <3>2. SelfContained(m, S \cup C)
      BY <1>1, <1>3, <1>4, <2>1 DEF SelfContained
    <3> QED BY <3>1, <3>2
  <2> QED BY <2>2, <2>3
<1>7. CASE d \notin l.blockedBy[x]
  <2>1. x = t /\ d = on
    BY <1>3, <1>4, <1>7
  <2> QED BY <1>1, <1>5, <2>1
<1> QED BY <1>6, <1>7

\* Fewer dependencies close no circle.
LEMMA FewerDependencies ==
    ASSUME NEW l, NEW m, Acyclic(l),
           \A x \in Task : m.blockedBy[x] \subseteq l.blockedBy[x]
    PROVE  Acyclic(m)
<1>1. \A S \in SUBSET Task : SelfContained(l, S) => SelfContained(m, S)
  BY DEF SelfContained
<1> QED BY <1>1 DEF Acyclic, DependsOn

\* A list stays sound when its dependencies do and the current task does.
LEMMA SoundUpdate ==
    ASSUME NEW l, NEW live, NEW status, NEW blockedBy, NEW job, NEW current,
           blockedBy = [t \in Task |-> blockedBy[t]],
           Acyclic([live |-> live, status |-> status, blockedBy |-> blockedBy,
                    job |-> job, current |-> current]),
           current \in live \cup {NoTask}
    PROVE  Sound([live |-> live, status |-> status, blockedBy |-> blockedBy,
                  job |-> job, current |-> current])
BY DEF Sound, Fields

-----------------------------------------------------------------------------
(* Mutations *)

\* Every mutation of a sound list that is accepted leads to a sound list.
LEMMA MutationKeepsSound ==
    ASSUME NEW l, NEW o, Sound(l), Sound(snapshot), Accepts(l, o)
    PROVE  Sound(Mutated(l, o))
<1>0. DOMAIN l = Fields /\ DOMAIN l.blockedBy = Task /\ Acyclic(l)
  BY DEF Sound
<1>1. CASE o.kind = "create"
  <2>1. Mutated(l, o) = [l EXCEPT !.live = @ \cup {o.task}]
    BY <1>1 DEF Mutated
  <2>2. Mutated(l, o).blockedBy = l.blockedBy
    BY <1>0, <2>1 DEF Fields
  <2>3. Acyclic(Mutated(l, o))
    BY <1>0, <2>2, FewerDependencies
  <2> QED BY <2>1, <2>2, <2>3 DEF Sound, Fields
<1>2. CASE o.kind = "materialize"
  <2>1. Mutated(l, o) = [l EXCEPT !.live = @ \cup ToMaterialize(o.task)]
    BY <1>2 DEF Mutated
  <2>2. Mutated(l, o).blockedBy = l.blockedBy
    BY <1>0, <2>1 DEF Fields
  <2>3. Acyclic(Mutated(l, o))
    BY <1>0, <2>2, FewerDependencies
  <2> QED BY <2>1, <2>2, <2>3 DEF Sound, Fields
<1>3. CASE o.kind = "delete"
  <2>1. Mutated(l, o) = Removed(l, o.task)
    BY <1>3 DEF Mutated
  <2>2. Mutated(l, o).blockedBy = [l.blockedBy EXCEPT ![o.task] = {}]
    BY <1>0, <2>1 DEF Removed, Fields
  <2>3. Acyclic(Mutated(l, o))
    BY <1>0, <2>2, FewerDependencies
  <2>4. /\ Mutated(l, o).live = l.live \ {o.task}
        /\ Mutated(l, o).current =
              IF l.current = o.task THEN NoTask ELSE l.current
    BY <1>0, <2>1 DEF Removed, Fields
  <2>5. /\ DOMAIN Mutated(l, o) = Fields
        /\ Mutated(l, o) = [f \in Fields |-> Mutated(l, o)[f]]
    BY <1>0, <2>1 DEF Removed
  <2>6. Mutated(l, o).current \in Mutated(l, o).live \cup {NoTask}
    BY <2>4 DEF Sound
  <2> QED BY <1>0, <2>2, <2>3, <2>5, <2>6 DEF Sound
<1>4. CASE o.kind = "status"
  <2>1. PICK u : Mutated(l, o) = WithStatuses(l, u)
    BY <1>4 DEF Mutated
  <2>2. Mutated(l, o).blockedBy = l.blockedBy
    BY <1>0, <2>1 DEF WithStatuses, Fields
  <2>3. Acyclic(Mutated(l, o))
    BY <1>0, <2>2, FewerDependencies
  <2> QED BY <2>1, <2>2, <2>3 DEF Sound, Fields, WithStatuses
<1>5. CASE o.kind = "depend"
  <2>1. Mutated(l, o) = [l EXCEPT !.blockedBy[o.task] = @ \cup {o.on}]
    BY <1>5 DEF Mutated
  <2>2. Mutated(l, o).blockedBy = [l.blockedBy EXCEPT ![o.task] = @ \cup {o.on}]
    BY <1>0, <2>1 DEF Fields
  <2>3. ~ClosesCycle(l, o.task, o.on)
    BY <1>5 DEF Accepts
  <2>4. Acyclic(Mutated(l, o))
    BY <1>0, <2>2, <2>3, DependencyClosesNoCycle
  <2> QED BY <2>1, <2>2, <2>4 DEF Sound, Fields
<1>6. CASE o.kind = "job"
  <2>1. PICK j : Mutated(l, o) = [l EXCEPT !.job[o.task] = j]
    BY <1>6 DEF Mutated
  <2>2. Mutated(l, o).blockedBy = l.blockedBy
    BY <1>0, <2>1 DEF Fields
  <2>3. Acyclic(Mutated(l, o))
    BY <1>0, <2>2, FewerDependencies
  <2> QED BY <2>1, <2>2, <2>3 DEF Sound, Fields
<1>7. CASE o.kind = "focus"
  <2>1. Mutated(l, o) = [l EXCEPT !.current = o.task]
    BY <1>7 DEF Mutated
  <2>2. Mutated(l, o).blockedBy = l.blockedBy
    BY <1>0, <2>1 DEF Fields
  <2>3. Acyclic(Mutated(l, o))
    BY <1>0, <2>2, FewerDependencies
  <2>4. o.task \in l.live \cup {NoTask}
    BY <1>7 DEF Accepts
  <2> QED BY <2>1, <2>2, <2>3, <2>4 DEF Sound, Fields
<1>8. CASE o.kind = "replace"
  BY <1>8 DEF Mutated
<1>9. CASE o.kind \notin {"create", "materialize", "delete", "status", "depend",
                        "job", "focus", "replace"}
  BY <1>9 DEF Mutated
<1> QED BY <1>1, <1>2, <1>3, <1>4, <1>5, <1>6, <1>7, <1>8, <1>9

\* The empty list is sound.
LEMMA EmptyListIsSound == Sound(EmptyList)
<1>1. EmptyList.blockedBy = [t \in Task |-> {}]
  BY DEF EmptyList
<1>2. Acyclic(EmptyList)
  BY <1>1 DEF Acyclic
<1> QED BY <1>1, <1>2 DEF Sound, Fields, EmptyList

-----------------------------------------------------------------------------
(* The invariant *)

\* The lists are sound when the process starts, ...
LEMMA InitEstablishesListInv == Init => ListInv
<1> SUFFICES ASSUME Init PROVE ListInv
  OBVIOUS
<1>1. PICK live \in SUBSET Task : disk = [EmptyList EXCEPT !.live = live]
  BY DEF Init
<1>2. disk.blockedBy = [t \in Task |-> {}] /\ disk.current = NoTask
  BY <1>1 DEF EmptyList
<1>3. Acyclic(disk)
  BY <1>2 DEF Acyclic
<1>4. Sound(disk)
  BY <1>1, <1>2, <1>3 DEF Sound, Fields, EmptyList
<1>5. \A c \in Caller : call[c] = NoCall
  BY DEF Init
<1>6. SoundCall(NoCall)
  BY EmptyListIsSound DEF SoundCall, NoCall
<1> QED BY <1>4, <1>5, <1>6, EmptyListIsSound DEF Init, ListInv

\* What the steps write into a call.
LEMMA SoundCalls ==
    ASSUME NEW k, SoundCall(k), NEW at, NEW todo, NEW l, Sound(l)
    PROVE  /\ SoundCall([k EXCEPT !.todo = todo])
           /\ SoundCall([k EXCEPT !.at = at])
           /\ SoundCall([k EXCEPT !.at = at, !.list = l])
<1> DEFINE new(a, b, m) == [at |-> a, todo |-> b, list |-> m]
<1>1. k = new(k.at, k.todo, k.list) /\ Sound(k.list)
  BY DEF SoundCall
<1>2. /\ [k EXCEPT !.todo = todo] = new(k.at, todo, k.list)
      /\ [k EXCEPT !.at = at] = new(at, k.todo, k.list)
  BY <1>1
<1>3. [k EXCEPT !.at = at, !.list = l] = new(at, k.todo, l)
  <2>1. \A r : r = new(at, k.todo, k.list) => [r EXCEPT !.list = l] = new(at, k.todo, l)
    OBVIOUS
  <2>2. [[k EXCEPT !.at = at] EXCEPT !.list = l] = new(at, k.todo, l)
    BY <1>2, <2>1
  <2> QED BY <2>2
<1>4. \A a, b, m : Sound(m) => SoundCall(new(a, b, m))
  BY DEF SoundCall
<1> QED BY <1>1, <1>2, <1>3, <1>4

\* A step that writes one thread's call, with a sound list in it.
LEMMA CallWritten ==
    ASSUME ListInv, NEW c \in Caller, NEW k, SoundCall(k),
           call' = [call EXCEPT ![c] = k]
    PROVE  /\ DOMAIN call' = Caller
           /\ call' = [x \in Caller |-> call'[x]]
           /\ \A x \in Caller : SoundCall(call'[x])
BY DEF ListInv

\* The next operation, done on a sound list, leaves sound lists.
LEMMA OperateKeepsListInv ==
    ASSUME ListInv, NEW c \in Caller, NEW l, Sound(l), Operate(c, l)
    PROVE  ListInv'
<1> DEFINE o == Head(call[c].todo)
<1>1. PICK at, todo, list :
         /\ call' = [call EXCEPT ![c] = [at |-> at, todo |-> todo, list |-> list]]
         /\ list = EmptyList \/ (list = Mutated(l, o) /\ Accepts(l, o))
  BY DEF Operate
<1>2. Sound(list)
  BY <1>1, EmptyListIsSound, MutationKeepsSound DEF ListInv
<1>3. SoundCall([at |-> at, todo |-> todo, list |-> list])
  BY <1>2 DEF SoundCall
<1>4. UNCHANGED <<disk, cache, snapshot>>
  BY DEF Operate
<1> QED BY <1>1, <1>3, <1>4, CallWritten DEF ListInv

\* Every step of a thread writes its call, the file or the cache, and only
\* with lists that are kept somewhere already, or that a mutation makes.
LEMMA NextKeepsListInv == ListInv /\ [Next]_vars => ListInv'
<1> SUFFICES ASSUME ListInv, [Next]_vars PROVE ListInv'
  OBVIOUS
<1>0. /\ Sound(disk) /\ Sound(cache) /\ Sound(snapshot)
      /\ \A c \in Caller : SoundCall(call[c]) /\ Sound(call[c].list)
  BY DEF ListInv, SoundCall
<1>7. SoundCall(NoCall)
  BY EmptyListIsSound DEF SoundCall, NoCall
<1>1. ASSUME NEW c \in Caller, NEW todo, Begin(c, todo) PROVE ListInv'
  <2>1. SoundCall([call[c] EXCEPT !.todo = todo])
    BY <1>0, SoundCalls
  <2>2. call' = [call EXCEPT ![c] = [call[c] EXCEPT !.todo = todo]]
    BY <1>1 DEF Begin
  <2> QED BY <1>1, <2>1, <2>2, CallWritten DEF Begin, ListInv
<1>2. ASSUME NEW c \in Caller, Load(c) PROVE ListInv'
  <2>1. SoundCall([call[c] EXCEPT !.at = "load", !.list = disk])
    BY <1>0, SoundCalls
  <2>2. call' = [call EXCEPT ![c] = [call[c] EXCEPT !.at = "load", !.list = disk]]
    BY <1>2 DEF Load, ListInv
  <2> QED BY <1>2, <2>1, <2>2, CallWritten DEF Load, ListInv
<1>13. ASSUME NEW c \in Caller, LoadFails(c) PROVE ListInv'
  BY <1>7, <1>13, CallWritten DEF LoadFails, ListInv
<1>3. ASSUME NEW c \in Caller, Fill(c) PROVE ListInv'
  <2>1. SoundCall([call[c] EXCEPT !.at = "ready"])
    BY <1>0, SoundCalls
  <2>2. call' = [call EXCEPT ![c] = [call[c] EXCEPT !.at = "ready"]]
    BY <1>3 DEF Fill
  <2> QED BY <1>0, <1>3, <2>1, <2>2, CallWritten DEF Fill, ListInv
<1>4. ASSUME NEW c \in Caller, OnCached(c) PROVE ListInv'
  BY <1>0, <1>4, OperateKeepsListInv DEF OnCached
<1>5. ASSUME NEW c \in Caller, OnLoaded(c) PROVE ListInv'
  BY <1>0, <1>5, OperateKeepsListInv DEF OnLoaded
<1>14. ASSUME NEW c \in Caller, Truncate(c) PROVE ListInv'
  <2>1. SoundCall([call[c] EXCEPT !.at = "write"])
    BY <1>0, SoundCalls
  <2>2. call' = [call EXCEPT ![c] = [call[c] EXCEPT !.at = "write"]]
    BY <1>14 DEF Truncate
  <2> QED BY <1>0, <1>14, <2>1, <2>2, CallWritten, EmptyListIsSound DEF Truncate, ListInv
<1>6. ASSUME NEW c \in Caller, Save(c) PROVE ListInv'
  <2>1. SoundCall([call[c] EXCEPT !.at = "publish"])
    BY <1>0, SoundCalls
  <2>2. call' = [call EXCEPT ![c] = [call[c] EXCEPT !.at = "publish"]]
    BY <1>6 DEF Save
  <2>3. Sound(disk')
    BY <1>0, <1>6, EmptyListIsSound DEF Save
  <2> QED BY <1>0, <1>6, <2>1, <2>2, <2>3, CallWritten DEF Save, ListInv
<1>8. ASSUME NEW c \in Caller, SaveFails(c) PROVE ListInv'
  <2>1. Sound(disk')
    BY <1>0, <1>8, EmptyListIsSound DEF SaveFails
  <2> QED BY <1>7, <1>8, <2>1, CallWritten DEF SaveFails, ListInv
<1>9. ASSUME NEW c \in Caller, Publish(c) PROVE ListInv'
  <2>1. SoundCall([NoCall EXCEPT !.todo = Tail(call[c].todo)])
    BY <1>7, EmptyListIsSound, SoundCalls
  <2> QED BY <1>0, <1>9, <2>1, CallWritten DEF Publish, ListInv
<1>10. ASSUME Checkpoint PROVE ListInv'
  BY <1>10 DEF Checkpoint, ListInv
<1>11. ASSUME Restart PROVE ListInv'
  BY <1>7, <1>11, EmptyListIsSound DEF Restart, ListInv
<1>12. ASSUME UNCHANGED vars PROVE ListInv'
  BY <1>12 DEF vars, ListInv
<1> QED BY <1>1, <1>2, <1>3, <1>4, <1>5, <1>6, <1>8, <1>9, <1>10, <1>11, <1>12,
           <1>13, <1>14
        DEF Next

\* So they always are.
LEMMA ListsAreSound == Spec => []ListInv
<1> QED BY InitEstablishesListInv, NextKeepsListInv, PTL DEF Spec

-----------------------------------------------------------------------------

\* Whatever lists the threads read, change and write over each other's, and
\* whatever checkpoint is restored, no list the program keeps has a circle of
\* dependencies: add_dependency looks at the very list it changes.
THEOREM NoCircles == Spec => []DependenciesAcyclic
<1>1. ListInv => DependenciesAcyclic
  BY DEF ListInv, SoundCall, Sound, DependenciesAcyclic, Lists
<1> QED BY <1>1, ListsAreSound, PTL

\* In every list the program keeps, the current task is a task of that list.
THEOREM CurrentTaskExists == Spec => []CurrentExists
<1>1. ListInv => CurrentExists
  BY DEF ListInv, SoundCall, Sound, CurrentExists, Lists
<1> QED BY <1>1, ListsAreSound, PTL

-----------------------------------------------------------------------------
(* Recursion *)

\* Every non-empty subset of S has an element whose predecessor is not in it.
Founded(S, Has, pred) ==
    \A T \in SUBSET S : T # {} => \E x \in T : x \in Has => pred[x] \notin T

\* A value is defined for each element from that of its predecessor, or for an
\* element without one: a function obeys such rules.
Obeys(f, S, Has, pred, base, step) ==
    \A x \in S : f[x] = IF x \in Has THEN step[<<x, f[pred[x]]>>] ELSE base[x]

\* A relation closed under the rules.
ClosedUnder(Q, S, Has, pred, base, step) ==
    /\ \A x \in S \ Has : <<x, base[x]>> \in Q
    /\ \A x \in Has : \A v : <<pred[x], v>> \in Q => <<x, step[<<x, v>>]>> \in Q

\* Along predecessors that come to an end a function can be defined: the least
\* relation closed under the rules is one.
LEMMA RecursionDefines ==
    ASSUME NEW S, NEW V, NEW Has, Has \subseteq S,
           NEW pred, \A x \in Has : pred[x] \in S,
           Founded(S, Has, pred),
           NEW base, \A x \in S \ Has : base[x] \in V,
           NEW step, \A x \in Has : \A v \in V : step[<<x, v>>] \in V
    PROVE  \E f \in [S -> V] : Obeys(f, S, Has, pred, base, step)
<1> DEFINE P(Q) == ClosedUnder(Q, S, Has, pred, base, step)
           R == {p \in S \X V : \A Q \in SUBSET (S \X V) : P(Q) => p \in Q}
           One(x) == \E v \in V : <<x, v>> \in R /\ \A w \in V : <<x, w>> \in R => w = v
<1>0. \A x \in S, v \in V : <<x, v>> \in S \X V
  OBVIOUS
<1>1. R \in SUBSET (S \X V) /\ \A Q \in SUBSET (S \X V) : P(Q) => R \subseteq Q
  OBVIOUS
<1>2. /\ \A x \in S \ Has : <<x, base[x]>> \in R
      /\ \A x \in Has : \A v \in V : <<pred[x], v>> \in R => <<x, step[<<x, v>>]>> \in R
  <2>1. \A x \in S \ Has : <<x, base[x]>> \in R
    BY <1>0 DEF ClosedUnder
  <2>2. ASSUME NEW x \in Has, NEW v \in V, <<pred[x], v>> \in R
        PROVE  <<x, step[<<x, v>>]>> \in R
    <3>1. <<x, step[<<x, v>>]>> \in S \X V
      BY <1>0
    <3>2. ASSUME NEW Q \in SUBSET (S \X V), P(Q) PROVE <<x, step[<<x, v>>]>> \in Q
      <4>1. <<pred[x], v>> \in Q
        BY <1>1, <2>2, <3>2
      <4> QED BY <3>2, <4>1 DEF ClosedUnder
    <3> QED BY <3>1, <3>2
  <2> QED BY <2>1, <2>2
<1>3. P(R)
  <2>1. ASSUME NEW x \in Has, NEW v, <<pred[x], v>> \in R PROVE v \in V
    BY <1>1, <2>1
  <2> HIDE DEF R
  <2> QED BY <1>2, <2>1 DEF ClosedUnder
\* What the rules give nothing for can be taken away.
<1>4. ASSUME NEW x \in S, NEW w \in V,
             x \notin Has => w # base[x],
             x \in Has => \A v \in V : <<pred[x], v>> \in R => step[<<x, v>>] # w
      PROVE  <<x, w>> \notin R
  <2> DEFINE Q == R \ {<<x, w>>}
  <2>1. P(Q)
    <3>1. \A y \in S \ Has : <<y, base[y]>> \in Q
      BY <1>2, <1>4
    <3>2. ASSUME NEW y \in Has, NEW v, <<pred[y], v>> \in Q PROVE <<y, step[<<y, v>>]>> \in Q
      <4>1. <<pred[y], v>> \in R /\ v \in V
        BY <1>1, <3>2
      <4>2. <<y, step[<<y, v>>]>> \in R
        BY <1>2, <4>1
      <4>3. y = x => step[<<y, v>>] # w
        BY <1>4, <4>1
      <4> HIDE DEF R
      <4> QED BY <4>2, <4>3
    <3> HIDE DEF Q
    <3> QED BY <3>1, <3>2 DEF ClosedUnder
  <2>2. Q \in SUBSET (S \X V)
    BY <1>1
  <2>3. R \subseteq Q
    BY <1>1, <2>1, <2>2
  <2> HIDE DEF R
  <2> QED BY <2>3
<1> HIDE DEF R, P
<1>5. \A x \in S : One(x)
  <2> DEFINE T == {x \in S : ~One(x)}
  <2> SUFFICES ASSUME T # {} PROVE FALSE
    OBVIOUS
  <2>1. T \in SUBSET S
    OBVIOUS
  <2>2. PICK x \in T : x \in Has => pred[x] \notin T
    BY <2>1 DEF Founded
  <2>3. CASE x \notin Has
    <3>1. x \in S /\ base[x] \in V /\ <<x, base[x]>> \in R
      BY <1>2, <2>3
    <3>2. \A w \in V : <<x, w>> \in R => w = base[x]
      BY <1>4, <2>3, <3>1
    <3> QED BY <3>1, <3>2
  <2>4. CASE x \in Has
    <3>1. PICK v \in V : <<pred[x], v>> \in R /\ \A w \in V : <<pred[x], w>> \in R => w = v
      BY <2>2, <2>4
    <3>2. x \in S /\ step[<<x, v>>] \in V /\ <<x, step[<<x, v>>]>> \in R
      BY <1>2, <2>4, <3>1
    <3>3. \A w \in V : <<x, w>> \in R => w = step[<<x, v>>]
      BY <1>4, <2>4, <3>1, <3>2
    <3> QED BY <3>2, <3>3
  <2> QED BY <2>3, <2>4
<1> DEFINE f == [x \in S |-> CHOOSE v \in V : <<x, v>> \in R]
<1>6. f \in [S -> V] /\ \A x \in S : <<x, f[x]>> \in R
  BY <1>5
<1>7. \A x \in S, w \in V : <<x, w>> \in R => f[x] = w
  BY <1>5, <1>6
<1> HIDE DEF f
<1>8. ASSUME NEW x \in S
      PROVE  f[x] = IF x \in Has THEN step[<<x, f[pred[x]]>>] ELSE base[x]
  <2>1. CASE x \notin Has
    BY <1>2, <1>7, <2>1
  <2>2. CASE x \in Has
    <3>1. f[pred[x]] \in V /\ <<pred[x], f[pred[x]]>> \in R
      BY <1>6, <2>2
    <3>2. step[<<x, f[pred[x]]>>] \in V /\ <<x, step[<<x, f[pred[x]]>>]>> \in R
      BY <1>2, <2>2, <3>1
    <3> QED BY <1>7, <2>2, <3>2
  <2> QED BY <2>1, <2>2
<1> QED BY <1>6, <1>8 DEF Obeys

\* A set of naturals has a least element.
LEMMA LeastElement ==
    ASSUME NEW T \in SUBSET Nat, T # {}
    PROVE  \E n \in T : \A m \in T : ~(m < n)
<1> DEFINE R == OpToRel(<, Nat)
<1>1. IsWellFoundedOn(R, Nat)
  BY NatLessThanWellFounded
<1>2. \A m, n \in Nat : m < n => <<m, n>> \in R
  BY DEF OpToRel
<1> HIDE DEF R
<1>3. \E n \in T : \A m \in T : <<m, n>> \notin R
  BY <1>1, WFMin
<1> QED BY <1>2, <1>3

\* What holds of 0, and of i when it holds of i - 1, holds up to n.
LEMMA UpTo ==
    ASSUME NEW n \in Nat, NEW T \in SUBSET (0..n), 0 \in T,
           \A i \in 1..n : i - 1 \in T => i \in T
    PROVE  T = 0..n
<1> DEFINE U == (0..n) \ T
<1> SUFFICES ASSUME U # {} PROVE FALSE
  OBVIOUS
<1>0. U \in SUBSET Nat
  OBVIOUS
<1>1. PICK m \in U : \A k \in U : ~(k < m)
  <2> HIDE DEF U
  <2> QED BY <1>0, LeastElement
<1>2. m \in 1..n
  BY <1>1
<1>3. m - 1 \in T
  BY <1>1, <1>2
<1> QED BY <1>1, <1>2, <1>3

-----------------------------------------------------------------------------
(* Parents *)

\* The tasks whose parent is in the list.
Below(l) == {x \in Task : Parent[x] \in l.live}

\* Every list comes to the end of its parents.
LEMMA ParentsAreFounded ==
    ASSUME NEW l, l.live \in SUBSET Task
    PROVE  Founded(Task, Below(l), Parent) /\ \A x \in Below(l) : Parent[x] \in Task
BY ParentsAssumption DEF Founded, Below

\* The ancestors of a task are its parent and the ancestors of that.
LEMMA AncestorsAre ==
    ASSUME NEW l, l.live \in SUBSET Task
    PROVE  \A x \in Task :
              /\ Ancestors(l, x) \in Seq(l.live)
              /\ Ancestors(l, x) = IF Parent[x] \in l.live
                                   THEN <<Parent[x]>> \o Ancestors(l, Parent[x])
                                   ELSE <<>>
<1> DEFINE up == CHOOSE g : g = [x \in Task |-> IF Parent[x] \in l.live
                                                THEN <<Parent[x]>> \o g[Parent[x]]
                                                ELSE <<>>]
           V == Seq(l.live)
           base == [x \in Task |-> <<>>]
           step == [p \in Task \X V |-> <<Parent[p[1]]>> \o p[2]]
<1>1. \A x \in Task : Ancestors(l, x) = up[x]
  BY DEF Ancestors
<1>2. \A x \in Below(l) : \A v \in V : step[<<x, v>>] = <<Parent[x]>> \o v /\ step[<<x, v>>] \in V
  <2> TAKE x \in Below(l)
  <2> TAKE v \in V
  <2>1. <<x, v>> \in Task \X V /\ Parent[x] \in l.live
    BY DEF Below
  <2>2. <<Parent[x]>> \in Seq(l.live)
    BY <2>1
  <2>3. <<Parent[x]>> \o v \in V
    BY <2>2, ConcatProperties
  <2> QED BY <2>1, <2>3
<1>3. \A x \in Task : base[x] = <<>> /\ base[x] \in V
  BY EmptySeq
<1> HIDE DEF step, base, V
<1>4. PICK f \in [Task -> V] : Obeys(f, Task, Below(l), Parent, base, step)
  <2>1. /\ Below(l) \subseteq Task /\ \A x \in Below(l) : Parent[x] \in Task
        /\ Founded(Task, Below(l), Parent)
    BY ParentsAreFounded DEF Below
  <2> QED BY <1>2, <1>3, <2>1, RecursionDefines
<1>5. ASSUME NEW x \in Task
      PROVE  f[x] = IF Parent[x] \in l.live THEN <<Parent[x]>> \o f[Parent[x]] ELSE <<>>
  <2>1. f[x] = IF x \in Below(l) THEN step[<<x, f[Parent[x]]>>] ELSE base[x]
    BY <1>4 DEF Obeys
  <2>2. CASE x \in Below(l)
    <3>1. Parent[x] \in l.live /\ f[Parent[x]] \in V
      BY <1>4, <2>2 DEF Below
    <3> QED BY <1>2, <2>1, <2>2, <3>1
  <2>3. CASE x \notin Below(l)
    BY <1>3, <2>1, <2>3 DEF Below
  <2> QED BY <2>2, <2>3
<1>6. f = [x \in Task |-> IF Parent[x] \in l.live THEN <<Parent[x]>> \o f[Parent[x]] ELSE <<>>]
  BY <1>4, <1>5
<1>7. up = [x \in Task |-> IF Parent[x] \in l.live THEN <<Parent[x]>> \o up[Parent[x]] ELSE <<>>]
  BY <1>6
<1> HIDE DEF up
<1>8. \A x \in Task : up[x] = IF Parent[x] \in l.live THEN <<Parent[x]>> \o up[Parent[x]] ELSE <<>>
  BY <1>7
<1>9. \A x \in Task : up[x] \in V
  <2> DEFINE T == {x \in Task : up[x] \notin V}
  <2> SUFFICES ASSUME T # {} PROVE FALSE
    OBVIOUS
  <2>1. PICK x \in T : x \in Below(l) => Parent[x] \notin T
    BY ParentsAreFounded DEF Founded
  <2>2. x \notin Below(l) => up[x] \in V
    BY <1>3, <1>8 DEF Below
  <2>3. x \in Below(l) => up[x] = step[<<x, up[Parent[x]]>>] /\ up[Parent[x]] \in V
    BY <1>2, <1>8, <2>1 DEF Below
  <2> QED BY <1>2, <2>1, <2>2, <2>3
<1> QED BY <1>1, <1>8, <1>9 DEF V

\* A task is below another when its parent is that one or is below it.
LEMMA DescendantsAre ==
    ASSUME NEW l, l.live \in SUBSET Task, NEW t \in Task
    PROVE  /\ Descendants(l, t) \subseteq l.live
           /\ \A x \in l.live : x \in Descendants(l, t) <=>
                 Parent[x] = t \/ (Parent[x] \in l.live /\ Parent[x] \in Descendants(l, t))
<1> DEFINE below == CHOOSE g : g = [x \in Task |->
                        /\ x \in l.live
                        /\ Parent[x] = t \/ (Parent[x] \in l.live /\ g[Parent[x]])]
           base == [x \in Task |-> x \in l.live /\ Parent[x] = t]
           step == [p \in Task \X BOOLEAN |->
                        p[1] \in l.live /\ (Parent[p[1]] = t \/ p[2])]
<1>1. Descendants(l, t) = {x \in Task : below[x]}
  BY DEF Descendants
<1>2. \A x \in Task : \A v \in BOOLEAN :
         /\ step[<<x, v>>] = (x \in l.live /\ (Parent[x] = t \/ v))
         /\ step[<<x, v>>] \in BOOLEAN
  OBVIOUS
<1>3. \A x \in Task : base[x] = (x \in l.live /\ Parent[x] = t) /\ base[x] \in BOOLEAN
  OBVIOUS
<1> HIDE DEF step, base
<1>4. PICK f \in [Task -> BOOLEAN] : Obeys(f, Task, Below(l), Parent, base, step)
  <2>1. /\ Below(l) \subseteq Task /\ \A x \in Below(l) : Parent[x] \in Task
        /\ Founded(Task, Below(l), Parent)
    BY ParentsAreFounded DEF Below
  <2> QED BY <1>2, <1>3, <2>1, RecursionDefines
<1>5. ASSUME NEW x \in Task
      PROVE  f[x] = (/\ x \in l.live
                     /\ Parent[x] = t \/ (Parent[x] \in l.live /\ f[Parent[x]]))
  <2>1. f[x] = IF x \in Below(l) THEN step[<<x, f[Parent[x]]>>] ELSE base[x]
    BY <1>4 DEF Obeys
  <2>2. CASE x \in Below(l)
    <3>1. Parent[x] \in l.live /\ f[Parent[x]] \in BOOLEAN
      BY <1>4, <2>2 DEF Below
    <3> QED BY <1>2, <2>1, <2>2, <3>1
  <2>3. CASE x \notin Below(l)
    BY <1>3, <2>1, <2>3 DEF Below
  <2> QED BY <2>2, <2>3
<1>6. f = [x \in Task |-> /\ x \in l.live
                          /\ Parent[x] = t \/ (Parent[x] \in l.live /\ f[Parent[x]])]
  BY <1>4, <1>5
<1>7. below = [x \in Task |-> /\ x \in l.live
                              /\ Parent[x] = t \/ (Parent[x] \in l.live /\ below[Parent[x]])]
  BY <1>6
<1> HIDE DEF below
<1>8. \A x \in Task : below[x] = (/\ x \in l.live
                                  /\ Parent[x] = t \/ (Parent[x] \in l.live /\ below[Parent[x]]))
  BY <1>7
<1> QED BY <1>1, <1>8

-----------------------------------------------------------------------------
(* Ancestors and descendants *)

\* They depend on nothing but the tasks that are in the list.
LEMMA SameFamily ==
    ASSUME NEW l, NEW m, m.live = l.live, NEW x
    PROVE  /\ Ancestors(m, x) = Ancestors(l, x)
           /\ Above(m, x) = Above(l, x)
           /\ Descendants(m, x) = Descendants(l, x)
BY DEF Ancestors, Above, Descendants

\* A sequence of one element.
LEMMA OneElement ==
    ASSUME NEW S, NEW e \in S
    PROVE  <<e>> \in Seq(S) /\ Len(<<e>>) = 1 /\ <<e>>[1] = e
OBVIOUS

\* The tasks above one are its parent and the tasks above that.
LEMMA AboveIs ==
    ASSUME NEW l, l.live \in SUBSET Task
    PROVE  \A x \in Task :
              /\ Above(l, x) \subseteq l.live
              /\ Above(l, x) = IF Parent[x] \in l.live
                               THEN {Parent[x]} \cup Above(l, Parent[x]) ELSE {}
<1> SUFFICES ASSUME NEW x \in Task
             PROVE  /\ Above(l, x) \subseteq l.live
                    /\ Above(l, x) = IF Parent[x] \in l.live
                                     THEN {Parent[x]} \cup Above(l, Parent[x]) ELSE {}
  OBVIOUS
<1>1. Ancestors(l, x) \in Seq(l.live)
  BY AncestorsAre
<1>2. Above(l, x) \subseteq l.live
  BY <1>1, RangeOfSeq DEF Above
<1>3. CASE Parent[x] \in l.live
  <2>1. Ancestors(l, x) = <<Parent[x]>> \o Ancestors(l, Parent[x])
    BY <1>3, AncestorsAre
  <2>2. Ancestors(l, Parent[x]) \in Seq(l.live) /\ <<Parent[x]>> \in Seq(l.live)
    <3>1. Parent[x] \in Task
      BY <1>3
    <3>2. <<Parent[x]>> \in Seq(l.live)
      BY <1>3, OneElement
    <3> QED BY <3>1, <3>2, AncestorsAre
  <2>3. Range(<<Parent[x]>>) = {Parent[x]}
    BY DEF Range
  <2> QED BY <1>2, <1>3, <2>1, <2>2, <2>3, RangeConcatenation DEF Above
<1>4. CASE Parent[x] \notin l.live
  <2>1. Ancestors(l, x) = <<>>
    BY <1>4, AncestorsAre
  <2> QED BY <1>2, <1>4, <2>1 DEF Above, Range
<1> QED BY <1>3, <1>4

\* A task is below all the tasks above it.
LEMMA BelowWhatIsAbove ==
    ASSUME NEW l, l.live \in SUBSET Task
    PROVE  \A x \in l.live : \A a \in Above(l, x) : x \in Descendants(l, a)
<1> DEFINE T == {x \in l.live : \E a \in Above(l, x) : x \notin Descendants(l, a)}
<1> SUFFICES ASSUME T # {} PROVE FALSE
  OBVIOUS
<1>1. T \in SUBSET Task
  OBVIOUS
<1>2. PICK x \in T : Parent[x] \notin T
  <2> HIDE DEF T
  <2> QED BY <1>1, ParentsAssumption
<1>3. PICK a \in Above(l, x) : x \notin Descendants(l, a)
  OBVIOUS
<1>4. x \in l.live /\ x \in Task /\ a \in Task
  BY <1>3, AboveIs
<1>5. Parent[x] \in l.live /\ a \in {Parent[x]} \cup Above(l, Parent[x])
  BY <1>3, <1>4, AboveIs
<1>6. a = Parent[x] \/ Parent[x] \in Descendants(l, a)
  BY <1>2, <1>5
<1> QED BY <1>3, <1>4, <1>5, <1>6, DescendantsAre

\* What is below a task that is below another is below that one.
LEMMA DescendantsNest ==
    ASSUME NEW l, l.live \in SUBSET Task, NEW y \in Task, NEW z \in Task,
           y \in Descendants(l, z)
    PROVE  Descendants(l, y) \subseteq Descendants(l, z)
<1> DEFINE T == Descendants(l, y) \ Descendants(l, z)
<1> SUFFICES ASSUME T # {} PROVE FALSE
  OBVIOUS
<1>1. Descendants(l, y) \subseteq l.live /\ Descendants(l, z) \subseteq l.live
  BY DescendantsAre
<1>2. T \in SUBSET Task
  BY <1>1
<1>3. PICK x \in T : Parent[x] \notin T
  <2> HIDE DEF T
  <2> QED BY <1>2, ParentsAssumption
<1>4. Parent[x] = y \/ (Parent[x] \in l.live /\ Parent[x] \in Descendants(l, y))
  BY <1>1, DescendantsAre
<1>5. Parent[x] \in l.live /\ Parent[x] \in Descendants(l, z)
  BY <1>1, <1>3, <1>4
<1> QED BY <1>1, <1>5, DescendantsAre

\* No task is below itself.
LEMMA NotBelowItself ==
    ASSUME NEW l, l.live \in SUBSET Task, NEW x \in Task
    PROVE  x \notin Descendants(l, x)
<1> SUFFICES ASSUME x \in Descendants(l, x) PROVE FALSE
  OBVIOUS
<1>1. Descendants(l, x) \in SUBSET Task
  BY DescendantsAre
<1>2. PICK y \in Descendants(l, x) : Parent[y] \notin Descendants(l, x)
  BY <1>1, ParentsAssumption
<1> QED BY <1>2, DescendantsAre

\* Nothing is both above and below a task.
LEMMA AboveIsNotBelow ==
    ASSUME NEW l, l.live \in SUBSET Task, NEW x \in l.live
    PROVE  /\ x \notin Above(l, x)
           /\ \A a \in Above(l, x) : a \notin Descendants(l, x)
<1>1. ASSUME NEW a \in Above(l, x) PROVE x # a /\ a \notin Descendants(l, x)
  <2>1. a \in Task /\ x \in Descendants(l, a)
    BY AboveIs, BelowWhatIsAbove
  <2>2. a \notin Descendants(l, a)
    BY <2>1, NotBelowItself
  <2>3. a \in Descendants(l, x) => a \in Descendants(l, a)
    BY <2>1, DescendantsNest
  <2> QED BY <2>1, <2>2, <2>3
<1> QED BY <1>1

\* The later ancestors of a task are those of the earlier ones.
LEMMA AncestorsInOrder ==
    ASSUME NEW l, l.live \in SUBSET Task
    PROVE  \A x \in Task : \A i, j \in 1..Len(Ancestors(l, x)) :
              i < j => Ancestors(l, x)[j] \in Above(l, Ancestors(l, x)[i])
<1> DEFINE A(x) == Ancestors(l, x)
           Good(x) == \A i, j \in 1..Len(A(x)) : i < j => A(x)[j] \in Above(l, A(x)[i])
           T == {x \in Task : ~Good(x)}
<1> HIDE DEF A
<1> SUFFICES ASSUME T # {} PROVE FALSE
  BY DEF A
<1>1. PICK x \in T : Parent[x] \notin T
  <2>1. T \in SUBSET Task
    OBVIOUS
  <2> HIDE DEF T
  <2> QED BY <2>1, ParentsAssumption
<1>2. PICK i \in 1..Len(A(x)), j \in 1..Len(A(x)) : i < j /\ A(x)[j] \notin Above(l, A(x)[i])
  OBVIOUS
<1>3. /\ A(x) \in Seq(l.live)
      /\ A(x) = IF Parent[x] \in l.live THEN <<Parent[x]>> \o A(Parent[x]) ELSE <<>>
  BY AncestorsAre DEF A
<1>4. Parent[x] \in l.live
  BY <1>2, <1>3
<1> DEFINE p == Parent[x]
<1>5. p \in Task /\ A(p) \in Seq(l.live) /\ Good(p)
  BY <1>1, <1>4, AncestorsAre DEF A
<1>6. /\ Len(A(x)) = 1 + Len(A(p)) /\ A(x)[1] = p
      /\ \A k \in 2..Len(A(x)) : A(x)[k] = A(p)[k - 1]
  <2>1. A(x) = <<p>> \o A(p)
    BY <1>3, <1>4
  <2>2. <<p>> \in Seq(l.live) /\ Len(<<p>>) = 1 /\ <<p>>[1] = p
    BY <1>4, OneElement
  <2> HIDE DEF p
  <2> QED BY <1>5, <2>1, <2>2, ConcatProperties
<1>7. Len(A(p)) \in Nat
  BY <1>5
<1>8. j \in 2..Len(A(x)) /\ j - 1 \in 1..Len(A(p)) /\ A(x)[j] = A(p)[j - 1]
  BY <1>2, <1>6, <1>7
<1>9. CASE i = 1
  <2>1. A(p)[j - 1] \in Above(l, p)
    BY <1>5, <1>8 DEF A, Above, Range
  <2> QED BY <1>2, <1>6, <1>8, <1>9, <2>1
<1>10. CASE i # 1
  <2>1. i \in 2..Len(A(x)) /\ i - 1 \in 1..Len(A(p)) /\ A(x)[i] = A(p)[i - 1] /\ i - 1 < j - 1
    BY <1>2, <1>6, <1>7, <1>8, <1>10
  <2>2. A(p)[j - 1] \in Above(l, A(p)[i - 1])
    BY <1>5, <1>8, <2>1
  <2> QED BY <1>2, <1>8, <2>1, <2>2
<1> QED BY <1>9, <1>10

-----------------------------------------------------------------------------
(* Statuses *)

\* Lists that differ in nothing but the statuses and the current task.
Alike(l, m) ==
    /\ m \in List
    /\ m.live = l.live /\ m.blockedBy = l.blockedBy /\ m.job = l.job
    /\ m.current \in {l.current, NoTask}

\* set_status gives one task a status.
LEMMA WithStatusIs ==
    ASSUME NEW l \in List, NEW t \in Task, NEW s \in Status
    PROVE  /\ Alike(l, WithStatus(l, t, s))
           /\ WithStatus(l, t, s).status = [l.status EXCEPT ![t] = s]
<1> DEFINE current == IF l.current = t /\ s \in Terminal THEN NoTask ELSE l.current
           status == [l.status EXCEPT ![t] = s]
           m == WithStatus(l, t, s)
<1>1. m = [l EXCEPT !.status = status, !.current = current]
  BY DEF WithStatus, List
<1>2. /\ status \in [Task -> Status]
      /\ current \in Task \cup {NoTask} /\ current \in {l.current, NoTask}
  BY DEF List
<1> HIDE DEF m, status, current
<1>3. /\ m \in List /\ m.status = status /\ m.current = current
      /\ m.live = l.live /\ m.blockedBy = l.blockedBy /\ m.job = l.job
  BY <1>1, <1>2 DEF List
<1> QED BY <1>2, <1>3 DEF Alike, status, m

\* A round of the reconciliation gives a status to one ancestor, and completes
\* it only if it can be completed.
LEMMA ReconciledIs ==
    ASSUME NEW l \in List, NEW a \in Task
    PROVE  /\ Alike(l, Reconciled(l, a))
           /\ \A x \in Task \ {a} : Reconciled(l, a).status[x] = l.status[x]
           /\ Reconciled(l, a).status[a] = "completed" => CanComplete(l, a)
<1> DEFINE next == IF CanComplete(l, a) THEN "completed"
                   ELSE IF IsBlocked(l, a) THEN "blocked" ELSE "in_progress"
<1>1. next \in Status /\ (next = "completed" => CanComplete(l, a))
  BY DEF Status
<1>2. Reconciled(l, a) = IF l.status[a] \in {"cancelled", next} THEN l
                         ELSE WithStatus(l, a, next)
  BY DEF Reconciled
<1> HIDE DEF next
<1>3. CASE l.status[a] \in {"cancelled", next}
  <2>1. Reconciled(l, a) = l
    BY <1>2, <1>3
  <2> QED BY <1>1, <1>3, <2>1 DEF Alike
<1>4. CASE l.status[a] \notin {"cancelled", next}
  <2>1. Reconciled(l, a) = WithStatus(l, a, next)
    BY <1>2, <1>4
  <2>2. /\ Alike(l, Reconciled(l, a))
        /\ Reconciled(l, a).status = [l.status EXCEPT ![a] = next]
    BY <1>1, <2>1, WithStatusIs
  <2>3. l.status \in [Task -> Status]
    BY DEF List
  <2> QED BY <1>1, <2>2, <2>3
<1> QED BY <1>3, <1>4

\* update_task_status goes through the ancestors round by round.
LEMMA RoundsAre ==
    ASSUME NEW l \in List, NEW t \in Task, NEW s \in Status
    PROVE  LET n == Len(Ancestors(l, t))
           IN  /\ n \in Nat
               /\ \A i \in 1..n : Ancestors(l, t)[i] \in l.live
               /\ \E after \in [0..n -> List] :
                     /\ after[0] = WithStatus(l, t, s)
                     /\ \A i \in 1..n :
                           after[i] = Reconciled(after[i - 1], Ancestors(l, t)[i])
                     /\ StatusUpdated(l, t, s) = after[n]
<1> DEFINE up == Ancestors(l, t)
           n == Len(up)
           first == WithStatus(l, t, s)
           after == CHOOSE g : g = [i \in 0..n |-> IF i = 0 THEN first
                                                   ELSE Reconciled(g[i - 1], up[i])]
           pred == [i \in 1..n |-> i - 1]
           base == [i \in 0..n |-> first]
           step == [p \in (1..n) \X List |-> Reconciled(p[2], up[p[1]])]
<1>1. StatusUpdated(l, t, s) = after[n]
  BY DEF StatusUpdated
<1>2. l.live \in SUBSET Task
  BY DEF List
<1>3. up \in Seq(l.live)
  BY <1>2, AncestorsAre
<1>4. n \in Nat /\ \A i \in 1..n : up[i] \in l.live /\ up[i] \in Task
  BY <1>2, <1>3
<1> HIDE DEF up, n
<1>5. first \in List
  BY WithStatusIs DEF Alike
<1> HIDE DEF first
<1>6. \A i \in 1..n : \A m \in List :
         step[<<i, m>>] = Reconciled(m, up[i]) /\ step[<<i, m>>] \in List
  BY <1>4, ReconciledIs DEF Alike
<1>7. \A i \in 0..n : base[i] = first
  OBVIOUS
<1>8. Founded(0..n, 1..n, pred) /\ 1..n \subseteq 0..n /\ \A i \in 1..n : pred[i] \in 0..n
  <2>1. \A i \in 1..n : pred[i] = i - 1 /\ i - 1 \in 0..n /\ i - 1 < i
    BY <1>4
  <2>2. 0..n \subseteq Nat /\ 1..n \subseteq 0..n
    BY <1>4
  <2> HIDE DEF pred
  <2>3. ASSUME NEW T \in SUBSET (0..n), T # {}
        PROVE  \E x \in T : x \in 1..n => pred[x] \notin T
    <3>1. T \in SUBSET Nat
      BY <2>2
    <3>2. PICK x \in T : \A y \in T : ~(y < x)
      BY <2>3, <3>1, LeastElement
    <3> QED BY <2>1, <3>2
  <2> QED BY <2>1, <2>2, <2>3 DEF Founded
<1>9. \A i \in 1..n : pred[i] = i - 1
  OBVIOUS
<1> HIDE DEF pred, base, step
<1>10. PICK f \in [0..n -> List] : Obeys(f, 0..n, 1..n, pred, base, step)
  <2> DEFINE S == 0..n
             Has == 1..n
  <2>1. Has \subseteq S /\ Founded(S, Has, pred) /\ \A i \in Has : pred[i] \in S
    BY <1>8
  <2>2. \A i \in S \ Has : base[i] \in List
    BY <1>5, <1>7
  <2>3. \A i \in Has : \A m \in List : step[<<i, m>>] \in List
    BY <1>6
  <2> HIDE DEF S, Has
  <2>4. \E f \in [S -> List] : Obeys(f, S, Has, pred, base, step)
    BY <2>1, <2>2, <2>3, RecursionDefines
  <2> QED BY <2>4 DEF S, Has
<1>11. ASSUME NEW i \in 0..n
       PROVE  f[i] = IF i = 0 THEN first ELSE Reconciled(f[i - 1], up[i])
  <2>1. f[i] = IF i \in 1..n THEN step[<<i, f[pred[i]]>>] ELSE base[i]
    BY <1>10 DEF Obeys
  <2>2. CASE i = 0
    <3>1. i \notin 1..n
      BY <2>2
    <3> QED BY <1>7, <2>1, <2>2, <3>1
  <2>3. CASE i # 0
    <3>1. i \in 1..n /\ i - 1 \in 0..n
      BY <1>4, <2>3
    <3>2. f[pred[i]] = f[i - 1] /\ f[i - 1] \in List
      BY <1>9, <1>10, <3>1
    <3> QED BY <1>6, <2>1, <2>3, <3>1, <3>2
  <2> QED BY <2>2, <2>3
<1>12. after = [i \in 0..n |-> IF i = 0 THEN first ELSE Reconciled(after[i - 1], up[i])]
  <2>1. f = [i \in 0..n |-> IF i = 0 THEN first ELSE Reconciled(f[i - 1], up[i])]
    BY <1>10, <1>11
  <2> QED BY <2>1
<1> HIDE DEF after
<1>13. \A i \in 0..n : after[i] = IF i = 0 THEN first ELSE Reconciled(after[i - 1], up[i])
  BY <1>12
<1>14. \A i \in 0..n : after[i] \in List
  <2> DEFINE T == {i \in 0..n : after[i] \in List}
  <2>1. 0 \in T
    BY <1>4, <1>5, <1>13
  <2>2. \A i \in 1..n : i - 1 \in T => i \in T
    <3> SUFFICES ASSUME NEW i \in 1..n, i - 1 \in T PROVE after[i] \in List
      BY <1>4
    <3>1. after[i] = Reconciled(after[i - 1], up[i]) /\ after[i - 1] \in List
      BY <1>4, <1>13
    <3> QED BY <1>4, <3>1, ReconciledIs DEF Alike
  <2>3. T \in SUBSET (0..n)
    OBVIOUS
  <2> HIDE DEF T
  <2>4. T = 0..n
    BY <1>4, <2>1, <2>2, <2>3, UpTo
  <2> QED BY <2>4 DEF T
<1>15. after \in [0..n -> List]
  BY <1>12, <1>14
<1>16. /\ after[0] = first
       /\ \A i \in 1..n : after[i] = Reconciled(after[i - 1], up[i])
  BY <1>4, <1>13
<1> QED BY <1>1, <1>4, <1>15, <1>16 DEF up, n, first

-----------------------------------------------------------------------------
(* Completion *)

\* What CompletionIsEarned asks of a task that has been completed.
Earned(l, x) ==
    /\ OpenBelow(l, x) = {}
    /\ l.job[x] # "open"
    /\ \A d \in l.blockedBy[x] :
          (d \in l.live /\ l.status[d] \in Terminal) \/ d \in Above(l, x)

\* It stays so when the task itself is closed, or one above it changes.
LEMMA EarnedStays ==
    ASSUME NEW l \in List, NEW m \in List, Alike(l, m),
           NEW x \in l.live, NEW a \in Task,
           \A y \in Task \ {a} : m.status[y] = l.status[y],
           a \in Above(l, x) \/ (a = x /\ m.status[a] \in Terminal),
           Earned(l, x)
    PROVE  Earned(m, x)
<1>1. l.live \in SUBSET Task /\ x \in Task /\ l.blockedBy[x] \in SUBSET Task
  BY DEF List
<1>2. m.live = l.live /\ m.blockedBy = l.blockedBy /\ m.job = l.job
  BY DEF Alike
<1>3. Above(m, x) = Above(l, x) /\ Descendants(m, x) = Descendants(l, x)
  BY <1>2, SameFamily
<1>4. a \notin Descendants(l, x) /\ Descendants(l, x) \subseteq Task
  <2>1. Descendants(l, x) \subseteq l.live
    BY <1>1, DescendantsAre
  <2>2. x \notin Descendants(l, x)
    BY <1>1, NotBelowItself
  <2>3. \A b \in Above(l, x) : b \notin Descendants(l, x)
    BY <1>1, AboveIsNotBelow
  <2> QED BY <1>1, <2>1, <2>2, <2>3
<1>5. OpenBelow(m, x) = {}
  BY <1>3, <1>4 DEF OpenBelow, Earned
<1>6. m.job[x] # "open"
  BY <1>2 DEF Earned
<1>7. ASSUME NEW d \in m.blockedBy[x], d \notin Above(m, x)
      PROVE  d \in m.live /\ m.status[d] \in Terminal
  <2>1. d \in l.live /\ l.status[d] \in Terminal /\ d \in Task
    BY <1>1, <1>2, <1>3, <1>7 DEF Earned
  <2>2. CASE d = a
    BY <1>2, <1>3, <1>7, <2>1, <2>2
  <2>3. CASE d # a
    BY <1>2, <2>1, <2>3
  <2> QED BY <2>2, <2>3
<1> QED BY <1>5, <1>6, <1>7 DEF Earned

\* What can be completed has earned it when it is.
LEMMA CompletedIsEarned ==
    ASSUME NEW l \in List, NEW m \in List, Alike(l, m), NEW x \in l.live,
           \A y \in Task \ {x} : m.status[y] = l.status[y],
           m.status[x] = "completed", CanComplete(l, x)
    PROVE  Earned(m, x)
<1>1. Earned(l, x)
  BY DEF Earned, CanComplete, IsBlocked
<1>2. x \in Task
  BY DEF List
<1> QED BY <1>1, <1>2, EarnedStays DEF Terminal

\* What the rounds of update_task_status have done when they have come to the
\* set `done` of tasks.
Rounds(l, t, s, m, done) ==
    /\ Alike(l, m)
    /\ \A x \in Task \ done : m.status[x] = l.status[x]
    /\ m.status[t] = s
    /\ s \notin Terminal => \A a \in done \ {t} : m.status[a] # "completed"
    /\ (s = "completed" => CanComplete(l, t)) =>
          \A x \in done :
             m.status[x] = "completed" /\ l.status[x] # "completed" => Earned(m, x)

\* update_task_status: it changes the statuses of the task and those above it,
\* completes what has earned it, and no completed task is left above an open one.
LEMMA StatusUpdatedIs ==
    ASSUME NEW l \in List, NEW t \in l.live, NEW s \in Status
    PROVE  Rounds(l, t, s, StatusUpdated(l, t, s), {t} \cup Above(l, t))
<1> DEFINE up == Ancestors(l, t)
           n == Len(up)
           done(i) == {t} \cup {up[j] : j \in 1..i}
<1>1. l.live \in SUBSET Task /\ t \in Task /\ l.status \in [Task -> Status]
  BY DEF List
<1>2. /\ n \in Nat
      /\ \A i \in 1..n : up[i] \in l.live /\ up[i] \in Above(l, t)
      /\ Above(l, t) = {up[j] : j \in 1..n}
  <2>1. up \in Seq(l.live)
    BY <1>1, AncestorsAre
  <2>2. Above(l, t) = {up[j] : j \in DOMAIN up}
    BY DEF Above, Range
  <2> HIDE DEF up
  <2>3. n \in Nat /\ DOMAIN up = 1..n /\ \A i \in 1..n : up[i] \in l.live
    BY <2>1
  <2> QED BY <2>2, <2>3
<1>3. \A i, j \in 1..n : i < j => up[j] \in Above(l, up[i])
  BY <1>1, AncestorsInOrder
<1>4. PICK after \in [0..n -> List] :
         /\ after[0] = WithStatus(l, t, s)
         /\ \A i \in 1..n : after[i] = Reconciled(after[i - 1], up[i])
         /\ StatusUpdated(l, t, s) = after[n]
  BY <1>1, RoundsAre
<1> HIDE DEF up, n
<1> DEFINE T == {i \in 0..n : Rounds(l, t, s, after[i], done(i))}
<1> HIDE DEF done
<1>t. \A i \in 0..n : Rounds(l, t, s, after[i], done(i)) <=> i \in T
  OBVIOUS
<1> HIDE DEF T
<1>5. 0 \in T
  <2>1. /\ Alike(l, after[0])
        /\ after[0].status = [l.status EXCEPT ![t] = s]
    BY <1>1, <1>4, WithStatusIs
  <2>2. done(0) = {t}
    BY DEF done
  <2>3. after[0].status[t] = s /\ \A x \in Task \ {t} : after[0].status[x] = l.status[x]
    BY <1>1, <2>1
  <2>4. s = "completed" /\ CanComplete(l, t) => Earned(after[0], t)
    BY <1>1, <2>1, <2>3, CompletedIsEarned DEF Alike
  <2>5. Rounds(l, t, s, after[0], {t})
    BY <2>1, <2>3, <2>4 DEF Rounds
  <2>6. 0 \in 0..n
    BY <1>2
  <2>7. Rounds(l, t, s, after[0], done(0))
    BY <2>2, <2>5
  <2> QED BY <1>t, <2>6, <2>7
<1>6. ASSUME NEW i \in 1..n, i - 1 \in T PROVE i \in T
  <2> DEFINE a == up[i]
             p == after[i - 1]
             m == after[i]
             before == done(i - 1)
  <2>1. Rounds(l, t, s, p, before) /\ p \in List
    <3>1. i - 1 \in 0..n
      BY <1>2
    <3>2. Rounds(l, t, s, p, before)
      BY <1>6, <1>t, <3>1
    <3> QED BY <3>2 DEF Rounds, Alike
  <2>2. done(i) = before \cup {a} /\ i \in 0..n /\ i - 1 \in 0..n
    BY <1>2 DEF done
  <2>3. m = Reconciled(p, a)
    BY <1>4
  <2>4. /\ a \in l.live /\ a \in Task /\ a \in Above(l, t) /\ t # a
        /\ t \in Descendants(l, a)
    BY <1>1, <1>2, AboveIsNotBelow, BelowWhatIsAbove
  <2>5. \A x \in before : x \in l.live /\ a \in Above(l, x) /\ x # a
    <3>1. \A j \in 1..(i - 1) : up[j] \in l.live /\ a \in Above(l, up[j])
      BY <1>2, <1>3
    <3>2. \A x \in before : x \in l.live /\ a \in Above(l, x)
      BY <1>2, <2>4, <3>1 DEF done
    <3> QED BY <1>1, <3>2, AboveIsNotBelow
  <2> HIDE DEF a, p, m, before
  <2>6. /\ Alike(p, m) /\ m \in List
        /\ \A x \in Task \ {a} : m.status[x] = p.status[x]
        /\ m.status[a] = "completed" => CanComplete(p, a)
    BY <2>1, <2>3, <2>4, ReconciledIs DEF Alike
  <2>7. p.live = l.live /\ Descendants(p, a) = Descendants(l, a)
    BY <2>1, SameFamily DEF Rounds, Alike
  <2>8. Alike(l, m)
    BY <2>1, <2>6 DEF Rounds, Alike
  <2>9. \A x \in Task \ (before \cup {a}) : m.status[x] = l.status[x]
    BY <2>1, <2>6 DEF Rounds
  <2>10. m.status[t] = s
    BY <1>1, <2>1, <2>4, <2>6 DEF Rounds
  <2>11. ASSUME s \notin Terminal, NEW x \in (before \cup {a}) \ {t}
         PROVE  m.status[x] # "completed"
    <3>1. CASE x = a
      <4>1. t \in OpenBelow(p, a)
        BY <1>1, <2>1, <2>4, <2>7, <2>11 DEF OpenBelow, Rounds
      <4> QED BY <2>6, <3>1, <4>1 DEF CanComplete
    <3>2. CASE x # a
      BY <1>1, <2>1, <2>5, <2>6, <2>11, <3>2 DEF Rounds
    <3> QED BY <3>1, <3>2
  <2>12. ASSUME s = "completed" => CanComplete(l, t), NEW x \in before \cup {a},
                m.status[x] = "completed", l.status[x] # "completed"
         PROVE  Earned(m, x)
    <3>1. CASE x = a
      <4>1. CanComplete(p, a) /\ x \in p.live
        BY <2>4, <2>6, <2>7, <2>12, <3>1
      <4> QED BY <2>1, <2>6, <2>12, <3>1, <4>1, CompletedIsEarned
    <3>2. CASE x # a
      <4>1. x \in before /\ x \in l.live /\ x \in Task /\ a \in Above(l, x)
        BY <1>1, <2>5, <2>12, <3>2
      <4>2. Earned(p, x)
        BY <2>1, <2>6, <2>12, <3>2, <4>1 DEF Rounds
      <4>3. Above(p, x) = Above(l, x) /\ x \in p.live
        BY <2>7, <4>1, SameFamily
      <4> QED BY <2>1, <2>4, <2>6, <4>1, <4>2, <4>3, EarnedStays
    <3> QED BY <3>1, <3>2
  <2>13. Rounds(l, t, s, m, before \cup {a})
    BY <2>8, <2>9, <2>10, <2>11, <2>12 DEF Rounds
  <2>14. Rounds(l, t, s, after[i], done(i))
    BY <2>2, <2>13 DEF m
  <2> QED BY <1>t, <2>2, <2>14
<1>7. T \in SUBSET (0..n)
  BY DEF T
<1>8. n \in T
  BY <1>2, <1>5, <1>6, <1>7, UpTo
<1>9. Rounds(l, t, s, after[n], done(n))
  BY <1>2, <1>7, <1>8, <1>t
<1>10. done(n) = {t} \cup Above(l, t)
  BY <1>2 DEF done
<1> QED BY <1>4, <1>9, <1>10

-----------------------------------------------------------------------------
(* Types *)

\* The operations that are called for: a created task has an id.
Operations == {o \in Operation : o.kind = "create" => o.task \in Task}

\* Lists and calls as the program has them.
ProperList == {l \in List : Canonical(l)}
ProperCall == {k \in [at : CallAt, todo : Seq(Operations), list : List] :
                  Canonical(k.list)}

TypeInv ==
    /\ disk \in ProperList /\ cache \in ProperList /\ snapshot \in ProperList
    /\ file \in File /\ cached \in BOOLEAN
    /\ call \in [Caller -> ProperCall]
    /\ known \subseteq Task
    /\ calls \in 0..MaxCalls

\* The operations are made by Op and SetStatus.
LEMMA OperationIs ==
    /\ \A k \in Kind, t \in Task :
          Op(k, t) \in Operations /\ Op(k, t).kind = k /\ Op(k, t).task = t
    /\ \A k \in Kind : k # "create" => Op(k, NoTask) \in Operations
    /\ \A k \in Kind, t \in Task, s \in Status :
          [Op(k, t) EXCEPT !.status = s] \in Operations
    /\ \A k \in Kind, t \in Task, u \in Task :
          [Op(k, t) EXCEPT !.on = u] \in Operations
    /\ \A t \in Task, s \in Status : SetStatus(t, s) \in Operations
<1>1. "not_started" \in Status /\ "status" \in Kind
  BY DEF Status, Kind
<1>2. \A k, t, s, u : k \in Kind /\ t \in Task \cup {NoTask} /\ s \in Status
                      /\ u \in Task \cup {NoTask} /\ (k = "create" => t \in Task) =>
         [kind |-> k, task |-> t, status |-> s, on |-> u] \in Operations
  BY DEF Operations, Operation
<1>3. \A t, s : SetStatus(t, s)
                = [kind |-> "status", task |-> t, status |-> s, on |-> NoTask]
  BY DEF SetStatus, Op
<1>4. \A k, t : Op(k, t)
                = [kind |-> k, task |-> t, status |-> "not_started", on |-> NoTask]
  BY DEF Op
<1>5. \A k \in Kind, t \in Task :
          Op(k, t) \in Operations /\ Op(k, t).kind = k /\ Op(k, t).task = t
  BY <1>1, <1>2, <1>4
<1>6. \A k \in Kind : k # "create" => Op(k, NoTask) \in Operations
  BY <1>1, <1>2, <1>4
<1>7. \A k \in Kind, t \in Task, s \in Status :
          [Op(k, t) EXCEPT !.status = s] \in Operations
  <2> TAKE k \in Kind, t \in Task, s \in Status
  <2>1. [kind |-> k, task |-> t, status |-> s, on |-> NoTask] \in Operations
    BY <1>2
  <2> QED BY <2>1 DEF Op
<1>8. \A k \in Kind, t \in Task, u \in Task :
          [Op(k, t) EXCEPT !.on = u] \in Operations
  <2> TAKE k \in Kind, t \in Task, u \in Task
  <2>1. [kind |-> k, task |-> t, status |-> "not_started", on |-> u] \in Operations
    BY <1>1, <1>2
  <2> QED BY <2>1 DEF Op
<1>9. \A t \in Task, s \in Status : SetStatus(t, s) \in Operations
  BY <1>1, <1>2, <1>3
<1> QED BY <1>5, <1>6, <1>7, <1>8, <1>9

\* A list is proper when its fields are.
LEMMA ProperUpdate ==
    ASSUME NEW live \in SUBSET Task, NEW status \in [Task -> Status],
           NEW blockedBy \in [Task -> SUBSET Task], NEW job \in [Task -> Job],
           NEW current \in Task \cup {NoTask},
           \A t \in Task \ live : /\ status[t] = "not_started"
                                  /\ blockedBy[t] = {}
                                  /\ job[t] = "none"
    PROVE  [live |-> live, status |-> status, blockedBy |-> blockedBy,
            job |-> job, current |-> current] \in ProperList
BY DEF ProperList, List, Canonical

\* The empty list is one.
LEMMA EmptyListIsProper == EmptyList \in ProperList
BY ProperUpdate DEF EmptyList, Status, Job

\* Every mutation of a proper list that is accepted leads to a proper list.
LEMMA MutationKeepsType ==
    ASSUME NEW l \in ProperList, snapshot \in ProperList,
           NEW o \in Operations, Accepts(l, o)
    PROVE  Mutated(l, o) \in ProperList
<1> DEFINE m == Mutated(l, o)
           new(live, status, blockedBy, job, current) ==
              [live |-> live, status |-> status, blockedBy |-> blockedBy,
               job |-> job, current |-> current]
<1>0. /\ l \in List /\ l.live \in SUBSET Task /\ l.status \in [Task -> Status]
      /\ l.blockedBy \in [Task -> SUBSET Task] /\ l.job \in [Task -> Job]
      /\ l.current \in Task \cup {NoTask}
      /\ l = new(l.live, l.status, l.blockedBy, l.job, l.current)
      /\ \A t \in Task \ l.live : /\ l.status[t] = "not_started"
                                  /\ l.blockedBy[t] = {}
                                  /\ l.job[t] = "none"
  BY DEF ProperList, List, Canonical
<1>1. CASE o.kind = "create"
  <2>1. m = new(l.live \cup {o.task}, l.status, l.blockedBy, l.job, l.current)
    BY <1>0, <1>1 DEF Mutated
  <2>2. o.task \in Task
    BY <1>1 DEF Operations
  <2> QED BY <1>0, <2>1, <2>2, ProperUpdate
<1>2. CASE o.kind = "materialize"
  <2>1. m = new(l.live \cup ToMaterialize(o.task), l.status, l.blockedBy, l.job, l.current)
    BY <1>0, <1>2 DEF Mutated
  <2>2. ToMaterialize(o.task) \subseteq Task
    BY DEF ToMaterialize
  <2> QED BY <1>0, <2>1, <2>2, ProperUpdate
<1>3. CASE o.kind = "delete"
  <2> DEFINE live == l.live \ {o.task}
             status == [l.status EXCEPT ![o.task] = "not_started"]
             blockedBy == [l.blockedBy EXCEPT ![o.task] = {}]
             job == [l.job EXCEPT ![o.task] = "none"]
             current == IF l.current = o.task THEN NoTask ELSE l.current
  <2>1. m = [l EXCEPT !.live = live, !.status = status, !.blockedBy = blockedBy,
                      !.job = job, !.current = current]
    BY <1>0, <1>3 DEF Mutated, Removed
  <2>2. live \in SUBSET Task /\ status \in [Task -> Status] /\ job \in [Task -> Job]
    BY <1>0 DEF Status, Job
  <2>3. blockedBy \in [Task -> SUBSET Task] /\ current \in Task \cup {NoTask}
    BY <1>0
  <2>4. \A t \in Task \ live : /\ status[t] = "not_started"
                               /\ blockedBy[t] = {}
                               /\ job[t] = "none"
    BY <1>0
  <2> HIDE DEF m, live, status, blockedBy, job, current
  <2>5. m = new(live, status, blockedBy, job, current)
    BY <1>0, <2>1
  <2>6. m \in ProperList
    BY <2>2, <2>3, <2>4, <2>5, ProperUpdate
  <2> QED BY <2>6 DEF m
<1>4. CASE o.kind = "status"
  <2> DEFINE u == StatusUpdated(l, o.task, o.status)
             current == IF u.current = NoTask THEN NoTask ELSE l.current
  <2>1. o.task \in l.live /\ o.status \in Status
    BY <1>4 DEF Accepts, Operations, Operation
  <2>2. /\ u \in List
        /\ \A x \in Task \ ({o.task} \cup Above(l, o.task)) : u.status[x] = l.status[x]
    BY <1>0, <2>1, StatusUpdatedIs DEF Rounds, Alike
  <2>3. {o.task} \cup Above(l, o.task) \subseteq l.live
    BY <1>0, <2>1, AboveIs
  <2>4. m = WithStatuses(l, u)
    BY <1>4 DEF Mutated
  <2> HIDE DEF u, m
  <2>5. m = new(l.live, u.status, l.blockedBy, l.job, current)
    BY <1>0, <2>4 DEF WithStatuses
  <2>6. u.status \in [Task -> Status] /\ current \in Task \cup {NoTask}
    BY <1>0, <2>2 DEF List
  <2>7. \A x \in Task \ l.live : u.status[x] = "not_started"
    BY <1>0, <2>2, <2>3
  <2> HIDE DEF current
  <2>8. m \in ProperList
    BY <1>0, <2>5, <2>6, <2>7, ProperUpdate
  <2> QED BY <2>8 DEF m
<1>5. CASE o.kind = "depend"
  <2> DEFINE blockedBy == [l.blockedBy EXCEPT ![o.task] = @ \cup {o.on}]
  <2>1. m = [l EXCEPT !.blockedBy = blockedBy]
    BY <1>0, <1>5 DEF Mutated
  <2>2. o.task \in l.live /\ o.on \in l.live
    BY <1>5 DEF Accepts
  <2>3. /\ blockedBy \in [Task -> SUBSET Task]
        /\ \A x \in Task \ l.live : blockedBy[x] = {}
    BY <1>0, <2>2
  <2> HIDE DEF m, blockedBy
  <2>4. m = new(l.live, l.status, blockedBy, l.job, l.current)
    BY <1>0, <2>1
  <2>5. m \in ProperList
    BY <1>0, <2>3, <2>4, ProperUpdate
  <2> QED BY <2>5 DEF m
<1>6. CASE o.kind = "job"
  <2> DEFINE job == [l.job EXCEPT ![o.task] = IF o.status \in Terminal THEN "ended" ELSE "open"]
  <2>1. m = [l EXCEPT !.job = job]
    BY <1>0, <1>6 DEF Mutated
  <2>2. o.task \in l.live
    BY <1>6 DEF Accepts
  <2>3. /\ job \in [Task -> Job]
        /\ \A x \in Task \ l.live : job[x] = "none"
    BY <1>0, <2>2 DEF Job
  <2> HIDE DEF m, job
  <2>4. m = new(l.live, l.status, l.blockedBy, job, l.current)
    BY <1>0, <2>1
  <2>5. m \in ProperList
    BY <1>0, <2>3, <2>4, ProperUpdate
  <2> QED BY <2>5 DEF m
<1>7. CASE o.kind = "focus"
  <2>1. m = new(l.live, l.status, l.blockedBy, l.job, o.task)
    BY <1>0, <1>7 DEF Mutated
  <2>2. o.task \in Task \cup {NoTask}
    BY <1>0, <1>7 DEF Accepts
  <2> QED BY <1>0, <2>1, <2>2, ProperUpdate
<1>8. CASE o.kind = "replace"
  BY <1>8 DEF Mutated
<1>9. CASE o.kind \notin {"create", "materialize", "delete", "status", "depend",
                        "job", "focus", "replace"}
  BY <1>9 DEF Mutated
<1> QED BY <1>1, <1>2, <1>3, <1>4, <1>5, <1>6, <1>7, <1>8, <1>9

-----------------------------------------------------------------------------
(* The type invariant *)

\* Adding to a sequence in front, and taking from it.
LEMMA SequencesOf ==
    ASSUME NEW S
    PROVE  /\ <<>> \in Seq(S)
           /\ \A e \in S, s \in Seq(S) : <<e>> \o s \in Seq(S)
           /\ \A s \in Seq(S), u \in Seq(S) : s \o u \in Seq(S)
           /\ \A s \in Seq(S) : s # <<>> =>
                 Head(s) \in S /\ Tail(s) \in Seq(S)
<1>1. <<>> \in Seq(S)
  BY EmptySeq
<1>2. \A s \in Seq(S), u \in Seq(S) : s \o u \in Seq(S)
  BY ConcatProperties
<1>3. \A e \in S, s \in Seq(S) : <<e>> \o s \in Seq(S)
  BY <1>2, OneElement
<1>4. \A s \in Seq(S) : s # <<>> => Head(s) \in S /\ Tail(s) \in Seq(S)
  BY HeadTailProperties
<1> QED BY <1>1, <1>2, <1>3, <1>4

\* Short sequences.
LEMMA Few ==
    ASSUME NEW S, NEW a \in S, NEW b \in S, NEW c \in S, NEW d \in S, NEW e \in S
    PROVE  /\ <<a>> \in Seq(S) /\ Head(<<a>>) = a
           /\ <<a, b>> \in Seq(S) /\ Head(<<a, b>>) = a
           /\ <<a, b, c>> \in Seq(S)
           /\ <<a, b, c, d, e>> \in Seq(S) /\ Head(<<a, b, c, d, e>>) = a
           /\ <<a>> # <<>> /\ <<a, b>> # <<>> /\ <<a, b, c, d, e>> # <<>>
OBVIOUS

\* What is called for are operations.
LEMMA CallsAreProper ==
    ASSUME NEW t \in Task, NEW todo \in Calls(t)
    PROVE  todo \in Seq(Operations) /\ todo # <<>>
<1>1. /\ {"create", "delete", "focus", "depend", "job", "replace", "touch",
          "list_open", "inspect", "find", "materialize", "pick"} \subseteq Kind
      /\ {"in_progress", "cancelled"} \subseteq Status /\ Terminal \subseteq Status
  BY DEF Kind, Status, Terminal
<1>2. CASE \E k \in {"create", "delete", "focus"} : todo = <<Op(k, t)>>
  BY <1>1, <1>2, OperationIs, Few
<1>3. CASE \E s \in Status : todo = <<SetStatus(t, s)>>
  BY <1>3, OperationIs, Few
<1>4. CASE \E u \in Task : todo = <<[Op("depend", t) EXCEPT !.on = u]>>
  <2> PICK u \in Task : todo = <<[Op("depend", t) EXCEPT !.on = u]>>
    BY <1>4
  <2> DEFINE o == [Op("depend", t) EXCEPT !.on = u]
  <2>1. o \in Operations
    BY <1>1, OperationIs
  <2>2. todo = <<o>>
    OBVIOUS
  <2> HIDE DEF o
  <2> QED BY <2>1, <2>2, Few
<1>5. CASE \E s \in {"in_progress", "cancelled"} : todo = <<[Op("job", t) EXCEPT !.status = s]>>
  <2> PICK s \in {"in_progress", "cancelled"} : todo = <<[Op("job", t) EXCEPT !.status = s]>>
    BY <1>5
  <2> DEFINE o == [Op("job", t) EXCEPT !.status = s]
  <2>1. o \in Operations
    BY <1>1, OperationIs
  <2>2. todo = <<o>>
    OBVIOUS
  <2> HIDE DEF o
  <2> QED BY <2>1, <2>2, Few
<1>6. CASE todo = <<Op("replace", NoTask)>>
  BY <1>1, <1>6, OperationIs, Few
<1>7. CASE \E s \in Terminal : todo = <<Op("touch", t), SetStatus(t, s)>>
  BY <1>1, <1>7, OperationIs, Few
<1>8. CASE todo \in {<<Op("list_open", t)>>, <<Op("inspect", t)>>}
  <2>1. CASE todo = <<Op("list_open", t)>>
    BY <1>1, <2>1, OperationIs, Few
  <2>2. CASE todo = <<Op("inspect", t)>>
    BY <1>1, <2>2, OperationIs, Few
  <2> QED BY <1>8, <2>1, <2>2
<1>9. CASE todo = <<Op("create", t), SetStatus(t, "in_progress"), Op("find", t),
                    Op("materialize", t), Op("pick", t)>>
  BY <1>1, <1>9, OperationIs, Few
<1> QED BY <1>2, <1>3, <1>4, <1>5, <1>6, <1>7, <1>8, <1>9 DEF Calls

\* An order of a set of tasks is a sequence of them.
LEMMA OrdersAre ==
    ASSUME NEW l \in List, NEW set \in SUBSET Task, NEW open \in Orders(l, set)
    PROVE  open \in Seq(Task)
<1>1. IsFiniteSet(set)
  BY TasksAssumption, FS_Subset
<1>2. Cardinality(set) \in Nat
  BY <1>1, FS_CardinalityType
<1>3. open \in [1..Cardinality(set) -> set]
  BY DEF Orders, SetToSeqs
<1>4. open \in [1..Cardinality(set) -> Task]
  BY <1>3
<1> HIDE DEF Orders
<1> QED BY <1>2, <1>4

\* What a query leads to are operations.
LEMMA ExpandedIsProper ==
    ASSUME NEW l \in ProperList, NEW o \in Operations, o.kind \in Queries,
           o.task \in l.live, NEW open \in Seq(Task)
    PROVE  Expanded(l, o, open) \in Seq(Operations)
<1>1. o.task \in Task /\ l.status[o.task] \in Status
  BY DEF ProperList, List
<1>2. /\ {"in_progress", "cancelled", "completed"} \subseteq Status
      /\ {"examine", "unfocus", "focus", "touch"} \subseteq Kind
  BY DEF Status, Kind
<1>3. open # <<>> => Head(open) \in Task
  BY HeadTailProperties
<1>4. <<>> \in Seq(Operations)
  BY EmptySeq
<1>10. CASE o.kind = "find"
  BY <1>4, <1>10 DEF Expanded
<1>5. CASE o.kind = "list_open"
  <2>1. \A i \in DOMAIN open : SetStatus(open[i], "cancelled") \in Operations
    BY <1>2, OperationIs
  <2>2. [i \in DOMAIN open |-> SetStatus(open[i], "cancelled")] \in Seq(Operations)
    BY <2>1
  <2> QED BY <1>5, <2>2 DEF Expanded
<1>6. CASE o.kind = "inspect"
  <2> DEFINE e == [Op("examine", o.task) EXCEPT !.status = l.status[o.task]]
  <2>1. e \in Operations
    BY <1>1, <1>2, OperationIs
  <2>2. Expanded(l, o, open) = <<e>>
    BY <1>6 DEF Expanded
  <2> HIDE DEF e
  <2> QED BY <2>1, <2>2, Few
<1>7. CASE o.kind = "examine"
  <2>1. /\ <<SetStatus(o.task, "completed"), Op("unfocus", o.task)>> \in Seq(Operations)
        /\ <<SetStatus(o.task, "in_progress")>> \in Seq(Operations)
    BY <1>1, <1>2, OperationIs, Few
  <2> QED BY <1>4, <1>7, <2>1 DEF Expanded
<1>8. CASE o.kind = "unfocus"
  <2>1. <<Op("focus", NoTask)>> \in Seq(Operations)
    BY <1>2, OperationIs, Few
  <2> QED BY <1>4, <1>8, <2>1 DEF Expanded
<1>9. CASE o.kind = "pick"
  <2>1. <<Op("focus", o.task), Op("touch", o.task)>> \in Seq(Operations)
    BY <1>1, <1>2, OperationIs, Few
  <2>2. open # <<>> => <<SetStatus(Head(open), "in_progress"), Op("focus", Head(open)),
                         Op("touch", o.task)>> \in Seq(Operations)
    BY <1>1, <1>2, <1>3, OperationIs, Few
  <2> QED BY <1>9, <2>1, <2>2 DEF Expanded
<1> QED BY <1>5, <1>6, <1>7, <1>8, <1>9, <1>10 DEF Queries

\* It holds when the process starts, ...
LEMMA InitEstablishesType == Init => TypeInv
<1> SUFFICES ASSUME Init PROVE TypeInv
  OBVIOUS
<1>1. PICK live \in SUBSET Task : disk = [EmptyList EXCEPT !.live = live] /\ known = live
  BY DEF Init
<1>2. disk \in ProperList
  <2>1. disk = [live |-> live, status |-> [t \in Task |-> "not_started"],
                blockedBy |-> [t \in Task |-> {}],
                job |-> [t \in Task |-> "none"], current |-> NoTask]
    BY <1>1 DEF EmptyList
  <2> QED BY <2>1, ProperUpdate DEF Status, Job
<1>3. NoCall \in ProperCall
  BY EmptyListIsProper, EmptySeq DEF NoCall, ProperCall, ProperList, CallAt
<1>4. calls \in 0..MaxCalls
  BY CallsAssumption DEF Init
<1> QED BY <1>1, <1>2, <1>3, <1>4, EmptyListIsProper DEF Init, TypeInv, File

\* What the steps write into a call.
LEMMA ProperCalls ==
    ASSUME NEW k \in ProperCall, NEW at \in CallAt, NEW todo \in Seq(Operations),
           NEW l \in ProperList
    PROVE  /\ [k EXCEPT !.todo = todo] \in ProperCall
           /\ [k EXCEPT !.at = at] \in ProperCall
           /\ [k EXCEPT !.at = at, !.list = l] \in ProperCall
           /\ [at |-> at, todo |-> todo, list |-> l] \in ProperCall
           /\ k.list \in ProperList /\ k.todo \in Seq(Operations)
<1> DEFINE new(a, b, m) == [at |-> a, todo |-> b, list |-> m]
<1>1. /\ k = new(k.at, k.todo, k.list) /\ k.list \in ProperList
      /\ k.at \in CallAt /\ k.todo \in Seq(Operations)
  BY DEF ProperCall, ProperList
<1>2. \A a \in CallAt, b \in Seq(Operations), m \in ProperList : new(a, b, m) \in ProperCall
  BY DEF ProperCall, ProperList
<1>3. /\ [k EXCEPT !.todo = todo] = new(k.at, todo, k.list)
      /\ [k EXCEPT !.at = at] = new(at, k.todo, k.list)
  BY <1>1
<1>4. [k EXCEPT !.at = at, !.list = l] = new(at, k.todo, l)
  <2>1. \A r : r = new(at, k.todo, k.list) => [r EXCEPT !.list = l] = new(at, k.todo, l)
    OBVIOUS
  <2>2. [[k EXCEPT !.at = at] EXCEPT !.list = l] = new(at, k.todo, l)
    BY <1>3, <2>1
  <2> QED BY <2>2
<1>5. [k EXCEPT !.todo = todo] \in ProperCall
  BY <1>1, <1>2, <1>3
<1>6. [k EXCEPT !.at = at] \in ProperCall
  BY <1>1, <1>2, <1>3
<1>7. [k EXCEPT !.at = at, !.list = l] \in ProperCall
  BY <1>1, <1>2, <1>4
<1>8. [at |-> at, todo |-> todo, list |-> l] \in ProperCall
  BY <1>2
<1> QED BY <1>1, <1>5, <1>6, <1>7, <1>8

\* The next operation, done on a proper list.
LEMMA OperateKeepsType ==
    ASSUME TypeInv, NEW c \in Caller, call[c].todo # <<>>, NEW l \in ProperList,
           Operate(c, l)
    PROVE  TypeInv'
<1> DEFINE o == Head(call[c].todo)
           later == Tail(call[c].todo)
<1>1. /\ call \in [Caller -> ProperCall] /\ call[c] \in ProperCall
      /\ call[c].todo \in Seq(Operations) /\ snapshot \in ProperList
  BY DEF TypeInv, ProperCall
<1>2. o \in Operations /\ later \in Seq(Operations)
  BY <1>1, SequencesOf
<1> HIDE DEF o, later
<1>3. PICK at, todo, list :
         /\ call' = [call EXCEPT ![c] = [at |-> at, todo |-> todo, list |-> list]]
         /\ \/ at = "idle" /\ todo = <<>> /\ list = EmptyList
            \/ at = "idle" /\ todo = later /\ list = EmptyList
            \/ at = "save" /\ todo = call[c].todo /\ list = Mutated(l, o) /\ Accepts(l, o)
            \/ /\ o.kind \in Queries /\ o.task \in l.live
               /\ at = "idle" /\ list = EmptyList
               /\ \E open \in Orders(l, OpenBelow(l, o.task)) :
                     todo = Expanded(l, o, open) \o later
  BY DEF Operate, o, later
<1>4. at \in CallAt
  BY <1>3 DEF CallAt
<1>5. list \in ProperList
  BY <1>1, <1>2, <1>3, EmptyListIsProper, MutationKeepsType
<1>6. todo \in Seq(Operations)
  <2>1. ASSUME o.kind \in Queries, o.task \in l.live,
               NEW open \in Orders(l, OpenBelow(l, o.task))
        PROVE  Expanded(l, o, open) \o later \in Seq(Operations)
    <3>1. l \in List /\ l.live \in SUBSET Task /\ o.task \in Task
      BY <2>1 DEF ProperList, List
    <3>2. OpenBelow(l, o.task) \in SUBSET Task
      BY <3>1, DescendantsAre DEF OpenBelow
    <3>3. open \in Seq(Task)
      BY <3>1, <3>2, OrdersAre
    <3>4. Expanded(l, o, open) \in Seq(Operations)
      BY <1>2, <2>1, <3>3, ExpandedIsProper
    <3> QED BY <1>2, <3>4, SequencesOf
  <2> QED BY <1>1, <1>2, <1>3, <2>1, EmptySeq
<1>7. [at |-> at, todo |-> todo, list |-> list] \in ProperCall
  BY <1>1, <1>4, <1>5, <1>6, ProperCalls
<1>8. call' \in [Caller -> ProperCall]
  BY <1>1, <1>3, <1>7
<1>9. known' \subseteq Task
  BY DEF Operate, TypeInv, ToMaterialize
<1>10. UNCHANGED <<disk, file, cache, cached, snapshot, calls>>
  BY DEF Operate
<1> QED BY <1>8, <1>9, <1>10 DEF TypeInv

\* ... after every step, ...
LEMMA NextKeepsType == TypeInv /\ [Next]_vars => TypeInv'
<1> SUFFICES ASSUME TypeInv, [Next]_vars PROVE TypeInv'
  OBVIOUS
<1>0. /\ disk \in ProperList /\ cache \in ProperList /\ snapshot \in ProperList
      /\ call \in [Caller -> ProperCall]
      /\ \A c \in Caller : /\ call[c] \in ProperCall /\ call[c].list \in ProperList
                           /\ call[c].todo \in Seq(Operations)
  BY DEF TypeInv, ProperCall, ProperList
<1>c. /\ NoCall \in ProperCall
      /\ {"load", "ready", "write", "publish"} \subseteq CallAt
  BY EmptyListIsProper, EmptySeq DEF NoCall, ProperCall, ProperList, CallAt
<1>w. ASSUME NEW c \in Caller, NEW k \in ProperCall, call' = [call EXCEPT ![c] = k]
      PROVE  call' \in [Caller -> ProperCall]
  BY <1>0, <1>w
<1>1. ASSUME NEW c \in Caller, NEW t \in Task, NEW todo \in Calls(t), Begin(c, todo)
      PROVE  TypeInv'
  <2>1. todo \in Seq(Operations) /\ todo # <<>>
    BY CallsAreProper
  <2>2. [call[c] EXCEPT !.todo = todo] \in ProperCall
    BY <1>0, <1>c, <2>1, ProperCalls
  <2>3. call' = [call EXCEPT ![c] = [call[c] EXCEPT !.todo = todo]]
    BY <1>1 DEF Begin
  <2>4. call' \in [Caller -> ProperCall]
    BY <1>w, <2>2, <2>3
  <2>5. Head(todo) \in Operations
    BY <2>1, SequencesOf
  <2>6. known' \subseteq Task
    BY <1>1, <2>5 DEF Begin, TypeInv, Operations
  <2>7. calls' \in 0..MaxCalls
    BY <1>1, CallsAssumption DEF Begin, TypeInv
  <2> QED BY <1>1, <2>4, <2>6, <2>7 DEF Begin, TypeInv
<1>2. ASSUME NEW c \in Caller, Load(c) PROVE TypeInv'
  <2>1. [call[c] EXCEPT !.at = "load", !.list = disk] \in ProperCall
    BY <1>0, <1>c, ProperCalls
  <2>2. call' = [call EXCEPT ![c] = [call[c] EXCEPT !.at = "load", !.list = disk]]
    BY <1>0, <1>2 DEF Load
  <2> QED BY <1>2, <1>w, <2>1, <2>2 DEF Load, TypeInv
<1>12. ASSUME NEW c \in Caller, LoadFails(c) PROVE TypeInv'
  BY <1>12, <1>c, <1>w DEF LoadFails, TypeInv
<1>3. ASSUME NEW c \in Caller, Fill(c) PROVE TypeInv'
  <2>1. [call[c] EXCEPT !.at = "ready"] \in ProperCall
    BY <1>0, <1>c, ProperCalls
  <2>2. call' = [call EXCEPT ![c] = [call[c] EXCEPT !.at = "ready"]]
    BY <1>3 DEF Fill
  <2> QED BY <1>0, <1>3, <1>w, <2>1, <2>2 DEF Fill, TypeInv
<1>4. ASSUME NEW c \in Caller, OnCached(c) PROVE TypeInv'
  BY <1>0, <1>4, OperateKeepsType DEF OnCached, Going
<1>5. ASSUME NEW c \in Caller, OnLoaded(c) PROVE TypeInv'
  BY <1>0, <1>5, OperateKeepsType DEF OnLoaded, Going
<1>13. ASSUME NEW c \in Caller, Truncate(c) PROVE TypeInv'
  <2>1. [call[c] EXCEPT !.at = "write"] \in ProperCall
    BY <1>0, <1>c, ProperCalls
  <2>2. call' = [call EXCEPT ![c] = [call[c] EXCEPT !.at = "write"]]
    BY <1>13 DEF Truncate
  <2> QED BY <1>13, <1>w, <2>1, <2>2, EmptyListIsProper DEF Truncate, TypeInv, File
<1>6. ASSUME NEW c \in Caller, Save(c) PROVE TypeInv'
  <2>1. [call[c] EXCEPT !.at = "publish"] \in ProperCall
    BY <1>0, <1>c, ProperCalls
  <2>2. call' = [call EXCEPT ![c] = [call[c] EXCEPT !.at = "publish"]]
    BY <1>6 DEF Save
  <2>3. disk' \in ProperList /\ file' \in File
    BY <1>0, <1>6, EmptyListIsProper DEF Save, File
  <2> QED BY <1>6, <1>w, <2>1, <2>2, <2>3 DEF Save, TypeInv
<1>7. ASSUME NEW c \in Caller, SaveFails(c) PROVE TypeInv'
  <2>1. disk' \in ProperList /\ file' \in File
    BY <1>0, <1>7, EmptyListIsProper DEF SaveFails, File, TypeInv
  <2> QED BY <1>7, <1>c, <1>w, <2>1 DEF SaveFails, TypeInv
<1>8. ASSUME NEW c \in Caller, Publish(c) PROVE TypeInv'
  <2>1. Tail(call[c].todo) \in Seq(Operations)
    BY <1>0, <1>8, SequencesOf DEF Publish, Going
  <2>2. [NoCall EXCEPT !.todo = Tail(call[c].todo)] \in ProperCall
    BY <1>0, <1>c, <2>1, ProperCalls
  <2> QED BY <1>0, <1>8, <1>w, <2>2 DEF Publish, TypeInv
<1>9. ASSUME Checkpoint PROVE TypeInv'
  BY <1>9 DEF Checkpoint, TypeInv
<1>10. ASSUME Restart PROVE TypeInv'
  BY <1>10, <1>c, EmptyListIsProper DEF Restart, TypeInv
<1>11. ASSUME UNCHANGED vars PROVE TypeInv'
  BY <1>11 DEF vars, TypeInv
<1> QED BY <1>1, <1>2, <1>3, <1>4, <1>5, <1>6, <1>7, <1>8, <1>9, <1>10, <1>11,
           <1>12, <1>13
        DEF Next

\* ... and so always.
LEMMA TypesHold == Spec => []TypeInv
<1> QED BY InitEstablishesType, NextKeepsType, PTL DEF Spec

\* Whatever the threads, crashes and restored checkpoints do, every list the
\* program keeps is well formed: a task that has been deleted leaves no status,
\* dependencies or job behind for a task of the same list to meet, and it is not
\* the current task any more.
THEOREM TypeCorrect == Spec => []TypeOK
<1>1. TypeInv /\ CurrentExists => TypeOK
  <2> SUFFICES ASSUME TypeInv, CurrentExists PROVE TypeOK
    OBVIOUS
  <2>1. ProperCall \subseteq Call
    <3>1. Seq(Operations) \subseteq Seq(Operation)
      <4>1. Operations \subseteq Operation
        BY DEF Operations
      <4> QED BY <4>1
    <3> QED BY <3>1 DEF ProperCall, Call
  <2>2. \A l \in Lists : l \in ProperList
    BY DEF TypeInv, Lists, ProperCall, ProperList
  <2> QED BY <2>1, <2>2 DEF TypeInv, TypeOK, ProperList
<1> QED BY <1>1, TypesHold, CurrentTaskExists, PTL

-----------------------------------------------------------------------------
(* What a mutation may do *)

\* A thread that comes to save a list has looked at the list its operation is
\* about, and saves what the operation makes of it.
LEMMA MutatesIs ==
    ASSUME TypeInv, [Next]_vars, NEW c \in Caller, Mutates(c)
    PROVE  LET l == Base(c)
               o == Head(call[c].todo)
           IN  /\ l \in ProperList /\ o \in Operations /\ Accepts(l, o)
               /\ call'[c].list = Mutated(l, o)
<1> DEFINE o == Head(call[c].todo)
<1>0. /\ call \in [Caller -> ProperCall] /\ call[c] \in ProperCall
      /\ call[c].todo \in Seq(Operations) /\ call[c].list \in ProperList
      /\ cache \in ProperList
  BY DEF TypeInv, ProperCall, ProperList
<1>1. call[c].at \in {"idle", "ready"} /\ call'[c].at = "save"
  BY DEF Mutates
<1>2. ASSUME NEW b \in Caller, NEW k, call' = [call EXCEPT ![b] = k],
             b = c => k.at # "save"
      PROVE  FALSE
  BY <1>0, <1>1, <1>2
<1>3. ASSUME NEW l \in ProperList, Operate(c, l), call[c].todo # <<>>
      PROVE  o \in Operations /\ Accepts(l, o) /\ call'[c].list = Mutated(l, o)
  <2>1. o \in Operations
    BY <1>0, <1>3, SequencesOf
  <2>2. PICK at, todo, list :
           /\ call' = [call EXCEPT ![c] = [at |-> at, todo |-> todo, list |-> list]]
           /\ at = "idle" \/ (list = Mutated(l, o) /\ Accepts(l, o))
    BY <1>3 DEF Operate
  <2>3. call'[c] = [at |-> at, todo |-> todo, list |-> list]
    BY <1>0, <2>2
  <2> QED BY <1>1, <2>1, <2>2, <2>3
<1>4. ASSUME NEW b \in Caller, NEW l, Operate(b, l), b # c PROVE FALSE
  <2>1. PICK k : call' = [call EXCEPT ![b] = k]
    BY <1>4 DEF Operate
  <2> QED BY <1>2, <1>4, <2>1
<1>5. ASSUME NEW b \in Caller, NEW todo, Begin(b, todo) PROVE FALSE
  <2>1. call' = [call EXCEPT ![b] = [call[b] EXCEPT !.todo = todo]]
    BY <1>5 DEF Begin
  <2>2. [call[c] EXCEPT !.todo = todo].at = call[c].at
    BY <1>0 DEF ProperCall
  <2> QED BY <1>0, <1>1, <2>1, <2>2
<1>6. ASSUME NEW b \in Caller, Load(b) PROVE FALSE
  <2>1. call' = [call EXCEPT ![b] = [call[b] EXCEPT !.at = "load", !.list = disk]]
    BY <1>0, <1>6 DEF Load
  <2>2. [call[c] EXCEPT !.at = "load", !.list = disk].at = "load"
    BY <1>0 DEF ProperCall
  <2> QED BY <1>0, <1>1, <2>1, <2>2
<1>7. ASSUME NEW b \in Caller, Fill(b) PROVE FALSE
  <2>1. call' = [call EXCEPT ![b].at = "ready"]
    BY <1>7 DEF Fill
  <2> QED BY <1>0, <1>1, <2>1 DEF ProperCall
<1>8. ASSUME NEW b \in Caller, Save(b) PROVE FALSE
  <2>1. call' = [call EXCEPT ![b].at = "publish"]
    BY <1>8 DEF Save
  <2> QED BY <1>0, <1>1, <2>1 DEF ProperCall
<1>17. ASSUME NEW b \in Caller, Truncate(b) PROVE FALSE
  <2>1. call' = [call EXCEPT ![b].at = "write"]
    BY <1>17 DEF Truncate
  <2> QED BY <1>0, <1>1, <2>1 DEF ProperCall
<1>9. NoCall.at = "idle" /\ \A todo : [NoCall EXCEPT !.todo = todo].at = "idle"
  BY DEF NoCall
<1>10. ASSUME NEW b \in Caller, SaveFails(b) PROVE FALSE
  BY <1>2, <1>9, <1>10 DEF SaveFails
<1>18. ASSUME NEW b \in Caller, LoadFails(b) PROVE FALSE
  BY <1>2, <1>9, <1>18 DEF LoadFails
<1>11. ASSUME NEW b \in Caller, Publish(b) PROVE FALSE
  <2>1. call' = [call EXCEPT ![b] = [NoCall EXCEPT !.todo = Tail(call[b].todo)]]
    BY <1>11 DEF Publish
  <2> QED BY <1>2, <1>9, <2>1
<1>12. ASSUME Restart PROVE FALSE
  BY <1>1, <1>9, <1>12 DEF Restart
<1>13. ASSUME UNCHANGED call PROVE FALSE
  BY <1>1, <1>13
<1>14. PICK b \in Caller : OnCached(b) \/ OnLoaded(b)
  BY <1>5, <1>6, <1>7, <1>8, <1>10, <1>11, <1>12, <1>13, <1>17, <1>18
     DEF Next, Checkpoint, vars
<1>15. b = c
  BY <1>4, <1>14 DEF OnCached, OnLoaded
<1>16. /\ Base(c) \in ProperList /\ Operate(c, Base(c)) /\ call[c].todo # <<>>
  BY <1>0, <1>14, <1>15 DEF OnCached, OnLoaded, Going, Base
<1> QED BY <1>3, <1>16

\* update_task_status, as a mutation.
LEMMA StatusMutationIs ==
    ASSUME NEW l \in ProperList, NEW o \in Operations, Accepts(l, o), o.kind = "status"
    PROVE  LET m == Mutated(l, o)
               u == StatusUpdated(l, o.task, o.status)
           IN  /\ o.task \in l.live /\ o.task \in Task /\ l \in List
               /\ Rounds(l, o.task, o.status, u, {o.task} \cup Above(l, o.task))
               /\ o.status = "completed" => CanComplete(l, o.task)
               /\ m.live = l.live /\ m.blockedBy = l.blockedBy /\ m.job = l.job
               /\ m.status = u.status
<1> DEFINE u == StatusUpdated(l, o.task, o.status)
<1>1. l \in List /\ o.task \in l.live /\ o.task \in Task /\ o.status \in Status
  BY DEF Accepts, Operations, Operation, ProperList, List
<1>2. Rounds(l, o.task, o.status, u, {o.task} \cup Above(l, o.task))
  BY <1>1, StatusUpdatedIs
<1>3. o.status = "completed" => CanComplete(l, o.task)
  BY DEF Accepts
<1>4. Mutated(l, o) = WithStatuses(l, u)
  BY DEF Mutated
<1> HIDE DEF u
<1>5. LET m == WithStatuses(l, u)
      IN  /\ m.live = l.live /\ m.blockedBy = l.blockedBy /\ m.job = l.job
          /\ m.status = u.status
  BY <1>1 DEF WithStatuses, List
<1> QED BY <1>1, <1>2, <1>3, <1>4, <1>5 DEF u

\* Only a status mutation completes tasks, and only those that have earned it.
LEMMA MutationCompletes ==
    ASSUME NEW l \in ProperList, NEW o \in Operations, Accepts(l, o),
           o.kind # "replace", NEW t \in Task, NEW m, m = Mutated(l, o),
           m.status[t] = "completed", l.status[t] # "completed"
    PROVE  Earned(m, t)
<1>1. l \in List
  BY DEF ProperList
<1>2. CASE o.kind = "status"
  <2> DEFINE u == StatusUpdated(l, o.task, o.status)
             done == {o.task} \cup Above(l, o.task)
  <2>1. /\ Rounds(l, o.task, o.status, u, done)
        /\ o.status = "completed" => CanComplete(l, o.task)
        /\ m.live = l.live /\ m.blockedBy = l.blockedBy /\ m.job = l.job
        /\ m.status = u.status
    BY <1>2, StatusMutationIs
  <2> HIDE DEF u, done
  <2>2. Earned(u, t)
    BY <2>1 DEF Rounds
  <2>3. m.live = u.live /\ m.blockedBy = u.blockedBy /\ m.job = u.job
    BY <2>1 DEF Rounds, Alike
  <2>4. Above(m, t) = Above(u, t) /\ Descendants(m, t) = Descendants(u, t)
    BY <2>3, SameFamily
  <2> QED BY <2>1, <2>2, <2>3, <2>4 DEF Earned, OpenBelow
<1>3. CASE o.kind = "delete"
  <2>1. m.status = [l.status EXCEPT ![o.task] = "not_started"]
    BY <1>1, <1>3 DEF Mutated, Removed, List
  <2> QED BY <1>1, <2>1 DEF List
<1>4. CASE o.kind \notin {"status", "delete"}
  <2>1. m.status = l.status
    BY <1>1, <1>4 DEF Mutated, List
  <2> QED BY <2>1
<1> QED BY <1>2, <1>3, <1>4

\* Whatever list a thread has before it, a task is completed by a mutation only
\* when nothing below it is open, its background job has ended and what it waits
\* for is closed or is an ancestor: update_task_status checks the task itself,
\* and the reconciliation every ancestor it completes, on the list as the rounds
\* before have left it.
THEOREM CompletionEarned == Spec => CompletionIsEarned
<1>1. TypeInv /\ [Next]_vars =>
         \A c \in Caller :
           Mutates(c) /\ Head(call[c].todo).kind # "replace" =>
             \A t \in Task :
               LET l == call'[c].list
                   completed == l.status[t] = "completed" /\ t \in l.live
               IN  completed /\ Base(c).status[t] # "completed" =>
                     /\ OpenBelow(l, t) = {}
                     /\ l.job[t] # "open"
                     /\ \A d \in l.blockedBy[t] :
                           \/ d \in l.live /\ l.status[d] \in Terminal
                           \/ \E i \in DOMAIN Ancestors(l, t) : Ancestors(l, t)[i] = d
  <2> SUFFICES ASSUME TypeInv, [Next]_vars, NEW c \in Caller, Mutates(c),
                      Head(call[c].todo).kind # "replace", NEW t \in Task,
                      call'[c].list.status[t] = "completed",
                      Base(c).status[t] # "completed"
               PROVE  Earned(call'[c].list, t)
    BY DEF Earned, Above, Range
  <2> QED BY MutatesIs, MutationCompletes
<1> QED BY <1>1, TypesHold, PTL DEF Spec, CompletionIsEarned

\* When a task is opened, no ancestor of it is left completed, however many
\* rounds up the completed ones are: a round reconsiders its ancestor after the
\* task has been opened.
THEOREM ReopeningReachesAncestors == Spec => ReopeningPropagates
<1>1. TypeInv /\ [Next]_vars =>
         \A c \in Caller :
           LET o == Head(call[c].todo)
               l == call'[c].list
           IN  Mutates(c) /\ o.kind = "status" /\ o.status \notin Terminal =>
                 \A i \in DOMAIN Ancestors(l, o.task) :
                     l.status[Ancestors(l, o.task)[i]] # "completed"
  <2> SUFFICES ASSUME TypeInv, [Next]_vars, NEW c \in Caller, Mutates(c)
               PROVE  LET o == Head(call[c].todo)
                          l == call'[c].list
                      IN  o.kind = "status" /\ o.status \notin Terminal =>
                            \A a \in Above(l, o.task) : l.status[a] # "completed"
    BY DEF Above, Range
  <2> DEFINE o == Head(call[c].todo)
             l == Base(c)
             m == Mutated(l, o)
             u == StatusUpdated(l, o.task, o.status)
             done == {o.task} \cup Above(l, o.task)
  <2>1. l \in ProperList /\ o \in Operations /\ Accepts(l, o) /\ call'[c].list = m
    BY MutatesIs
  <2> SUFFICES ASSUME o.kind = "status", o.status \notin Terminal,
                      NEW a \in Above(m, o.task)
               PROVE  m.status[a] # "completed"
    BY <2>1
  <2>2. /\ o.task \in l.live /\ l.live \in SUBSET Task
        /\ Rounds(l, o.task, o.status, u, done)
        /\ m.live = l.live /\ m.status = u.status
    BY <2>1, StatusMutationIs DEF List
  <2>3. Above(m, o.task) = Above(l, o.task) /\ o.task \notin Above(l, o.task)
    BY <2>2, SameFamily, AboveIsNotBelow
  <2>4. a \in done \ {o.task}
    BY <2>3
  <2> HIDE DEF m, u, done, l, o
  <2> QED BY <2>2, <2>4 DEF Rounds
<1> QED BY <1>1, TypesHold, PTL DEF Spec, ReopeningPropagates
=============================================================================
