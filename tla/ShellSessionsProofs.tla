------------------------- MODULE ShellSessionsProofs ------------------------
(***************************************************************************)
(* Theorems about ShellSessions, for every set of shells, runs and calls   *)
(* of the window.                                                          *)
(***************************************************************************)
EXTENDS ShellSessions, TLAPS

\* The runs between the command lock and its release; the runs that have got
\* a shell; the calls that have got one.
Inside == {"start", "register", "write", "running", "expiring", "finish"}
Placed == {"inserted", "mark", "lock"} \cup Inside
Aimed == {"found", "interrupt", "writing", "wait", "refused", "escalating",
          "halting", "halted"}
Halts == {"halt", "halting", "halted", "failed"}

Flags ==
    /\ managed \subseteq Shell
    /\ index \in [Run -> Shell \cup {NoShell}]
    /\ state \in [Shell -> State]
    /\ closed \in [Shell -> BOOLEAN]
    /\ claimed \in [Shell -> BOOLEAN]
    /\ userStop \in [Shell -> BOOLEAN]
    /\ active \in [Shell -> Run \cup {NoRun}]
    /\ sender \in [Shell -> Run \cup {NoRun}]
    /\ writer \in [Shell -> {"here", "taken", "gone"}]
    /\ owner \in [Shell -> Run \cup {NoRun}]
    /\ alive \in [Shell -> BOOLEAN]
    /\ reading \in [Shell -> BOOLEAN]
    /\ working \in [Shell -> SUBSET Run]
    /\ events \in 0..MaxEvents

RunOK(x) ==
    /\ x \in RunRecord
    /\ x.at \in Placed => x.shell \in Shell
    /\ x.interrupt # "none" => x.shell \in Shell
    /\ x.at \in {"expiring", "finish"} => x.leaves \notin {"none", "starting"}
    /\ x.interrupt # "none" => x.at = "returned" \/ x.timedOut
    /\ x.at \in {"new", "spawn"} => ~x.timedOut
    /\ x.at \notin {"running", "expiring", "finish"} => ~x.done
Runs == run \in [Run -> RunRecord] /\ \A r \in Run : RunOK(run[r])

\* Only a call that halts has shells left to halt.
CallOK(k) ==
    /\ k \in CallRecord
    /\ k.at \in Aimed => k.shell \in Shell
    /\ k.at \notin Halts => k.rest = {}
Calls == call \in [Window -> CallRecord] /\ \A w \in Window : CallOK(call[w])

TypeInv == Flags /\ Runs /\ Calls

USE DEF Inside, Placed, Aimed, Halts

LEMMA InitTypes == Init => TypeInv
<1> SUFFICES ASSUME Init PROVE TypeInv
  OBVIOUS
<1>1. Flags
  BY EventsAssumption DEF Init, Flags, State
<1>2. Runs
  BY DEF Init, Runs, RunOK, NewRun, RunRecord, RunAt, State
<1>3. Calls
  BY DEF Init, Calls, CallOK, NoCall, CallRecord, CallAt
<1> QED BY <1>1, <1>2, <1>3 DEF TypeInv

LEMMA TerminateTypes ==
    ASSUME Flags, NEW s, BeginTerminate(s)
    PROVE  closed' \in [Shell -> BOOLEAN] /\ sender' \in [Shell -> Run \cup {NoRun}]
BY DEF Flags, BeginTerminate

LEMMA KillTypes ==
    ASSUME Flags, NEW s, Kill(s) \/ KillFails(s)
    PROVE  /\ writer' \in [Shell -> {"here", "taken", "gone"}]
           /\ alive' \in [Shell -> BOOLEAN]
           /\ working' \in [Shell -> SUBSET Run]
BY DEF Flags, Kill, KillFails

\* Everything but the records of runs and calls.
LEMMA FlagsStep == Flags /\ Runs /\ Next => Flags'
<1> SUFFICES ASSUME Flags, Runs, Next PROVE Flags'
  OBVIOUS
<1> USE NamesAssumption, EventsAssumption
    DEF Flags, Event, managerVars, childVars, flagVars, commandVars, Forget
<1>1. ASSUME NEW r \in Run, Executes(r) PROVE Flags'
  <2> USE DEF State
  <2>1. CASE Acquire(r)
    BY <2>1 DEF Acquire, Pruned
  <2>2. CASE Spawn(r)
    <3>1. CASE \E s \in Shell \ Interactive : Spawned(s, "starting")
      BY <2>2, <3>1 DEF Spawn, Spawned
    <3>2. CASE UNCHANGED <<state, alive, reading, managed>>
      BY <2>2, <3>2 DEF Spawn
    <3> QED BY <2>2, <3>1, <3>2 DEF Spawn
  <2>3. CASE Offer(r) \/ Mark(r)
    BY <2>3 DEF Offer, Mark
  <2>4. CASE Enter(r)
    <3>1. owner' \in [Shell -> Run \cup {NoRun}]
      BY <2>4 DEF Enter
    <3> QED BY <2>4, <3>1 DEF Enter
  <2>10. CASE Start(r)
    BY <2>10 DEF Start
  <2>5. CASE Register(r)
    BY <2>5 DEF Register, Runs, RunRecord
  <2>6. CASE WriteScript(r)
    BY <2>6 DEF WriteScript
  <2>7. CASE WriteFails(r) \/ NoWriter(r)
    BY <2>7 DEF WriteFails, NoWriter
  <2>8. CASE SeesMarker(r) \/ SeesEnd(r)
    BY <2>8 DEF SeesMarker, SeesEnd, Conclude
  <2>9. CASE Finish(r)
    <3>1. run[r].leaves \in State
      BY DEF Runs, RunRecord
    <3> QED BY <2>9, <3>1 DEF Finish
  <2> QED BY <1>1, <2>1, <2>2, <2>3, <2>4, <2>5, <2>6, <2>7, <2>8, <2>9, <2>10
         DEF Executes
<1>2. ASSUME NEW r \in Run, Interrupts(r) PROVE Flags'
  BY <1>2 DEF Interrupts, InterruptTakes, InterruptEnds
<1>3. ASSUME NEW r \in Run, TimesOut(r) PROVE Flags'
  BY <1>3 DEF TimesOut, State
<1>4. ASSUME NEW r \in Run, Ends(r) PROVE Flags'
  <2>1. CASE Expires(r)
    <3>1. BeginTerminate(run[r].shell)
      BY <2>1 DEF Expires
    <3>2. /\ state' = [state EXCEPT ![run[r].shell] = "failed"]
          /\ UNCHANGED <<managerVars, childVars, claimed, userStop, active, owner,
                         writer, call, events>>
      BY <2>1 DEF Expires
    <3> QED BY <3>1, <3>2, TerminateTypes DEF State
  <2>2. CASE Expired(r)
    <3>1. Kill(run[r].shell) \/ KillFails(run[r].shell)
      BY <2>2 DEF Expired
    <3>2. UNCHANGED <<managerVars, reading, flagVars, state, active, sender, call, events>>
      BY <2>2 DEF Expired
    <3>3. owner' \in [Shell -> Run \cup {NoRun}]
      BY <2>2 DEF Expired
    <3> QED BY <3>1, <3>2, <3>3, KillTypes
  <2> QED BY <1>4, <2>1, <2>2 DEF Ends
<1>5. ASSUME NEW w \in Window,
             (\E r \in Run : StopProcess(w, r)) \/ StopSession(w) \/ Shutdown(w)
      PROVE  Flags'
  <2>1. CASE \E r \in Run : StopProcess(w, r)
    BY <2>1 DEF StopProcess
  <2>2. CASE StopSession(w) \/ Shutdown(w)
    <3>1. PICK shells \in SUBSET managed : Remove(w, shells)
      BY <2>2 DEF StopSession, Shutdown
    <3> QED BY <3>1 DEF Remove
  <2> QED BY <1>5, <2>1, <2>2
<1>6. ASSUME NEW w \in Window, Proceeds(w) PROVE Flags'
  <2>1. CASE RequestStop(w)
    BY <2>1 DEF RequestStop, State
  <2>2. CASE StopTakes(w) \/ StopWritten(w)
    BY <2>2 DEF StopTakes, StopWritten
  <2>3. CASE Escalate(w) \/ Escalated(w) \/ NeedNotEscalate(w)
    <3>1. CASE Escalate(w)
      <4>1. BeginTerminate(call[w].shell)
        BY <3>1 DEF Escalate
      <4> QED BY <3>1, <4>1, TerminateTypes DEF Escalate, State
    <3>2. CASE Escalated(w)
      BY <3>2, KillTypes DEF Escalated
    <3>3. CASE NeedNotEscalate(w)
      BY <3>3 DEF NeedNotEscalate
    <3> QED BY <2>3, <3>1, <3>2, <3>3
  <2>4. CASE Halt(w)
    <3>1. PICK s \in call[w].rest :
             /\ BeginTerminate(s)
             /\ userStop' = [userStop EXCEPT ![s] = TRUE]
             /\ state' = [state EXCEPT ![s] = "stopping"]
      BY <2>4 DEF Halt
    <3>2. UNCHANGED <<managerVars, childVars, claimed, active, owner, writer, run, events>>
      BY <2>4 DEF Halt
    <3> QED BY <3>1, <3>2, TerminateTypes DEF State
  <2>6. CASE Halting(w)
    BY <2>6, KillTypes DEF Halting
  <2>5. CASE Halted(w)
    BY <2>5 DEF Halted, State
  <2> QED BY <1>6, <2>1, <2>2, <2>3, <2>4, <2>5, <2>6 DEF Proceeds
<1>7. ASSUME NEW s \in Shell,
             \/ Open(s) \/ Claim(s) \/ Exits(s) \/ ReaderEnds(s) \/ MonitorSees(s)
             \/ \E r \in Run : CommandEnds(s, r) \/ CommandBreaks(s, r)
      PROVE  Flags'
  <2>1. CASE Open(s)
    BY <2>1 DEF Open, Spawned, State
  <2>2. CASE Claim(s)
    BY <2>2 DEF Claim
  <2>5. CASE Exits(s)
    BY <2>5 DEF Exits
  <2>6. CASE MonitorSees(s)
    BY <2>6 DEF MonitorSees
  <2>3. CASE ReaderEnds(s)
    BY <2>3 DEF ReaderEnds
  <2>4. CASE \E r \in Run : CommandEnds(s, r) \/ CommandBreaks(s, r)
    BY <2>4 DEF CommandEnds, CommandBreaks
  <2> QED BY <1>7, <2>1, <2>2, <2>3, <2>4, <2>5, <2>6
<1> QED BY <1>1, <1>2, <1>3, <1>4, <1>5, <1>6, <1>7 DEF Next
-----------------------------------------------------------------------------
(* The records: what a step does to the one run, or the one call, it is of *)

RunOnly(r) == \A q \in Run \ {r} : run'[q] = run[q]
CallOnly(w) == \A v \in Window \ {w} : call'[v] = call[v]

LEMMA RunUpdate ==
    ASSUME Runs, NEW r \in Run, NEW x, RunOK(x), run' = [run EXCEPT ![r] = x]
    PROVE  Runs' /\ run'[r] = x /\ RunOnly(r)
BY DEF Runs, RunOnly, RunOK

LEMMA CallUpdate ==
    ASSUME Calls, NEW w \in Window, NEW x, CallOK(x), call' = [call EXCEPT ![w] = x]
    PROVE  Calls' /\ call'[w] = x /\ CallOnly(w)
BY DEF Calls, CallOnly, CallOK

SameBut(x, y) == x.shell = y.shell /\ x.done = y.done /\ x.interrupt = y.interrupt

LEMMA RunMoves ==
    ASSUME Runs, NEW r \in Run, NEW at \in RunAt \ {"new", "expiring", "finish", "returned"},
           run[r].at \notin {"running", "expiring", "finish", "returned"}, at \in Placed => run[r].at \in Placed,
           at = "spawn" => run[r].at = "new", Moved(r, at)
    PROVE  /\ Runs' /\ RunOnly(r)
           /\ run'[r].at = at /\ SameBut(run'[r], run[r])
<1> DEFINE x == [run[r] EXCEPT !.at = at]
<1>1. RunOK(x)
  BY DEF Runs, RunOK, RunRecord
<1>2. x.at = at /\ SameBut(x, run[r])
  BY DEF Runs, RunOK, RunRecord, SameBut
<1>3. run' = [run EXCEPT ![r] = x]
  BY DEF Moved
<1> QED BY <1>1, <1>2, <1>3, RunUpdate

LEMMA RunReturns ==
    ASSUME Runs, NEW r \in Run, Returns(r)
    PROVE  /\ Runs' /\ RunOnly(r)
           /\ run'[r].at = "returned" /\ run'[r].shell = run[r].shell
           /\ run'[r].interrupt = run[r].interrupt
<1> DEFINE x == [NewRun EXCEPT !.at = "returned", !.shell = run[r].shell,
                               !.interrupt = run[r].interrupt]
<1>1. RunOK(x)
  BY DEF Runs, RunOK, RunRecord, NewRun, RunAt, State
<1>2. x.at = "returned" /\ x.shell = run[r].shell /\ x.interrupt = run[r].interrupt
  BY DEF NewRun
<1>3. run' = [run EXCEPT ![r] = x]
  BY DEF Returns
<1> HIDE DEF x
<1> QED BY <1>1, <1>2, <1>3, RunUpdate

LEMMA RunPlaced ==
    ASSUME Runs, NEW r \in Run, run[r].at \in {"new", "spawn"},
           NEW at \in {"inserted", "lock"}, NEW s \in Shell,
           run' = [run EXCEPT ![r].at = at, ![r].shell = s]
    PROVE  /\ Runs' /\ RunOnly(r)
           /\ run'[r].at = at /\ run'[r].shell = s
           /\ run[r].interrupt = "none" /\ run'[r].interrupt = "none"
<1> DEFINE x == [run[r] EXCEPT !.at = at, !.shell = s]
<1>1. RunOK(x)
  BY DEF Runs, RunOK, RunRecord, RunAt
<1>2. /\ x.at = at /\ x.shell = s
      /\ run[r].interrupt = "none" /\ x.interrupt = "none"
  BY DEF Runs, RunOK, RunRecord
<1>3. run' = [run EXCEPT ![r] = x]
  OBVIOUS
<1> HIDE DEF x
<1> QED BY <1>1, <1>2, <1>3, RunUpdate

LEMMA RunConcludes ==
    ASSUME Runs, NEW r \in Run, run[r].at = "running", NEW at \in {"expiring", "finish"},
           NEW leaves \in State \ {"none", "starting"},
           run' = [run EXCEPT ![r].at = at, ![r].leaves = leaves]
    PROVE  /\ Runs' /\ RunOnly(r)
           /\ run'[r].at = at /\ run'[r].leaves = leaves
           /\ SameBut(run'[r], run[r])
<1> DEFINE x == [run[r] EXCEPT !.at = at, !.leaves = leaves]
<1>1. RunOK(x)
  BY DEF Runs, RunOK, RunRecord, RunAt
<1>2. x.at = at /\ x.leaves = leaves /\ SameBut(x, run[r])
  BY DEF Runs, RunOK, RunRecord, SameBut
<1>3. run' = [run EXCEPT ![r] = x]
  OBVIOUS
<1> HIDE DEF x
<1> QED BY <1>1, <1>2, <1>3, RunUpdate

LEMMA RunExpires ==
    ASSUME Runs, NEW r \in Run, Expires(r)
    PROVE  /\ Runs' /\ RunOnly(r) /\ SameBut(run'[r], run[r])
           /\ run'[r].at = IF closed[run[r].shell] THEN "finish" ELSE "expiring"
<1> DEFINE at == IF closed[run[r].shell] THEN "finish" ELSE "expiring"
<1>1. /\ run[r].at = "running"
      /\ run' = [run EXCEPT ![r].at = at, ![r].leaves = "failed"]
  BY DEF Expires
<1>2. at \in {"expiring", "finish"} /\ "failed" \in State \ {"none", "starting"}
  BY DEF State
<1> HIDE DEF at
<1>3. Runs' /\ RunOnly(r) /\ SameBut(run'[r], run[r]) /\ run'[r].at = at
  BY <1>1, <1>2, RunConcludes
<1> QED BY <1>3 DEF at

LEMMA RunFinishes ==
    ASSUME Runs, NEW r \in Run, run[r].at = "expiring", Moved(r, "finish")
    PROVE  /\ Runs' /\ RunOnly(r) /\ SameBut(run'[r], run[r])
           /\ run'[r].at = "finish"
<1> DEFINE x == [run[r] EXCEPT !.at = "finish"]
<1>1. RunOK(x)
  BY DEF Runs, RunOK, RunRecord, RunAt
<1>2. x.at = "finish" /\ SameBut(x, run[r])
  BY DEF Runs, RunOK, RunRecord, SameBut
<1>3. run' = [run EXCEPT ![r] = x]
  BY DEF Moved
<1> HIDE DEF x
<1> QED BY <1>1, <1>2, <1>3, RunUpdate

LEMMA RunTimesOut ==
    ASSUME Runs, NEW r \in Run, TimesOut(r)
    PROVE  /\ Runs' /\ RunOnly(r)
           /\ run'[r].at = "running" /\ run'[r].shell = run[r].shell
           /\ run'[r].done = run[r].done
           /\ run[r].interrupt = "none" /\ run'[r].interrupt = "due"
<1> DEFINE x == [run[r] EXCEPT !.timedOut = TRUE, !.interrupt = "due"]
<1>1. RunOK(x)
  BY DEF Runs, RunOK, RunRecord, RunAt, TimesOut
<1>2. /\ x.at = "running" /\ x.shell = run[r].shell /\ x.done = run[r].done
      /\ run[r].interrupt = "none" /\ x.interrupt = "due"
  BY DEF Runs, RunOK, RunRecord, TimesOut
<1>3. run' = [run EXCEPT ![r] = x]
  BY DEF TimesOut
<1> HIDE DEF x
<1> QED BY <1>1, <1>2, <1>3, RunUpdate

LEMMA RunInterrupts ==
    ASSUME Runs, NEW r \in Run, run[r].interrupt # "none",
           NEW i \in {"writing", "none"}, run' = [run EXCEPT ![r].interrupt = i]
    PROVE  /\ Runs' /\ RunOnly(r)
           /\ run'[r].at = run[r].at /\ run'[r].shell = run[r].shell
           /\ run'[r].done = run[r].done /\ run'[r].interrupt = i
           /\ run'[r].leaves = run[r].leaves
<1> DEFINE x == [run[r] EXCEPT !.interrupt = i]
<1>1. RunOK(x)
  BY DEF Runs, RunOK, RunRecord
<1>2. /\ x.at = run[r].at /\ x.shell = run[r].shell /\ x.done = run[r].done
      /\ x.interrupt = i /\ x.leaves = run[r].leaves
  BY DEF Runs, RunOK, RunRecord
<1>3. run' = [run EXCEPT ![r] = x]
  OBVIOUS
<1> HIDE DEF x
<1> QED BY <1>1, <1>2, <1>3, RunUpdate

LEMMA RunDone ==
    ASSUME Runs, NEW r \in Run, NEW d \in BOOLEAN,
           d => run[r].at \in {"running", "expiring", "finish"},
           run' = [run EXCEPT ![r].done = d]
    PROVE  /\ Runs' /\ RunOnly(r)
           /\ run'[r].at = run[r].at /\ run'[r].shell = run[r].shell
           /\ run'[r].interrupt = run[r].interrupt /\ run'[r].done = d
<1> DEFINE x == [run[r] EXCEPT !.done = d]
<1>1. RunOK(x)
  BY DEF Runs, RunOK, RunRecord
<1>2. /\ x.at = run[r].at /\ x.shell = run[r].shell
      /\ x.interrupt = run[r].interrupt /\ x.done = d
  BY DEF Runs, RunOK, RunRecord
<1>3. run' = [run EXCEPT ![r] = x]
  OBVIOUS
<1> HIDE DEF x
<1> QED BY <1>1, <1>2, <1>3, RunUpdate

\* A step of a call that has a shell.
LEMMA CallMoves ==
    ASSUME Calls, NEW w \in Window, call[w].at \in Aimed \ Halts,
           NEW at \in Aimed \ Halts, call' = [call EXCEPT ![w].at = at]
    PROVE  /\ Calls' /\ CallOnly(w)
           /\ call'[w].at = at /\ call'[w].shell = call[w].shell
           /\ call[w].rest = {} /\ call'[w].rest = {}
<1> DEFINE x == [call[w] EXCEPT !.at = at]
<1>1. CallOK(x) /\ x.at = at /\ x.shell = call[w].shell /\ x.rest = {} /\ call[w].rest = {}
  BY DEF Calls, CallOK, CallRecord, CallAt
<1>2. call' = [call EXCEPT ![w] = x]
  OBVIOUS
<1> HIDE DEF x
<1> QED BY <1>1, <1>2, CallUpdate

LEMMA CallEnds ==
    ASSUME Calls, NEW w \in Window, call' = [call EXCEPT ![w] = NoCall]
    PROVE  /\ Calls' /\ CallOnly(w)
           /\ call'[w].at = "idle" /\ call'[w].rest = {}
<1>1. CallOK(NoCall) /\ NoCall.at = "idle" /\ NoCall.rest = {}
  BY DEF CallOK, CallRecord, CallAt, NoCall
<1> QED BY <1>1, CallUpdate

LEMMA CallFinds ==
    ASSUME Calls, Flags, NEW w \in Window, NEW r \in Run, StopProcess(w, r)
    PROVE  /\ Calls' /\ CallOnly(w)
           /\ call[w].at = "idle" /\ call[w].rest = {}
           /\ call'[w].at = "found" /\ call'[w].rest = {}
<1> DEFINE x == [NoCall EXCEPT !.at = "found", !.run = r, !.shell = index[r]]
<1>1. index[r] \in Shell
  BY DEF StopProcess, Flags
<1>2. CallOK(x) /\ x.at = "found" /\ x.rest = {}
  BY <1>1 DEF CallOK, CallRecord, CallAt, NoCall
<1>3. call[w].at = "idle" /\ call[w].rest = {}
  BY DEF StopProcess, Calls, CallOK
<1>4. call' = [call EXCEPT ![w] = x]
  BY DEF StopProcess
<1> HIDE DEF x
<1> QED BY <1>2, <1>3, <1>4, CallUpdate

LEMMA CallForgets ==
    ASSUME Calls, Flags, NEW w \in Window, NEW shells \in SUBSET managed, Remove(w, shells)
    PROVE  /\ Calls' /\ CallOnly(w)
           /\ call[w].at = "idle" /\ call[w].rest = {}
           /\ call'[w].at = "halt" /\ call'[w].rest = shells
<1> DEFINE x == [NoCall EXCEPT !.at = "halt", !.rest = shells]
<1>1. CallOK(x) /\ x.at = "halt" /\ x.rest = shells
  BY DEF CallOK, CallRecord, CallAt, NoCall, Flags
<1>2. call[w].at = "idle" /\ call[w].rest = {}
  BY DEF Remove, Calls, CallOK
<1>3. call' = [call EXCEPT ![w] = x]
  BY DEF Remove
<1> HIDE DEF x
<1> QED BY <1>1, <1>2, <1>3, CallUpdate

LEMMA CallHalts ==
    ASSUME Calls, NEW w \in Window, NEW s \in call[w].rest, call[w].at = "halt",
           NEW at \in {"halting", "halted"},
           call' = [call EXCEPT ![w].at = at, ![w].shell = s, ![w].rest = @ \ {s}]
    PROVE  /\ Calls' /\ CallOnly(w) /\ s \in Shell
           /\ call'[w].at = at /\ call'[w].shell = s
           /\ call'[w].rest = call[w].rest \ {s}
<1> DEFINE x == [call[w] EXCEPT !.at = at, !.shell = s, !.rest = @ \ {s}]
<1>1. s \in Shell
  BY DEF Calls, CallOK, CallRecord
<1>2. CallOK(x) /\ x.at = at /\ x.shell = s /\ x.rest = call[w].rest \ {s}
  BY <1>1 DEF Calls, CallOK, CallRecord, CallAt
<1>3. call' = [call EXCEPT ![w] = x]
  OBVIOUS
<1> HIDE DEF x
<1> QED BY <1>1, <1>2, <1>3, CallUpdate

LEMMA CallHalting ==
    ASSUME Calls, NEW w \in Window, Halting(w)
    PROVE  /\ Calls' /\ CallOnly(w) /\ call[w].shell \in Shell
           /\ call'[w].at \in {"halted", "failed"} /\ call'[w].shell = call[w].shell
           /\ call'[w].rest = call[w].rest
<1>1. PICK at \in {"halted", "failed"} : call' = [call EXCEPT ![w].at = at]
  BY DEF Halting
<1>2. call[w].at = "halting"
  BY DEF Halting
<1> DEFINE x == [call[w] EXCEPT !.at = at]
<1>3. /\ CallOK(x) /\ x.at = at /\ x.shell = call[w].shell /\ x.rest = call[w].rest
      /\ call[w].shell \in Shell
  BY <1>2 DEF Calls, CallOK, CallRecord, CallAt
<1>4. call' = [call EXCEPT ![w] = x]
  BY <1>1
<1> HIDE DEF x
<1> QED BY <1>3, <1>4, CallUpdate

LEMMA CallHalted ==
    ASSUME Calls, NEW w \in Window, Halted(w)
    PROVE  /\ Calls' /\ CallOnly(w)
           /\ call'[w].at \in {"idle", "halt"}
           /\ call'[w].rest = call[w].rest
<1>1. CASE call[w].rest = {}
  <2>1. call' = [call EXCEPT ![w] = NoCall]
    BY <1>1 DEF Halted
  <2> QED BY <1>1, <2>1, CallEnds
<1>2. CASE call[w].rest # {}
  <2> DEFINE x == [call[w] EXCEPT !.at = "halt"]
  <2>1. CallOK(x) /\ x.at = "halt" /\ x.rest = call[w].rest
    BY DEF Calls, CallOK, CallRecord, CallAt
  <2>2. call' = [call EXCEPT ![w] = x]
    BY <1>2 DEF Halted
  <2> HIDE DEF x
  <2> QED BY <2>1, <2>2, CallUpdate
<1> QED BY <1>1, <1>2

-----------------------------------------------------------------------------
(* The invariant *)

\* Without a process there is no command; whoever kills a shell has closed it.
ChildInv ==
    /\ \A s \in Shell : ~alive[s] => working[s] = {}
    /\ \A s \in Shell : state[s] = "none" =>
          /\ ~closed[s] /\ ~alive[s] /\ ~reading[s]
          /\ active[s] = NoRun /\ sender[s] = NoRun
          /\ \A r \in Run : run[r].shell # s
    /\ \A w \in Window : call[w].at \in {"halting", "halted"} => closed[call[w].shell]
    /\ \A r \in Run : run[r].at = "expiring" =>
          closed[run[r].shell] /\ sender[run[r].shell] # r

\* The command lock: a command in an open shell is that of the run that holds
\* the lock, which the shell shows as active and sends its output to.
LockInv ==
    /\ \A r \in Run : run[r].at \in Inside => owner[run[r].shell] = r
    /\ \A s \in Shell : \A r \in working[s] :
          /\ run[r].shell = s /\ run[r].at \in {"running", "expiring", "finish", "returned"}
          /\ ~closed[s] => run[r].at = "running" /\ ~run[r].done
          /\ sender[s] = r => run[r].at \in {"running", "finish"}
    /\ \A r \in Run : run[r].at \in {"register", "write", "running"} =>
          \/ active[run[r].shell] = r /\ sender[run[r].shell] = r
          \/ closed[run[r].shell]
    /\ \A s \in Shell : closed[s] \/ sender[s] = active[s]

\* A shell that is being started is that of one run; what is idle is free.
IdleInv ==
    /\ \A s \in Shell : state[s] = "idle" /\ ~closed[s] => active[s] = NoRun
    /\ \A s \in Shell : state[s] = "starting" =>
          /\ active[s] = NoRun
          /\ \A r \in Run : run[r].shell = s => run[r].at = "inserted"
    /\ \A r \in Run : run[r].at = "inserted" =>
          /\ state[run[r].shell] = "starting" \/ closed[run[r].shell]
          /\ \A q \in Run : run[q].shell = run[r].shell => q = r

\* The writer is with the one thread that writes an interrupt.
RunWrites(r, s) == run[r].interrupt = "writing" /\ run[r].shell = s
CallWrites(w, s) == call[w].at = "writing" /\ call[w].shell = s
WriterInv ==
    \A s \in Shell :
        /\ writer[s] = "taken" <=> \/ \E r \in Run : RunWrites(r, s)
                                  \/ \E w \in Window : CallWrites(w, s)
        /\ \A r, q \in Run : RunWrites(r, s) /\ RunWrites(q, s) => r = q
        /\ \A w, v \in Window : CallWrites(w, s) /\ CallWrites(v, s) => w = v
        /\ \A r \in Run, w \in Window : ~(RunWrites(r, s) /\ CallWrites(w, s))

Inv == TypeInv /\ ChildInv /\ LockInv /\ IdleInv

\* Steps of runs that are not past the lock, and of others than runs.
LEMMA LockKept ==
    ASSUME Flags, LockInv, UNCHANGED <<active, sender, owner, closed>>,
           \A s \in Shell : working'[s] \subseteq working[s],
           \A q \in Run : \/ run'[q] = run[q]
                          \/ /\ run[q].at \notin Inside \cup {"returned"}
                             /\ run'[q].at \notin Inside,
           \A q \in Run : run[q].at \in Inside => run[q].shell \in Shell
    PROVE  LockInv'
BY DEF LockInv, Flags

LEMMA HaveShell ==
    ASSUME Runs
    PROVE  \A r \in Run : run[r].at \in Placed => run[r].shell \in Shell
BY DEF Runs, RunOK

LEMMA TerminateStep ==
    ASSUME Flags, NEW s \in Shell, BeginTerminate(s)
    PROVE  /\ closed'[s] /\ sender'[s] = IF closed[s] THEN sender[s] ELSE NoRun
           /\ \A x \in Shell \ {s} : closed'[x] = closed[x] /\ sender'[x] = sender[x]
BY DEF Flags, BeginTerminate

LEMMA KillStep ==
    ASSUME Flags, NEW s \in Shell, Kill(s) \/ KillFails(s)
    PROVE  /\ \/ ~alive'[s] /\ working'[s] = {}
              \/ alive'[s] = alive[s] /\ working'[s] = working[s]
           /\ \A x \in Shell \ {s} : alive'[x] = alive[x] /\ working'[x] = working[x]
BY DEF Flags, Kill, KillFails

LEMMA AcquireStep ==
    ASSUME Inv, NEW r \in Run, Acquire(r) PROVE ChildInv' /\ LockInv' /\ IdleInv'
<1> USE HaveShell DEF Inv, TypeInv, RunOnly, childVars, flagVars
<1>1. run[r].at = "new"
  BY DEF Acquire
<1>2. UNCHANGED <<childVars, flagVars, active, sender, owner, call>>
  BY DEF Acquire
<1>3. ASSUME NEW s \in managed, Reusable(s), state' = [state EXCEPT ![s] = "busy"],
             run' = [run EXCEPT ![r].at = "lock", ![r].shell = s]
      PROVE  ChildInv' /\ LockInv' /\ IdleInv'
  <2>1. s \in Shell /\ state[s] = "idle" /\ ~closed[s]
    BY <1>3 DEF Flags, Reusable
  <2>2. RunOnly(r) /\ run'[r].at = "lock" /\ run'[r].shell = s
    BY <1>1, <1>3, <2>1, RunPlaced
  <2>3. state'[s] = "busy" /\ \A x \in Shell \ {s} : state'[x] = state[x]
    BY <1>3, <2>1 DEF Flags
  <2> USE <1>1, <1>2, <2>1, <2>2, <2>3
  <2>4. ChildInv'
    BY DEF ChildInv, Flags
  <2>5. LockInv'
    BY LockKept
  <2>6. IdleInv'
    BY DEF IdleInv
  <2> QED BY <2>4, <2>5, <2>6
<1>4. ASSUME Moved(r, "spawn"), UNCHANGED state
      PROVE  ChildInv' /\ LockInv' /\ IdleInv'
  <2>1. RunOnly(r) /\ run'[r].at = "spawn" /\ run'[r].shell = run[r].shell
    BY <1>1, <1>4, RunMoves DEF RunAt, SameBut
  <2> USE <1>1, <1>2, <1>4, <2>1
  <2>2. ChildInv'
    BY DEF ChildInv
  <2>3. LockInv'
    BY LockKept
  <2>4. IdleInv'
    BY DEF IdleInv
  <2> QED BY <2>2, <2>3, <2>4
<1> QED BY <1>3, <1>4 DEF Acquire

LEMMA SpawnStep ==
    ASSUME Inv, NEW r \in Run, Spawn(r) PROVE ChildInv' /\ LockInv' /\ IdleInv'
<1> USE HaveShell DEF Inv, TypeInv, RunOnly, flagVars
<1>1. run[r].at = "spawn"
  BY DEF Spawn
<1>2. UNCHANGED <<working, flagVars, active, sender, owner, call>>
  BY DEF Spawn
<1>3. ASSUME NEW s \in Shell \ Interactive, Spawned(s, "starting"),
             run' = [run EXCEPT ![r].at = "inserted", ![r].shell = s]
      PROVE  ChildInv' /\ LockInv' /\ IdleInv'
  <2>1. RunOnly(r) /\ run'[r].at = "inserted" /\ run'[r].shell = s
    BY <1>1, <1>3, RunPlaced
  <2>2. /\ state[s] = "none" /\ state'[s] = "starting" /\ alive'[s]
        /\ \A x \in Shell \ {s} :
              state'[x] = state[x] /\ alive'[x] = alive[x] /\ reading'[x] = reading[x]
    BY <1>3 DEF Spawned, Flags
  <2> USE <1>1, <1>2, <2>1, <2>2
  <2>3. ChildInv'
    BY DEF ChildInv, Flags
  <2>4. LockInv'
    BY LockKept DEF ChildInv
  <2>5. IdleInv'
    BY DEF IdleInv, ChildInv
  <2> QED BY <2>3, <2>4, <2>5
<1>4. ASSUME Returns(r), UNCHANGED <<state, alive, reading>>
      PROVE  ChildInv' /\ LockInv' /\ IdleInv'
  <2>1. RunOnly(r) /\ run'[r].at = "returned" /\ run'[r].shell = run[r].shell
    BY <1>4, RunReturns
  <2> USE <1>1, <1>2, <1>4, <2>1
  <2>2. ChildInv'
    BY DEF ChildInv
  <2>3. LockInv'
    BY LockKept
  <2>4. IdleInv'
    BY DEF IdleInv
  <2> QED BY <2>2, <2>3, <2>4
<1> QED BY <1>3, <1>4 DEF Spawn

LEMMA PlaceStep ==
    ASSUME Inv, NEW r \in Run, Offer(r) \/ Mark(r)
    PROVE  ChildInv' /\ LockInv' /\ IdleInv'
<1> USE HaveShell DEF Inv, TypeInv, RunOnly, childVars, flagVars
<1> DEFINE s == run[r].shell
<1>1. run[r].at \in {"inserted", "mark"} /\ s \in Shell
  BY DEF Offer, Mark
<1>2. UNCHANGED <<childVars, flagVars, active, sender, owner, call>>
  BY DEF Offer, Mark
<1>3. RunOnly(r) /\ run'[r].at \in {"mark", "lock"} /\ run'[r].shell = s
  BY <1>1, RunMoves DEF Offer, Mark, RunAt, SameBut
<1>4. \A x \in Shell \ {s} : state'[x] = state[x]
  BY DEF Offer, Mark, Flags
<1>5. \/ run[r].at = "inserted" /\ state'[s] = "idle"
      \/ run[r].at = "mark" /\ (state'[s] = "busy" \/ state'[s] = state[s])
  BY <1>1 DEF Offer, Mark, Flags
<1> HIDE DEF s
<1>6. run[r].shell = s
  BY DEF s
<1> USE <1>1, <1>2, <1>3, <1>4, <1>5, <1>6
<1>7. ChildInv'
  BY DEF ChildInv
<1>8. LockInv'
  BY LockKept
<1>9. IdleInv'
  BY DEF IdleInv
<1> QED BY <1>7, <1>8, <1>9

LEMMA EnterStep ==
    ASSUME Inv, NEW r \in Run, Enter(r) PROVE ChildInv' /\ LockInv' /\ IdleInv'
<1> USE NamesAssumption, HaveShell DEF Inv, TypeInv, RunOnly, childVars, flagVars
<1> DEFINE s == run[r].shell
<1>1. run[r].at = "lock" /\ s \in Shell /\ owner[s] = NoRun
  BY DEF Enter
<1>2. UNCHANGED <<childVars, flagVars, state, active, sender, call>>
  BY DEF Enter
<1>3. /\ RunOnly(r) /\ run'[r].shell = s
      /\ \/ run'[r].at = "returned" /\ UNCHANGED owner
         \/ run'[r].at = "start" /\ owner' = [owner EXCEPT ![s] = r]
  <2>1. CASE Returns(r) /\ UNCHANGED owner
    BY <2>1, RunReturns
  <2>2. CASE Moved(r, "start") /\ owner' = [owner EXCEPT ![s] = r]
    BY <1>1, <2>2, RunMoves DEF RunAt, SameBut
  <2> QED BY <2>1, <2>2 DEF Enter
<1> HIDE DEF s
<1>4. run[r].shell = s
  BY DEF s
<1>5. /\ \A x \in Shell \ {s} : owner'[x] = owner[x]
      /\ run'[r].at = "start" => owner'[s] = r
  BY <1>1, <1>3 DEF Flags
<1> USE <1>1, <1>2, <1>3, <1>4, <1>5
<1>6. ChildInv'
  BY DEF ChildInv
<1>7. LockInv'
  BY DEF LockInv, Flags
<1>8. IdleInv'
  BY DEF IdleInv
<1> QED BY <1>6, <1>7, <1>8

\* What holds of the other runs with the shell of a run that has the lock.
LEMMA Alone ==
    ASSUME Inv, NEW r \in Run, run[r].at \in Inside
    PROVE  /\ run[r].shell \in Shell /\ state[run[r].shell] # "none"
           /\ state[run[r].shell] # "starting"
           /\ \A q \in Run \ {r} : run[q].at \in Inside => run[q].shell # run[r].shell
           /\ \A q \in Run : run[q].at = "inserted" => run[q].shell # run[r].shell
           /\ ~closed[run[r].shell] => working[run[r].shell] \subseteq {r}
           /\ ~closed[run[r].shell] /\ run[r].at # "running" => working[run[r].shell] = {}
           /\ run[r].at \in {"start", "register", "write"} => r \notin working[run[r].shell]
<1>1. run[r].shell \in Shell
  BY HaveShell DEF Inv, TypeInv
<1>2. state[run[r].shell] # "none" /\ state[run[r].shell] # "starting"
  BY <1>1 DEF Inv, ChildInv, IdleInv
<1>3. \A q \in Run \ {r} : run[q].at \in Inside => run[q].shell # run[r].shell
  BY DEF Inv, LockInv
<1>4. \A q \in Run : run[q].at = "inserted" => run[q].shell # run[r].shell
  BY DEF Inv, IdleInv
<1>5. /\ ~closed[run[r].shell] => working[run[r].shell] \subseteq {r}
      /\ ~closed[run[r].shell] /\ run[r].at # "running" => working[run[r].shell] = {}
      /\ run[r].at \in {"start", "register", "write"} => r \notin working[run[r].shell]
  BY <1>1, <1>3 DEF Inv, TypeInv, LockInv, Flags
<1> QED BY <1>1, <1>2, <1>3, <1>4, <1>5

LEMMA StartStep ==
    ASSUME Inv, NEW r \in Run, Start(r) PROVE ChildInv' /\ LockInv' /\ IdleInv'
<1> USE HaveShell DEF RunOnly, childVars
<1> DEFINE s == run[r].shell
<1>1. run[r].at = "start"
  BY DEF Start
<1>2. UNCHANGED <<childVars, closed, owner, call>>
  BY DEF Start
<1>3. RunOnly(r) /\ run'[r].at = "register" /\ run'[r].shell = s
  BY <1>1, RunMoves DEF Inv, TypeInv, Start, RunAt, SameBut
<1>4. s \in Shell
  BY <1>1, Alone
<1>5. /\ active'[s] = r /\ sender'[s] = r /\ state'[s] = "busy"
      /\ \A x \in Shell \ {s} : /\ active'[x] = active[x] /\ sender'[x] = sender[x]
                                /\ state'[x] = state[x]
  BY <1>1, <1>4 DEF Inv, TypeInv, Flags, Start<1> HIDE DEF s
<1>6. run[r].shell = s
  BY DEF s
<1>7. /\ state[s] # "none" /\ state[s] # "starting" /\ r \notin working[s]
      /\ ~closed[s] => working[s] = {}
      /\ \A q \in Run \ {r} : run[q].at \in Inside \cup {"inserted"} => run[q].shell # s
  BY <1>1, <1>6, Alone
<1> USE <1>1, <1>2, <1>3, <1>4, <1>5, <1>6, <1>7 DEF Inv, TypeInv
<1>8. ChildInv'
  BY DEF ChildInv
<1>9. LockInv'
  BY DEF LockInv, Flags
<1>10. IdleInv'
  BY DEF IdleInv
<1> QED BY <1>8, <1>9, <1>10

LEMMA WriteStep ==
    ASSUME Inv, NEW r \in Run, Register(r) \/ WriteScript(r)
    PROVE  ChildInv' /\ LockInv' /\ IdleInv'
<1> USE HaveShell DEF RunOnly
<1> DEFINE s == run[r].shell
<1>1. run[r].at \in {"register", "write"}
  BY DEF Register, WriteScript
<1>2. UNCHANGED <<alive, reading, closed, state, active, sender, owner, call>>
  BY DEF Register, WriteScript, childVars, flagVars, commandVars
<1>3. /\ RunOnly(r) /\ run'[r].at \in {"write", "running"} /\ run'[r].shell = s
      /\ run'[r].done = run[r].done
  BY <1>1, RunMoves DEF Inv, TypeInv, Register, WriteScript, RunAt, SameBut
<1>4. s \in Shell
  BY <1>1, Alone
<1>5. ~run[r].done
  BY <1>1 DEF Inv, TypeInv, Runs, RunOK
<1>6. /\ \A x \in Shell \ {s} : working'[x] = working[x]
      /\ \/ working'[s] = working[s]
         \/ alive[s] /\ run'[r].at = "running" /\ working'[s] = working[s] \cup {r}
  <2>1. CASE Register(r)
    BY <2>1 DEF Register, childVars
  <2>2. CASE WriteScript(r)
    <3>1. run'[r].at = "running"
      BY <2>2, RunMoves DEF Inv, TypeInv, WriteScript, RunAt
    <3> QED BY <1>4, <2>2, <3>1 DEF Inv, TypeInv, Flags, WriteScript
  <2> QED BY <2>1, <2>2
<1> HIDE DEF s
<1>7. run[r].shell = s
  BY DEF s
<1>8. r \notin working[s] /\ (~closed[s] => working[s] = {})
  BY <1>1, <1>7, Alone
<1> USE <1>1, <1>2, <1>3, <1>4, <1>5, <1>6, <1>7, <1>8 DEF Inv, TypeInv
<1>9. ChildInv'
  BY DEF ChildInv
<1>10. LockInv'
  BY DEF LockInv, Flags
<1>11. IdleInv'
  BY DEF IdleInv
<1> QED BY <1>9, <1>10, <1>11

\* A run gives the lock back, with its command over or never written.
LEMMA LeaveStep ==
    ASSUME Inv, NEW r \in Run, WriteFails(r) \/ NoWriter(r) \/ Finish(r)
    PROVE  ChildInv' /\ LockInv' /\ IdleInv'
<1> USE NamesAssumption, HaveShell DEF RunOnly, childVars, flagVars
<1> DEFINE s == run[r].shell
<1>1. run[r].at \in {"write", "finish"}
  BY DEF WriteFails, NoWriter, Finish
<1>2. UNCHANGED <<childVars, flagVars, call>>
  BY DEF WriteFails, NoWriter, Finish
<1>3. RunOnly(r) /\ run'[r].at = "returned" /\ run'[r].shell = s
  BY <1>1, RunReturns DEF Inv, TypeInv, WriteFails, NoWriter, Finish
<1>4. s \in Shell
  BY <1>1, Alone
<1>5. \A x \in Shell \ {s} : /\ active'[x] = active[x] /\ sender'[x] = sender[x]
                             /\ state'[x] = state[x] /\ owner'[x] = owner[x]
  BY <1>4 DEF Inv, TypeInv, Flags, WriteFails, NoWriter, Finish
<1>6. CASE NoWriter(r)
  <2>1. UNCHANGED <<state, active, sender>> /\ run[r].at = "write"
    BY <1>6 DEF NoWriter
  <2> HIDE DEF s
  <2>2. run[r].shell = s
    BY DEF s
  <2>3. /\ state[s] # "none" /\ state[s] # "starting"
        /\ ~closed[s] => working[s] = {}
        /\ \A q \in Run \ {r} : run[q].at \in Inside \cup {"inserted"} => run[q].shell # s
        /\ run[r].at = "write" => r \notin working[s]
    BY <1>1, <2>2, Alone
  <2> USE <1>1, <1>2, <1>3, <1>4, <1>5, <2>1, <2>2, <2>3 DEF Inv, TypeInv
  <2>4. ChildInv'
    BY DEF ChildInv
  <2>5. LockInv'
    BY DEF LockInv, Flags
  <2>6. IdleInv'
    BY DEF IdleInv
  <2> QED BY <2>4, <2>5, <2>6
<1>7. CASE WriteFails(r) \/ Finish(r)
  <2>1. /\ active'[s] = NoRun /\ sender'[s] = NoRun
        /\ state'[s] \notin {"none", "starting"}
    <3>1. CASE WriteFails(r)
      BY <1>4, <3>1 DEF WriteFails, Inv, TypeInv, Flags
    <3>2. CASE Finish(r)
      <4>1. state'[s] = run[r].leaves /\ active'[s] = NoRun /\ sender'[s] = NoRun
        BY <1>4, <3>2 DEF Finish, Inv, TypeInv, Flags
      <4>2. run[r].leaves # "none" /\ run[r].leaves # "starting"
        BY <3>2 DEF Finish, Inv, TypeInv, Runs, RunOK
      <4> QED BY <4>1, <4>2
    <3> QED BY <1>7, <3>1, <3>2
  <2> HIDE DEF s
  <2>2. run[r].shell = s
    BY DEF s
  <2>3. /\ state[s] # "none" /\ state[s] # "starting"
        /\ ~closed[s] => working[s] = {}
        /\ \A q \in Run \ {r} : run[q].at \in Inside \cup {"inserted"} => run[q].shell # s
        /\ run[r].at = "write" => r \notin working[s]
    BY <1>1, <2>2, Alone
  <2> USE <1>1, <1>2, <1>3, <1>4, <1>5, <2>1, <2>2, <2>3 DEF Inv, TypeInv
  <2>4. ChildInv'
    BY DEF ChildInv
  <2>5. LockInv'
    BY DEF LockInv, Flags
  <2>6. IdleInv'
    BY DEF IdleInv
  <2> QED BY <2>4, <2>5, <2>6
<1> QED BY <1>6, <1>7

\* The marker has come, or the channel is closed: either way the command is
\* not in the shell any more.
LEMMA ConcludeStep ==
    ASSUME Inv, NEW r \in Run, SeesMarker(r) \/ SeesEnd(r)
    PROVE  ChildInv' /\ LockInv' /\ IdleInv'
<1> USE HaveShell DEF RunOnly, childVars, commandVars
<1>1. run[r].at = "running"
  BY DEF SeesMarker, SeesEnd
<1>2. UNCHANGED <<childVars, closed, commandVars, call>>
  BY DEF SeesMarker, SeesEnd, Conclude
<1>3. RunOnly(r) /\ run'[r].at = "finish" /\ run'[r].shell = run[r].shell
  <2>1. PICK leaves \in State \ {"none", "starting"} : Conclude(r, leaves)
    BY DEF SeesMarker, SeesEnd, State
  <2> QED BY <1>1, <2>1, RunConcludes DEF Conclude, SameBut, Inv, TypeInv
<1>4. \A x \in Shell : ~closed[x] => r \notin working[x]
  <2>1. CASE run[r].done
    BY <2>1 DEF Inv, LockInv
  <2>2. CASE sender[run[r].shell] # r
    <3>1. closed[run[r].shell]
      BY <1>1, <2>2 DEF Inv, LockInv
    <3> QED BY <3>1 DEF Inv, LockInv
  <2> QED BY <2>1, <2>2 DEF SeesMarker, SeesEnd
<1> USE <1>1, <1>2, <1>3, <1>4 DEF Inv, TypeInv
<1>5. ChildInv'
  BY DEF ChildInv
<1>6. LockInv'
  BY DEF LockInv, Flags
<1>7. IdleInv'
  BY DEF IdleInv
<1> QED BY <1>5, <1>6, <1>7

LEMMA TimesOutStep ==
    ASSUME Inv, NEW r \in Run, TimesOut(r) PROVE ChildInv' /\ LockInv' /\ IdleInv'
<1> USE HaveShell DEF RunOnly, childVars, flagVars
<1> DEFINE s == run[r].shell
<1>1. run[r].at = "running"
  BY DEF TimesOut
<1>2. UNCHANGED <<childVars, flagVars, active, sender, owner, call>>
  BY DEF TimesOut
<1>3. /\ RunOnly(r) /\ run'[r].at = run[r].at /\ run'[r].shell = s
      /\ run'[r].done = run[r].done
  BY <1>1, RunTimesOut DEF Inv, TypeInv
<1>4. s \in Shell /\ state[s] # "none" /\ state[s] # "starting"
  BY <1>1, Alone
<1>5. state'[s] = "interrupting" /\ \A x \in Shell \ {s} : state'[x] = state[x]
  BY <1>4 DEF Inv, TypeInv, Flags, TimesOut
<1> HIDE DEF s
<1>6. run[r].shell = s /\ \A q \in Run : run[q].at = "inserted" => run[q].shell # s
  BY <1>1, Alone DEF s
<1> USE <1>1, <1>2, <1>3, <1>4, <1>5, <1>6 DEF Inv, TypeInv
<1>7. ChildInv'
  BY DEF ChildInv
<1>8. LockInv'
  BY DEF LockInv, Flags
<1>9. IdleInv'
  BY DEF IdleInv
<1> QED BY <1>7, <1>8, <1>9

LEMMA ExpiresStep ==
    ASSUME Inv, NEW r \in Run, Expires(r) PROVE ChildInv' /\ LockInv' /\ IdleInv'
<1> USE NamesAssumption, HaveShell DEF RunOnly, childVars
<1> DEFINE s == run[r].shell
<1>1. run[r].at = "running" /\ BeginTerminate(s)
  BY DEF Expires
<1>2. UNCHANGED <<childVars, active, owner, call>>
  BY DEF Expires
<1>3. /\ RunOnly(r) /\ run'[r].shell = s
      /\ run'[r].at = IF closed[s] THEN "finish" ELSE "expiring"
  BY RunExpires DEF SameBut, Inv, TypeInv
<1>4. s \in Shell /\ state[s] # "none" /\ state[s] # "starting"
  BY <1>1, Alone
<1>5. state'[s] = "failed" /\ \A x \in Shell \ {s} : state'[x] = state[x]
  BY <1>4 DEF Inv, TypeInv, Flags, Expires
<1>6. /\ closed'[s] /\ sender'[s] = IF closed[s] THEN sender[s] ELSE NoRun
      /\ \A x \in Shell \ {s} : closed'[x] = closed[x] /\ sender'[x] = sender[x]
  BY <1>1, <1>4, TerminateStep DEF Inv, TypeInv
<1> HIDE DEF s
<1>7. run[r].shell = s /\ \A q \in Run : run[q].at = "inserted" => run[q].shell # s
  BY <1>1, Alone DEF s
<1> USE <1>1, <1>2, <1>3, <1>4, <1>5, <1>6, <1>7 DEF Inv, TypeInv
<1>8. ChildInv'
  <2>1. \A w \in Window : call[w].at \in {"halting", "halted"} => call[w].shell \in Shell
    BY DEF Calls, CallOK
  <2> QED BY <2>1 DEF ChildInv
<1>9. LockInv'
  BY DEF LockInv, Flags
<1>10. IdleInv'
  BY DEF IdleInv
<1> QED BY <1>8, <1>9, <1>10

\* The rest of it: the shell is dead, or its command goes on in a closed shell.
LEMMA ExpiredStep ==
    ASSUME Inv, NEW r \in Run, Expired(r) PROVE ChildInv' /\ LockInv' /\ IdleInv'
<1> USE NamesAssumption, HaveShell DEF RunOnly, flagVars
<1> DEFINE s == run[r].shell
<1>1. run[r].at = "expiring" /\ (Kill(s) \/ KillFails(s))
  BY DEF Expired
<1>2. UNCHANGED <<reading, flagVars, state, active, sender, call>>
  BY DEF Expired
<1>3. /\ RunOnly(r) /\ run'[r].shell = s
      /\ \/ run'[r].at = "finish" /\ UNCHANGED owner
         \/ run'[r].at = "returned" /\ owner' = [owner EXCEPT ![s] = NoRun]
  <2>1. CASE Moved(r, "finish") /\ UNCHANGED owner
    BY <1>1, <2>1, RunFinishes DEF SameBut, Inv, TypeInv
  <2>2. CASE Returns(r) /\ owner' = [owner EXCEPT ![s] = NoRun]
    BY <2>2, RunReturns DEF Inv, TypeInv
  <2> QED BY <2>1, <2>2 DEF Expired
<1>4. s \in Shell /\ state[s] # "none" /\ closed[s] /\ sender[s] # r
  BY <1>1, Alone DEF Inv, ChildInv
<1>5. /\ \/ ~alive'[s] /\ working'[s] = {}
         \/ alive'[s] = alive[s] /\ working'[s] = working[s]
      /\ \A x \in Shell \ {s} : alive'[x] = alive[x] /\ working'[x] = working[x]
  BY <1>1, <1>4, KillStep DEF Inv, TypeInv
<1>6. /\ \A x \in Shell \ {s} : owner'[x] = owner[x]
      /\ run'[r].at = "finish" => owner'[s] = owner[s]
  BY <1>3, <1>4 DEF Inv, TypeInv, Flags
<1> HIDE DEF s
<1>7. /\ run[r].shell = s
      /\ \A q \in Run \ {r} : run[q].at \in Inside \cup {"inserted"} => run[q].shell # s
  BY <1>1, Alone DEF s
<1> USE <1>1, <1>2, <1>3, <1>4, <1>5, <1>6, <1>7 DEF Inv, TypeInv
<1>8. ChildInv'
  BY DEF ChildInv
<1>9. LockInv'
  BY DEF LockInv, Flags
<1>10. IdleInv'
  BY DEF IdleInv
<1> QED BY <1>8, <1>9, <1>10

LEMMA InterruptsStep ==
    ASSUME Inv, NEW r \in Run, Interrupts(r) PROVE ChildInv' /\ LockInv' /\ IdleInv'
<1> USE HaveShell
    DEF RunOnly, childVars, flagVars, commandVars, Inv, TypeInv
<1>1. UNCHANGED <<childVars, flagVars, commandVars, call>>
  BY DEF Interrupts, InterruptTakes, InterruptEnds
<1>2. /\ RunOnly(r) /\ run'[r].at = run[r].at /\ run'[r].shell = run[r].shell
      /\ run'[r].done = run[r].done
  <2>1. CASE InterruptTakes(r)
    BY <2>1, RunInterrupts DEF InterruptTakes
  <2>2. CASE InterruptEnds(r)
    BY <2>2, RunInterrupts DEF InterruptEnds
  <2> QED BY <2>1, <2>2 DEF Interrupts
<1> USE <1>1, <1>2
<1>3. ChildInv'
  BY DEF ChildInv
<1>4. LockInv'
  BY DEF LockInv, Flags
<1>5. IdleInv'
  BY DEF IdleInv
<1> QED BY <1>3, <1>4, <1>5

-----------------------------------------------------------------------------
(* The window *)

\* A call of which the shells do not notice anything.
LEMMA CallKept ==
    ASSUME Inv, NEW w \in Window, CallOnly(w), call'[w].at \notin {"halting", "halted"},
           UNCHANGED <<childVars, flagVars, commandVars, run>>
    PROVE  ChildInv' /\ LockInv' /\ IdleInv'
<1> USE DEF Inv, childVars, flagVars, commandVars
<1>1. ChildInv'
  BY DEF ChildInv, CallOnly
<1>2. LockInv'
  BY DEF LockInv
<1>3. IdleInv'
  BY DEF IdleInv
<1> QED BY <1>1, <1>2, <1>3

LEMMA StopStep ==
    ASSUME Inv, NEW w \in Window,
           \/ \E r \in Run : StopProcess(w, r)
           \/ StopSession(w) \/ Shutdown(w)
           \/ StopTakes(w) \/ StopWritten(w) \/ NeedNotEscalate(w)
    PROVE  ChildInv' /\ LockInv' /\ IdleInv'
<1> USE CallKept DEF Inv, TypeInv
<1>1. CASE \E r \in Run : StopProcess(w, r)
  BY <1>1, CallFinds DEF StopProcess
<1>2. CASE StopSession(w) \/ Shutdown(w)
  <2>1. PICK shells \in SUBSET managed : Remove(w, shells)
    BY <1>2 DEF StopSession, Shutdown
  <2> QED BY <2>1, CallForgets DEF Remove
<1>3. CASE StopTakes(w)
  BY <1>3, CallMoves DEF StopTakes
<1>4. CASE StopWritten(w)
  BY <1>4, CallMoves DEF StopWritten
<1>5. CASE NeedNotEscalate(w)
  BY <1>5, CallEnds DEF NeedNotEscalate
<1> QED BY <1>1, <1>2, <1>3, <1>4, <1>5

LEMMA RequestStopStep ==
    ASSUME Inv, NEW w \in Window, RequestStop(w)
    PROVE  ChildInv' /\ LockInv' /\ IdleInv'
<1> DEFINE s == call[w].shell
<1>1. call[w].at = "found" /\ s \in Shell
  BY DEF RequestStop, Inv, TypeInv, Calls, CallOK
<1>2. UNCHANGED <<childVars, closed, active, sender, owner, run>>
  BY DEF RequestStop
<1>3. CallOnly(w) /\ call'[w].at \notin {"halting", "halted"}
  BY <1>1, CallMoves, CallEnds DEF RequestStop, Inv, TypeInv
<1>4. /\ \A x \in Shell \ {s} : state'[x] = state[x]
      /\ \/ state'[s] = state[s]
         \/ state'[s] = "interrupting" /\ active[s] # NoRun /\ ~closed[s]
  BY <1>1 DEF RequestStop, Inv, TypeInv, Flags
<1> HIDE DEF s
<1> USE <1>1, <1>2, <1>3, <1>4, HaveShell DEF Inv, TypeInv, CallOnly, childVars
<1>5. ChildInv'
  BY DEF ChildInv
<1>6. LockInv'
  BY DEF LockInv
<1>7. IdleInv'
  BY DEF IdleInv
<1> QED BY <1>5, <1>6, <1>7

\* A call begins to terminate a shell.
LEMMA HaltStep ==
    ASSUME Inv, NEW w \in Window, Escalate(w) \/ Halt(w)
    PROVE  ChildInv' /\ LockInv' /\ IdleInv'
<1>1. PICK s \in Shell :
         /\ BeginTerminate(s) /\ state' = [state EXCEPT ![s] = "stopping"]
         /\ CallOnly(w)
         /\ call'[w].at \in {"halting", "halted"} => call'[w].shell = s
  <2>1. CASE Escalate(w)
    <3>1. call[w].shell \in Shell /\ call[w].at \in Aimed \ Halts
      BY <2>1 DEF Escalate, Inv, TypeInv, Calls, CallOK
    <3>2. \/ call' = [call EXCEPT ![w] = NoCall]
          \/ call' = [call EXCEPT ![w].at = "escalating"]
      BY <2>1 DEF Escalate
    <3>3. CallOnly(w) /\ call'[w].at \notin {"halting", "halted"}
      BY <3>1, <3>2, CallEnds, CallMoves DEF Inv, TypeInv
    <3> QED BY <2>1, <3>1, <3>3 DEF Escalate
  <2>2. CASE Halt(w)
    <3>1. PICK s \in call[w].rest, at \in {"halting", "halted"} :
             /\ BeginTerminate(s) /\ state' = [state EXCEPT ![s] = "stopping"]
             /\ call' = [call EXCEPT ![w].at = at, ![w].shell = s, ![w].rest = @ \ {s}]
      BY <2>2 DEF Halt
    <3>2. call[w].at = "halt"
      BY <2>2 DEF Halt
    <3> QED BY <3>1, <3>2, CallHalts DEF Inv, TypeInv
  <2> QED BY <2>1, <2>2
<1>2. UNCHANGED <<childVars, active, owner, run>>
  BY DEF Escalate, Halt
<1>3. state'[s] = "stopping" /\ \A x \in Shell \ {s} : state'[x] = state[x]
  BY <1>1 DEF Inv, TypeInv, Flags
<1>4. /\ closed'[s] /\ sender'[s] = IF closed[s] THEN sender[s] ELSE NoRun
      /\ \A x \in Shell \ {s} : closed'[x] = closed[x] /\ sender'[x] = sender[x]
  BY <1>1, TerminateStep DEF Inv, TypeInv
<1>5. /\ CallOnly(w)
      /\ call'[w].at \in {"halting", "halted"} => call'[w].shell = s
  BY <1>1
<1> USE <1>2, <1>3, <1>4, <1>5, HaveShell DEF Inv, TypeInv, CallOnly, childVars
<1>6. ChildInv'
  <2>1. \A v \in Window : call[v].at \in {"halting", "halted"} => call[v].shell \in Shell
    BY DEF Calls, CallOK
  <2> QED BY <2>1, NamesAssumption DEF ChildInv
<1>7. LockInv'
  BY NamesAssumption DEF LockInv, Flags
<1>8. IdleInv'
  BY DEF IdleInv
<1> QED BY <1>6, <1>7, <1>8

\* ... and has killed it, or not.
LEMMA HaltingStep ==
    ASSUME Inv, NEW w \in Window, Escalated(w) \/ Halting(w)
    PROVE  ChildInv' /\ LockInv' /\ IdleInv'
<1> DEFINE s == call[w].shell
<1>1. s \in Shell /\ (Kill(s) \/ KillFails(s))
  BY DEF Escalated, Halting, Inv, TypeInv, Calls, CallOK
<1>2. UNCHANGED <<reading, flagVars, commandVars, run>>
  BY DEF Escalated, Halting
<1>3. /\ CallOnly(w)
      /\ call'[w].at \in {"halting", "halted"} => closed[s] /\ call'[w].shell = s
  <2>1. CASE Escalated(w)
    BY <2>1, CallEnds DEF Escalated, Inv, TypeInv
  <2>2. CASE Halting(w)
    BY <2>2, CallHalting DEF Halting, Inv, TypeInv, ChildInv
  <2> QED BY <2>1, <2>2
<1>4. /\ \/ ~alive'[s] /\ working'[s] = {}
         \/ alive'[s] = alive[s] /\ working'[s] = working[s]
      /\ \A x \in Shell \ {s} : alive'[x] = alive[x] /\ working'[x] = working[x]
  BY <1>1, KillStep DEF Inv, TypeInv
<1> HIDE DEF s
<1> USE <1>1, <1>2, <1>3, <1>4, HaveShell
    DEF Inv, TypeInv, CallOnly, flagVars, commandVars
<1>5. ChildInv'
  BY DEF ChildInv
<1>6. LockInv'
  BY DEF LockInv, Flags
<1>7. IdleInv'
  BY DEF IdleInv
<1> QED BY <1>5, <1>6, <1>7

LEMMA HaltedStep ==
    ASSUME Inv, NEW w \in Window, Halted(w)
    PROVE  ChildInv' /\ LockInv' /\ IdleInv'
<1> DEFINE s == call[w].shell
<1>1. s \in Shell /\ closed[s]
  BY DEF Halted, Inv, TypeInv, Calls, CallOK, ChildInv
<1>2. UNCHANGED <<childVars, flagVars, sender, owner, run>>
  BY DEF Halted
<1>3. CallOnly(w) /\ call'[w].at \notin {"halting", "halted"}
  BY CallHalted DEF Inv, TypeInv
<1>4. /\ active'[s] = NoRun /\ state'[s] = "stopped"
      /\ \A x \in Shell \ {s} : active'[x] = active[x] /\ state'[x] = state[x]
  BY <1>1 DEF Halted, Inv, TypeInv, Flags
<1> HIDE DEF s
<1> USE <1>1, <1>2, <1>3, <1>4, HaveShell
    DEF Inv, TypeInv, CallOnly, childVars, flagVars
<1>5. ChildInv'
  BY DEF ChildInv
<1>6. LockInv'
  BY DEF LockInv, Flags, ChildInv
<1>7. IdleInv'
  BY DEF IdleInv
<1> QED BY <1>5, <1>6, <1>7

-----------------------------------------------------------------------------
(* The shells *)

LEMMA OpenStep ==
    ASSUME Inv, NEW s \in Shell, Open(s) PROVE ChildInv' /\ LockInv' /\ IdleInv'
<1>1. /\ state[s] = "none" /\ state'[s] = "idle" /\ alive'[s]
      /\ \A x \in Shell \ {s} :
            state'[x] = state[x] /\ alive'[x] = alive[x] /\ reading'[x] = reading[x]
  BY DEF Open, Spawned, Inv, TypeInv, Flags
<1>2. UNCHANGED <<working, closed, active, sender, owner, run, call>>
  BY DEF Open
<1> USE <1>1, <1>2, HaveShell DEF Inv, TypeInv
<1>3. ChildInv'
  BY DEF ChildInv, Flags
<1>4. LockInv'
  BY LockKept DEF ChildInv
<1>5. IdleInv'
  BY DEF IdleInv, ChildInv
<1> QED BY <1>3, <1>4, <1>5

LEMMA ExitStep ==
    ASSUME Inv, NEW s \in Shell, Exits(s) \/ ReaderEnds(s) \/ MonitorSees(s) \/ Claim(s)
    PROVE  ChildInv' /\ LockInv' /\ IdleInv'
<1>1. /\ \A x \in Shell \ {s} :
            /\ closed'[x] = closed[x] /\ alive'[x] = alive[x] /\ reading'[x] = reading[x]
            /\ working'[x] = working[x] /\ sender'[x] = sender[x]
            /\ active'[x] = active[x]
      /\ UNCHANGED <<state, owner, run, call>>
  BY DEF Exits, ReaderEnds, MonitorSees, Claim, Inv, TypeInv, Flags, childVars,
      flagVars, commandVars
<1>2. CASE Claim(s)
  <2> USE <1>2, HaveShell
      DEF Claim, Inv, TypeInv, childVars, commandVars
  <2>1. ChildInv'
    BY DEF ChildInv
  <2>2. LockInv'
    BY LockKept
  <2>3. IdleInv'
    BY DEF IdleInv
  <2> QED BY <2>1, <2>2, <2>3
<1>3. CASE Exits(s) \/ ReaderEnds(s) \/ MonitorSees(s)
  <2>1. ~alive'[s] /\ working'[s] = {} /\ state[s] # "none"
    BY <1>3 DEF Exits, ReaderEnds, MonitorSees, Inv, TypeInv, Flags, ChildInv, childVars
  <2>2. \/ closed'[s] = closed[s] /\ active'[s] = active[s] /\ sender'[s] = sender[s]
        \/ closed'[s] /\ active'[s] = active[s] /\ sender'[s] = sender[s]
        \/ closed'[s] /\ active'[s] = NoRun /\ sender'[s] = NoRun
    BY <1>3 DEF Exits, ReaderEnds, MonitorSees, Inv, TypeInv, Flags, flagVars, commandVars
  <2> USE <1>1, <2>1, <2>2, NamesAssumption, HaveShell DEF Inv, TypeInv
  <2>3. ChildInv'
    <3>1. \A v \in Window : call[v].at \in {"halting", "halted"} => call[v].shell \in Shell
      BY DEF Calls, CallOK
    <3> QED BY <3>1 DEF ChildInv
  <2>4. LockInv'
    BY DEF LockInv, Flags
  <2>5. IdleInv'
    BY DEF IdleInv
  <2> QED BY <2>3, <2>4, <2>5
<1> QED BY <1>2, <1>3

LEMMA CommandStep ==
    ASSUME Inv, NEW s \in Shell, NEW r \in Run, CommandEnds(s, r) \/ CommandBreaks(s, r)
    PROVE  ChildInv' /\ LockInv' /\ IdleInv'
<1>1. r \in working[s] /\ run[r].shell = s
  BY DEF CommandEnds, CommandBreaks, Inv, LockInv
<1>2. UNCHANGED <<alive, reading, closed, state, active, sender, owner, call>>
  BY DEF CommandEnds, CommandBreaks, flagVars, commandVars
<1>3. /\ working'[s] = working[s] \ {r}
      /\ \A x \in Shell \ {s} : working'[x] = working[x]
  BY DEF CommandEnds, CommandBreaks, Inv, TypeInv, Flags
<1>4. RunOnly(r) /\ run'[r].at = run[r].at /\ run'[r].shell = run[r].shell
  <2>1. CASE CommandEnds(s, r)
    <3> DEFINE d == run[r].done \/ (reading[s] /\ sender[s] = r)
    <3>1. d \in BOOLEAN /\ (d => run[r].at \in {"running", "expiring", "finish"})
      BY <1>1 DEF Inv, TypeInv, Runs, RunOK, RunRecord, LockInv
    <3>2. run' = [run EXCEPT ![r].done = d]
      BY <2>1 DEF CommandEnds
    <3> HIDE DEF d
    <3> QED BY <1>1, <3>1, <3>2, RunDone DEF Inv, TypeInv
  <2>2. CASE CommandBreaks(s, r)
    BY <2>2 DEF CommandBreaks, RunOnly
  <2> QED BY <2>1, <2>2
<1> USE <1>1, <1>2, <1>3, <1>4, HaveShell DEF Inv, TypeInv, RunOnly
<1>5. ChildInv'
  BY DEF ChildInv
<1>6. LockInv'
  BY DEF LockInv, Flags
<1>7. IdleInv'
  BY DEF IdleInv
<1> QED BY <1>5, <1>6, <1>7

-----------------------------------------------------------------------------
(* Types, and who writes an interrupt *)

\* A run that moves on leaves its interrupt, when one is written, alone.
SameInterrupt(r) ==
    /\ run'[r].interrupt = "writing" <=> run[r].interrupt = "writing"
    /\ run[r].interrupt = "writing" => run'[r].shell = run[r].shell

LEMMA RunEffect ==
    ASSUME TypeInv, NEW r \in Run, Executes(r) \/ TimesOut(r) \/ Ends(r)
    PROVE  Runs' /\ RunOnly(r) /\ SameInterrupt(r) /\ UNCHANGED call
<1> USE DEF TypeInv, SameBut, SameInterrupt
<1>1. CASE Acquire(r)
  <2>1. run[r].at = "new" /\ UNCHANGED call
    BY <1>1 DEF Acquire
  <2>2. CASE \E s \in managed : run' = [run EXCEPT ![r].at = "lock", ![r].shell = s]
    BY <2>1, <2>2, RunPlaced DEF Flags
  <2>3. CASE Moved(r, "spawn")
    BY <2>1, <2>3, RunMoves DEF RunAt
  <2> QED BY <1>1, <2>1, <2>2, <2>3 DEF Acquire
<1>2. CASE Spawn(r)
  <2>1. run[r].at = "spawn" /\ UNCHANGED call
    BY <1>2 DEF Spawn
  <2>2. CASE \E s \in Shell \ Interactive :
             run' = [run EXCEPT ![r].at = "inserted", ![r].shell = s]
    BY <2>1, <2>2, RunPlaced
  <2>3. CASE Returns(r)
    BY <2>1, <2>3, RunReturns
  <2> QED BY <1>2, <2>1, <2>2, <2>3 DEF Spawn
<1>3. CASE Offer(r) \/ Mark(r)
  BY <1>3, RunMoves DEF Offer, Mark, RunAt
<1>4. CASE Enter(r)
  BY <1>4, RunMoves, RunReturns DEF Enter, RunAt
<1>5. CASE Start(r) \/ Register(r) \/ WriteScript(r)
  BY <1>5, RunMoves DEF Start, Register, WriteScript, RunAt
<1>6. CASE WriteFails(r) \/ NoWriter(r) \/ Finish(r)
  BY <1>6, RunReturns DEF WriteFails, NoWriter, Finish
<1>7. CASE SeesMarker(r) \/ SeesEnd(r)
  <2>1. PICK leaves \in State \ {"none", "starting"} : Conclude(r, leaves)
    BY <1>7 DEF SeesMarker, SeesEnd, State
  <2>2. run[r].at = "running"
    BY <1>7 DEF SeesMarker, SeesEnd
  <2> QED BY <2>1, <2>2, RunConcludes DEF Conclude
<1>8. CASE TimesOut(r)
  BY <1>8, RunTimesOut DEF TimesOut
<1>9. CASE Expires(r)
  BY <1>9, RunExpires DEF Expires
<1>10. CASE Expired(r)
  <2>1. run[r].at = "expiring" /\ UNCHANGED call
    BY <1>10 DEF Expired
  <2>2. Moved(r, "finish") \/ Returns(r)
    BY <1>10 DEF Expired
  <2> QED BY <2>1, <2>2, RunFinishes, RunReturns
<1> QED BY <1>1, <1>2, <1>3, <1>4, <1>5, <1>6, <1>7, <1>8, <1>9, <1>10 DEF Executes, Ends

LEMMA InterruptEffect ==
    ASSUME TypeInv, NEW r \in Run, Interrupts(r)
    PROVE  /\ Runs' /\ RunOnly(r) /\ UNCHANGED call
           /\ run'[r].shell = run[r].shell /\ run[r].shell \in Shell
<1>1. run[r].interrupt # "none" /\ UNCHANGED call
  BY DEF Interrupts, InterruptTakes, InterruptEnds
<1>2. \E i \in {"writing", "none"} : run' = [run EXCEPT ![r].interrupt = i]
  BY DEF Interrupts, InterruptTakes, InterruptEnds
<1> QED BY <1>1, <1>2, RunInterrupts DEF TypeInv, Runs, RunOK

LEMMA CallEffect ==
    ASSUME TypeInv, NEW w \in Window,
           \/ \E r \in Run : StopProcess(w, r)
           \/ StopSession(w) \/ Shutdown(w) \/ Proceeds(w)
    PROVE  /\ Calls' /\ CallOnly(w) /\ UNCHANGED run
           /\ ~(StopTakes(w) \/ StopWritten(w)) =>
                 call[w].at # "writing" /\ call'[w].at # "writing"
<1> USE DEF TypeInv
<1>1. CASE \E r \in Run : StopProcess(w, r)
  BY <1>1, CallFinds DEF StopProcess
<1>2. CASE StopSession(w) \/ Shutdown(w)
  <2>1. PICK shells \in SUBSET managed : Remove(w, shells)
    BY <1>2 DEF StopSession, Shutdown
  <2> QED BY <2>1, CallForgets DEF Remove
<1>3. CASE RequestStop(w)
  <2>1. call[w].at = "found" /\ UNCHANGED run
    BY <1>3 DEF RequestStop
  <2>2. \/ call' = [call EXCEPT ![w] = NoCall]
        \/ call' = [call EXCEPT ![w].at = "interrupt"]
    BY <1>3 DEF RequestStop
  <2>3. ~StopTakes(w) /\ ~StopWritten(w)
    BY <2>1 DEF StopTakes, StopWritten
  <2> QED BY <2>1, <2>2, <2>3, CallMoves, CallEnds
<1>4. CASE StopTakes(w) \/ StopWritten(w)
  BY <1>4, CallMoves DEF StopTakes, StopWritten
<1>5. CASE Escalate(w) \/ Escalated(w) \/ NeedNotEscalate(w)
  <2>1. /\ call[w].at \in {"wait", "refused", "escalating"} /\ UNCHANGED run
        /\ \/ call' = [call EXCEPT ![w] = NoCall]
           \/ /\ call[w].at \in {"wait", "refused"}
              /\ call' = [call EXCEPT ![w].at = "escalating"]
    BY <1>5 DEF Escalate, Escalated, NeedNotEscalate
  <2> QED BY <2>1, CallEnds, CallMoves
<1>6. CASE Halt(w)
  <2>1. PICK s \in call[w].rest, at \in {"halting", "halted"} :
           call' = [call EXCEPT ![w].at = at, ![w].shell = s, ![w].rest = @ \ {s}]
    BY <1>6 DEF Halt
  <2>2. call[w].at = "halt" /\ UNCHANGED run
    BY <1>6 DEF Halt
  <2> QED BY <2>1, <2>2, CallHalts
<1>8. CASE Halting(w)
  BY <1>8, CallHalting DEF Halting
<1>7. CASE Halted(w)
  BY <1>7, CallHalted DEF Halted
<1> QED BY <1>1, <1>2, <1>3, <1>4, <1>5, <1>6, <1>7, <1>8 DEF Proceeds

LEMMA ShellEffect ==
    ASSUME Inv, NEW s \in Shell,
           \/ Open(s) \/ Claim(s) \/ Exits(s) \/ ReaderEnds(s) \/ MonitorSees(s)
           \/ \E r \in Run : CommandEnds(s, r) \/ CommandBreaks(s, r)
    PROVE  /\ Runs' /\ UNCHANGED <<call, writer>>
           /\ \A q \in Run : run'[q].interrupt = run[q].interrupt
                             /\ run'[q].shell = run[q].shell
<1>1. CASE Open(s) \/ Claim(s) \/ Exits(s) \/ ReaderEnds(s) \/ MonitorSees(s)
  BY <1>1 DEF Open, Claim, Exits, ReaderEnds, MonitorSees, Inv, TypeInv, Runs
<1>2. ASSUME NEW r \in Run, CommandEnds(s, r)
      PROVE  /\ Runs' /\ UNCHANGED <<call, writer>>
             /\ \A q \in Run : run'[q].interrupt = run[q].interrupt
                               /\ run'[q].shell = run[q].shell
  <2> DEFINE d == run[r].done \/ (reading[s] /\ sender[s] = r)
  <2>1. d \in BOOLEAN /\ (d => run[r].at \in {"running", "expiring", "finish"})
    BY <1>2 DEF CommandEnds, Inv, TypeInv, Runs, RunOK, RunRecord, LockInv
  <2>2. run' = [run EXCEPT ![r].done = d] /\ UNCHANGED <<call, writer>>
    BY <1>2 DEF CommandEnds
  <2> HIDE DEF d
  <2> QED BY <2>1, <2>2, RunDone DEF Inv, TypeInv, RunOnly
<1>3. ASSUME NEW r \in Run, CommandBreaks(s, r)
      PROVE  /\ Runs' /\ UNCHANGED <<call, writer>>
             /\ \A q \in Run : run'[q].interrupt = run[q].interrupt
                               /\ run'[q].shell = run[q].shell
  <2>1. UNCHANGED <<run, call, writer>>
    BY <1>3 DEF CommandBreaks
  <2> QED BY <2>1 DEF Inv, TypeInv, Runs
<1> QED BY <1>1, <1>2, <1>3

LEMMA InvStep == Inv /\ [Next]_vars => Inv'
<1> SUFFICES ASSUME Inv, [Next]_vars PROVE Inv'
  OBVIOUS
<1>1. CASE UNCHANGED vars
  BY <1>1 DEF vars, Inv, TypeInv, Flags, Runs, Calls, ChildInv, LockInv, IdleInv,
      managerVars, childVars, flagVars, commandVars
<1>2. CASE Next
  <2>1. TypeInv'
    <3>1. Flags'
      BY <1>2, FlagsStep DEF Inv, TypeInv
    <3>2. Runs' /\ Calls'
      BY <1>2, RunEffect, InterruptEffect, CallEffect, ShellEffect
      DEF Next, Inv, TypeInv, Runs, Calls
    <3> QED BY <3>1, <3>2 DEF TypeInv
  <2>2. ChildInv' /\ LockInv' /\ IdleInv'
    BY <1>2, AcquireStep, SpawnStep, PlaceStep, EnterStep, StartStep, WriteStep,
       LeaveStep, ConcludeStep, TimesOutStep, ExpiresStep, ExpiredStep, InterruptsStep,
       StopStep, RequestStopStep, HaltStep, HaltingStep, HaltedStep, OpenStep, ExitStep,
       CommandStep
    DEF Next, Executes, Ends, Proceeds
  <2> QED BY <2>1, <2>2 DEF Inv
<1> QED BY <1>1, <1>2

LEMMA InvHolds == Spec => []Inv
<1>1. Init => Inv
  <2> SUFFICES ASSUME Init PROVE Inv
    OBVIOUS
  <2> USE DEF Init, NewRun, NoCall
  <2>1. ChildInv
    BY NamesAssumption DEF ChildInv
  <2>2. LockInv
    BY DEF LockInv
  <2>3. IdleInv
    BY DEF IdleInv
  <2> QED BY <2>1, <2>2, <2>3, InitTypes DEF Inv
<1> QED BY <1>1, InvStep, PTL DEF Spec

-----------------------------------------------------------------------------
(* The theorems *)

\* Only the run that an open shell shows as active has a command in it, although
\* the pool may have given the shell to several runs: they wait for the command
\* lock, and a run whose command is cut short has closed the shell.
THEOREM OneCommandAtATime == Spec => []ShellWorksOnActive
<1>1. Inv => ShellWorksOnActive
  <2> SUFFICES ASSUME Inv, NEW s \in Shell, ~closed[s], NEW r \in working[s]
               PROVE  active[s] = r
    BY DEF ShellWorksOnActive
  <2>1. r \in Run /\ run[r].shell = s /\ run[r].at = "running"
    BY DEF Inv, TypeInv, Flags, LockInv
  <2> QED BY <2>1 DEF Inv, LockInv
<1> QED BY <1>1, InvHolds, PTL

\* A shell that the pool offers has neither an active run nor a command.
THEOREM IdleShellsAreFree == Spec => []IdleShellIsFree
<1>1. Inv => IdleShellIsFree
  <2> SUFFICES ASSUME Inv, NEW s \in Shell, state[s] = "idle", ~closed[s]
               PROVE  active[s] = NoRun /\ working[s] = {}
    BY DEF IdleShellIsFree
  <2>1. active[s] = NoRun
    BY DEF Inv, IdleInv
  <2>2. working[s] \subseteq Run /\ \A r \in working[s] : active[s] = r
    BY DEF Inv, TypeInv, Flags, LockInv
  <2> QED BY <2>1, <2>2, NamesAssumption
<1> QED BY <1>1, InvHolds, PTL

\* What is alive stays alive, and known.
LEMMA KnownKept ==
    ASSUME LiveShellIsKnown, managed \subseteq managed',
           \A s \in Shell : alive'[s] /\ ~closed'[s] => alive[s] /\ ~closed[s],
           \A w \in Window : call[w].rest \subseteq call'[w].rest
    PROVE  LiveShellIsKnown'
BY DEF LiveShellIsKnown

LEMMA KnownStep == Inv /\ LiveShellIsKnown /\ [Next]_vars => LiveShellIsKnown'
<1> SUFFICES ASSUME Inv, LiveShellIsKnown, [Next]_vars PROVE LiveShellIsKnown'
  OBVIOUS
<1> USE KnownKept
    DEF Inv, TypeInv, managerVars, childVars, flagVars, commandVars
<1>1. ASSUME NEW r \in Run, Executes(r) PROVE LiveShellIsKnown'
  <2>1. CASE Acquire(r)
    BY <2>1 DEF Acquire, Forget, Pruned, LiveShellIsKnown
  <2>2. CASE Spawn(r)
    <3>1. CASE \E s \in Shell \ Interactive : Spawned(s, "starting")
      BY <2>2, <3>1 DEF Spawn, Spawned, LiveShellIsKnown, Flags
    <3>2. CASE UNCHANGED <<state, alive, reading, managed>>
      BY <2>2, <3>2 DEF Spawn
    <3> QED BY <2>2, <3>1, <3>2 DEF Spawn
  <2>3. CASE ~Acquire(r) /\ ~Spawn(r)
    <3>1. UNCHANGED <<managed, alive, closed, call>>
      BY <1>1, <2>3 DEF Executes, Offer, Mark, Enter, Start, Register, WriteScript,
         WriteFails, NoWriter, SeesMarker, SeesEnd, Conclude, Finish
    <3> QED BY <3>1
  <2> QED BY <2>1, <2>2, <2>3
<1>2. ASSUME NEW r \in Run, Interrupts(r) \/ TimesOut(r) PROVE LiveShellIsKnown'
  BY <1>2 DEF Interrupts, InterruptTakes, InterruptEnds, TimesOut
<1>3. ASSUME NEW r \in Run, Ends(r) PROVE LiveShellIsKnown'
  <2>1. CASE Expires(r)
    <3>1. BeginTerminate(run[r].shell) /\ run[r].shell \in Shell /\ UNCHANGED <<managed, call, alive>>
      BY <2>1, HaveShell DEF Expires
    <3> QED BY <3>1, TerminateStep
  <2>2. CASE Expired(r)
    <3>1. /\ Kill(run[r].shell) \/ KillFails(run[r].shell)
          /\ run[r].shell \in Shell /\ UNCHANGED <<managed, call, closed>>
      BY <2>2, HaveShell DEF Expired
    <3> QED BY <3>1, KillStep
  <2> QED BY <1>3, <2>1, <2>2 DEF Ends
<1>4. ASSUME NEW w \in Window, NEW r \in Run, StopProcess(w, r) PROVE LiveShellIsKnown'
  BY <1>4, CallFinds DEF StopProcess, CallOnly
<1>5. ASSUME NEW w \in Window, StopSession(w) \/ Shutdown(w) PROVE LiveShellIsKnown'
  <2>1. PICK shells \in SUBSET managed : Remove(w, shells)
    BY <1>5 DEF StopSession, Shutdown
  <2>2. managed' = managed \ shells /\ UNCHANGED <<alive, closed>>
    BY <2>1 DEF Remove, Forget
  <2>3. CallOnly(w) /\ call[w].rest = {} /\ call'[w].rest = shells
    BY <2>1, CallForgets
  <2> QED BY <2>2, <2>3 DEF LiveShellIsKnown, CallOnly
<1>6. ASSUME NEW w \in Window, Proceeds(w) PROVE LiveShellIsKnown'
  <2>1. CASE RequestStop(w)
    BY <2>1, CallMoves, CallEnds DEF RequestStop, CallOnly, Calls, CallOK
  <2>2. CASE StopTakes(w) \/ StopWritten(w) \/ NeedNotEscalate(w)
    BY <2>2, CallMoves, CallEnds
    DEF StopTakes, StopWritten, NeedNotEscalate, CallOnly, Calls, CallOK
  <2>3. CASE Escalate(w) \/ Escalated(w)
    <3>1. /\ call[w].shell \in Shell /\ call[w].rest = {} /\ UNCHANGED managed
          /\ call[w].at \in Aimed \ Halts
      BY <2>3 DEF Escalate, Escalated, Calls, CallOK
    <3>2. \/ call' = [call EXCEPT ![w] = NoCall]
          \/ call' = [call EXCEPT ![w].at = "escalating"]
      BY <2>3 DEF Escalate, Escalated
    <3>3. CallOnly(w)
      BY <3>1, <3>2, CallEnds, CallMoves
    <3>4. CASE Escalate(w)
      <4>1. BeginTerminate(call[w].shell) /\ UNCHANGED alive
        BY <3>4 DEF Escalate
      <4> QED BY <3>1, <3>3, <4>1, TerminateStep DEF CallOnly
    <3>5. CASE Escalated(w)
      <4>1. (Kill(call[w].shell) \/ KillFails(call[w].shell)) /\ UNCHANGED closed
        BY <3>5 DEF Escalated
      <4> QED BY <3>1, <3>3, <4>1, KillStep DEF CallOnly
    <3> QED BY <2>3, <3>4, <3>5
  <2>4. CASE Halt(w)
    <3>1. PICK s \in call[w].rest, at \in {"halting", "halted"} :
             /\ BeginTerminate(s)
             /\ call' = [call EXCEPT ![w].at = at, ![w].shell = s, ![w].rest = @ \ {s}]
      BY <2>4 DEF Halt
    <3>2. call[w].at = "halt" /\ UNCHANGED <<managed, alive>>
      BY <2>4 DEF Halt
    <3>3. CallOnly(w) /\ s \in Shell /\ call'[w].rest = call[w].rest \ {s}
      BY <3>1, <3>2, CallHalts
    <3>4. /\ closed'[s]
          /\ \A x \in Shell \ {s} : closed'[x] = closed[x]
      BY <3>1, <3>3, TerminateStep
    <3> QED BY <3>2, <3>3, <3>4 DEF LiveShellIsKnown, CallOnly
  <2>6. CASE Halting(w)
    <3>1. (Kill(call[w].shell) \/ KillFails(call[w].shell)) /\ UNCHANGED <<managed, closed>>
      BY <2>6 DEF Halting
    <3>2. CallOnly(w) /\ call[w].shell \in Shell /\ call'[w].rest = call[w].rest
      BY <2>6, CallHalting
    <3> QED BY <3>1, <3>2, KillStep DEF CallOnly
  <2>5. CASE Halted(w)
    BY <2>5, CallHalted DEF Halted, CallOnly
  <2> QED BY <1>6, <2>1, <2>2, <2>3, <2>4, <2>5, <2>6 DEF Proceeds
<1>7. ASSUME NEW s \in Shell, Open(s) PROVE LiveShellIsKnown'
  BY <1>7 DEF Open, Spawned, LiveShellIsKnown, Flags
<1>8. ASSUME NEW s \in Shell,
             \/ Claim(s) \/ Exits(s) \/ ReaderEnds(s) \/ MonitorSees(s)
             \/ \E r \in Run : CommandEnds(s, r) \/ CommandBreaks(s, r)
      PROVE  LiveShellIsKnown'
  <2>1. UNCHANGED <<managed, call>>
    BY <1>8 DEF Claim, Exits, ReaderEnds, MonitorSees, CommandEnds, CommandBreaks
  <2>2. \A x \in Shell : alive'[x] /\ ~closed'[x] => alive[x] /\ ~closed[x]
    BY <1>8 DEF Claim, Exits, ReaderEnds, MonitorSees, CommandEnds, CommandBreaks, Flags
  <2> QED BY <2>1, <2>2
<1>9. CASE UNCHANGED vars
  BY <1>9 DEF vars
<1> QED BY <1>1, <1>2, <1>3, <1>4, <1>5, <1>6, <1>7, <1>8, <1>9 DEF Next

\* No open shell is forgotten: one that is alive and not closed is known to the
\* manager, or a call of the window is about to stop it or has failed before it
\* came to it.
THEOREM LiveShellsAreKnown == Spec => []LiveShellIsKnown
<1>1. Init => LiveShellIsKnown
  BY DEF Init, LiveShellIsKnown
<1> QED BY <1>1, KnownStep, InvHolds, PTL DEF Spec

\* Nobody writes an interrupt more or less.
LEMMA WriterKept ==
    ASSUME WriterInv,
           \A s \in Shell : (writer'[s] = "taken") = (writer[s] = "taken"),
           \A r \in Run : SameInterrupt(r),
           \A w \in Window : /\ call'[w].at = "writing" <=> call[w].at = "writing"
                             /\ call[w].at = "writing" => call'[w].shell = call[w].shell
    PROVE  WriterInv'
<1>1. \A s \in Shell : /\ \A r \in Run : RunWrites(r, s)' <=> RunWrites(r, s)
                      /\ \A w \in Window : CallWrites(w, s)' <=> CallWrites(w, s)
  BY DEF RunWrites, CallWrites, SameInterrupt
<1> HIDE DEF RunWrites, CallWrites
<1> QED BY <1>1 DEF WriterInv

LEMMA KillWriter ==
    ASSUME Flags, NEW s \in Shell, Kill(s) \/ KillFails(s)
    PROVE  \A x \in Shell : (writer'[x] = "taken") = (writer[x] = "taken")
BY DEF Flags, Kill, KillFails

LEMMA WriterStep == Inv /\ WriterInv /\ [Next]_vars => WriterInv'
<1> SUFFICES ASSUME Inv, WriterInv, [Next]_vars PROVE WriterInv'
  OBVIOUS
<1> USE DEF Inv, TypeInv
<1>1. ASSUME NEW r \in Run, Executes(r) \/ TimesOut(r) \/ Ends(r) PROVE WriterInv'
  <2>1. \A q \in Run : SameInterrupt(q)
    BY <1>1, RunEffect DEF RunOnly, SameInterrupt
  <2>2. UNCHANGED call
    BY <1>1, RunEffect
  <2>3. \A x \in Shell : (writer'[x] = "taken") = (writer[x] = "taken")
    <3>1. CASE Executes(r) \/ TimesOut(r) \/ Expires(r)
      BY <3>1 DEF Executes, Acquire, Spawn, Offer, Mark, Enter, Start, Register,
         WriteScript, WriteFails, NoWriter, SeesMarker, SeesEnd, Conclude, Finish,
         TimesOut, Expires
    <3>2. CASE Expired(r)
      BY <3>2, HaveShell, KillWriter DEF Expired
    <3> QED BY <1>1, <3>1, <3>2 DEF Ends
  <2> QED BY <2>1, <2>2, <2>3, WriterKept
<1>2. ASSUME NEW r \in Run, Interrupts(r) PROVE WriterInv'
  <2> DEFINE s == run[r].shell
  <2>1. /\ RunOnly(r) /\ UNCHANGED call
        /\ run'[r].shell = s /\ s \in Shell
    BY <1>2, InterruptEffect
  <2>2. /\ run[r].interrupt # "none"
        /\ \A x \in Shell \ {s} : writer'[x] = writer[x]
    BY <1>2, <2>1 DEF Interrupts, InterruptTakes, InterruptEnds, Flags
  <2>3. \/ /\ run[r].interrupt = "due" /\ run'[r].interrupt = "none"
           /\ writer[s] # "taken" /\ writer'[s] # "taken"
        \/ /\ run[r].interrupt = "due" /\ run'[r].interrupt = "writing"
           /\ writer[s] # "taken" /\ writer'[s] = "taken"
        \/ /\ run[r].interrupt = "writing" /\ run'[r].interrupt = "none"
           /\ writer'[s] # "taken"
    <3>1. CASE InterruptTakes(r)
      BY <2>1, <3>1, RunInterrupts DEF InterruptTakes, Flags
    <3>2. CASE InterruptEnds(r)
      BY <2>1, <3>2, RunInterrupts DEF InterruptEnds, Flags
    <3> QED BY <1>2, <3>1, <3>2 DEF Interrupts
  <2> HIDE DEF s
  <2>4. run[r].shell = s
    BY DEF s
  <2> USE <2>1, <2>2, <2>4 DEF RunWrites, CallWrites, RunOnly
  <2>5. ASSUME run[r].interrupt = "due", run'[r].interrupt = "none",
               writer[s] # "taken", writer'[s] # "taken"
        PROVE  WriterInv'
    BY <2>5 DEF WriterInv
  <2>6. ASSUME run[r].interrupt = "due", run'[r].interrupt = "writing",
               writer[s] # "taken", writer'[s] = "taken"
        PROVE  WriterInv'
    BY <2>6 DEF WriterInv
  <2>7. ASSUME run[r].interrupt = "writing", run'[r].interrupt = "none",
               writer'[s] # "taken"
        PROVE  WriterInv'
    BY <2>7 DEF WriterInv
  <2> QED BY <2>3, <2>5, <2>6, <2>7
<1>3. ASSUME NEW w \in Window,
             \/ \E r \in Run : StopProcess(w, r)
             \/ StopSession(w) \/ Shutdown(w) \/ Proceeds(w),
             ~(StopTakes(w) \/ StopWritten(w))
      PROVE  WriterInv'
  <2>1. /\ CallOnly(w) /\ UNCHANGED run
        /\ call[w].at # "writing" /\ call'[w].at # "writing"
    BY <1>3, CallEffect
  <2>2. \A x \in Shell : (writer'[x] = "taken") = (writer[x] = "taken")
    <3>1. CASE Escalated(w)
      <4>1. call[w].shell \in Shell
        BY <3>1 DEF Escalated, Calls, CallOK
      <4> QED BY <3>1, <4>1, KillWriter DEF Escalated
    <3>2. CASE Halting(w)
      <4>1. call[w].shell \in Shell
        BY <3>2 DEF Halting, Calls, CallOK
      <4> QED BY <3>2, <4>1, KillWriter DEF Halting
    <3>3. CASE ~Escalated(w) /\ ~Halting(w)
      BY <1>3, <3>3 DEF StopProcess, StopSession, Shutdown, Remove, Proceeds,
         RequestStop, NeedNotEscalate, Escalate, Halt, Halted
    <3> QED BY <3>1, <3>2, <3>3
  <2> QED BY <2>1, <2>2, WriterKept DEF SameInterrupt, CallOnly
<1>4. ASSUME NEW w \in Window, StopTakes(w) \/ StopWritten(w) PROVE WriterInv'
  <2> DEFINE s == call[w].shell
  <2>1. s \in Shell /\ UNCHANGED run
    BY <1>4 DEF StopTakes, StopWritten, Calls, CallOK
  <2>2. CallOnly(w) /\ call'[w].shell = s
    BY <1>4, CallMoves DEF StopTakes, StopWritten
  <2>3. \A x \in Shell \ {s} : writer'[x] = writer[x]
    BY <1>4, <2>1 DEF StopTakes, StopWritten, Flags
  <2>4. \/ /\ call[w].at = "interrupt" /\ call'[w].at = "refused"
           /\ writer[s] # "taken" /\ writer'[s] # "taken"
        \/ /\ call[w].at = "interrupt" /\ call'[w].at = "writing"
           /\ writer[s] # "taken" /\ writer'[s] = "taken"
        \/ /\ call[w].at = "writing" /\ call'[w].at \in {"wait", "refused"}
           /\ writer'[s] # "taken"
    <3>1. CASE StopTakes(w)
      <4>1. call[w].at = "interrupt" /\ writer[s] # "taken"
        BY <3>1 DEF StopTakes
      <4>2. CASE writer[s] = "here"
        <5>1. /\ writer' = [writer EXCEPT ![s] = "taken"]
              /\ call' = [call EXCEPT ![w].at = "writing"]
          BY <3>1, <4>2 DEF StopTakes
        <5> QED BY <2>1, <4>1, <5>1, CallMoves DEF Flags
      <4>3. CASE writer[s] # "here"
        <5>1. call' = [call EXCEPT ![w].at = "refused"] /\ UNCHANGED writer
          BY <3>1, <4>3 DEF StopTakes
        <5> QED BY <2>1, <4>1, <5>1, CallMoves DEF Flags
      <4> QED BY <4>2, <4>3
    <3>2. CASE StopWritten(w)
      BY <2>1, <3>2, CallMoves DEF StopWritten, Flags
    <3> QED BY <1>4, <3>1, <3>2
  <2> HIDE DEF s
  <2>5. call[w].shell = s
    BY DEF s
  <2> USE <2>1, <2>2, <2>3, <2>5 DEF RunWrites, CallWrites, CallOnly
  <2>6. ASSUME call[w].at = "interrupt", call'[w].at = "refused",
               writer[s] # "taken", writer'[s] # "taken"
        PROVE  WriterInv'
    BY <2>6 DEF WriterInv
  <2>7. ASSUME call[w].at = "interrupt", call'[w].at = "writing",
               writer[s] # "taken", writer'[s] = "taken"
        PROVE  WriterInv'
    BY <2>7 DEF WriterInv
  <2>8. ASSUME call[w].at = "writing", call'[w].at \in {"wait", "refused"},
               writer'[s] # "taken"
        PROVE  WriterInv'
    BY <2>8 DEF WriterInv
  <2> QED BY <2>4, <2>6, <2>7, <2>8
<1>5. ASSUME NEW s \in Shell,
             \/ Open(s) \/ Claim(s) \/ Exits(s) \/ ReaderEnds(s) \/ MonitorSees(s)
             \/ \E r \in Run : CommandEnds(s, r) \/ CommandBreaks(s, r)
      PROVE  WriterInv'
  BY <1>5, ShellEffect, WriterKept DEF SameInterrupt
<1>6. CASE UNCHANGED vars
  BY <1>6 DEF vars, WriterInv, RunWrites, CallWrites
<1> QED BY <1>1, <1>2, <1>3, <1>4, <1>5, <1>6 DEF Next, Proceeds

\* The variables keep their types, and the PTY writer is away exactly while one
\* thread writes an interrupt with it: of a run that has timed out, or of a stop.
\* The output of an open shell goes to the command it shows as active.
THEOREM TypeCorrect == Spec => []TypeOK
<1>1. Init => WriterInv
  <2> SUFFICES ASSUME Init PROVE WriterInv
    OBVIOUS
  <2>1. \A r \in Run : run[r].interrupt = "none"
    BY DEF Init, NewRun
  <2>2. \A w \in Window : call[w].at = "idle"
    BY DEF Init, NoCall
  <2>3. \A s \in Shell : writer[s] = "here"
    BY DEF Init
  <2> QED BY <2>1, <2>2, <2>3 DEF WriterInv, RunWrites, CallWrites
<1>2. ASSUME Inv, WriterInv PROVE TypeOK
  <2>1. ASSUME NEW s \in Shell
        PROVE  /\ (writer[s] = "taken") = (Writing(s) # {})
               /\ \A x, y \in Writing(s) : x = y
               /\ closed[s] \/ sender[s] = active[s]
    BY <1>2 DEF WriterInv, RunWrites, CallWrites, Writing, Inv, LockInv
  <2> QED BY <1>2, <2>1 DEF Inv, TypeInv, Flags, Runs, Calls, TypeOK
<1> QED BY <1>1, <1>2, WriterStep, InvHolds, PTL DEF Spec
=============================================================================
