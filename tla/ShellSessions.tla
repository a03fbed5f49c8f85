---------------------------- MODULE ShellSessions ---------------------------
(***************************************************************************)
(* The pool of reusable shells of one session of the application:          *)
(* crates/gestura-core/src/tools/shell_sessions.rs.                        *)
(*                                                                         *)
(* A command run takes an idle shell of the pool or spawns one, waits for  *)
(* the shell's command lock, announces itself as the active command,       *)
(* writes its script and reads until the done marker, the end of the       *)
(* channel or a time-out.  Meanwhile the window stops commands by run id,  *)
(* stops shells, shuts the pool down and claims shells for the user; the   *)
(* reader thread and the monitor of the child notice a shell that exits.   *)
(*                                                                         *)
(* Each field of a shell has its own lock: a step is what is done between  *)
(* two awaits, or up to the point where what another thread does matters.  *)
(* Output, working directories and lifecycle events are left out.          *)
(***************************************************************************)
EXTENDS Naturals

CONSTANTS
    Shell,     \* shell session ids (UUIDs: used once)
    Interactive, \* those that the user opens (their SessionMode)
    Run,       \* command runs, which are also the process ids
    Window,    \* calls of stop and shutdown
    Chatty,    \* runs whose output keeps their time-out from firing
    NoShell, NoRun,
    MaxEvents  \* bound on what comes from outside: calls of the user, exits of shells

ASSUME NamesAssumption == NoShell \notin Shell /\ NoRun \notin Run
ASSUME ModeAssumption == Interactive \subseteq Shell
ASSUME ChattyAssumption == Chatty \subseteq Run
ASSUME EventsAssumption == MaxEvents \in Nat

VARIABLES
    \* the manager, under its lock
    managed,   \* the shells it knows (one pool: its list has the same members)
    index,     \* the shell in which a process id is registered
    \* the shells
    state,     \* ShellSessionState; "none" before the shell is spawned
    closed,
    claimed,   \* user-managed: interactive, or claimed by the user
    userStop,  \* user_stop_requested
    active,    \* active_process_id
    sender,    \* active_sender: the run that the reader thread sends output to
    writer,    \* the PTY writer: in its place, taken by an interrupt, dropped
    owner,     \* the holder of the command lock
    alive,     \* the child process
    reading,   \* the reader thread has not seen the end of the output
    working,   \* the commands written to the shell and not finished by it
    \* the threads
    run,       \* the command runs
    call,      \* the calls of the window
    events     \* what has come from outside (bound)

managerVars == <<managed, index>>
childVars == <<alive, reading, working>>
flagVars == <<closed, claimed, userStop>>
commandVars == <<state, active, sender, owner>>
vars == <<managerVars, childVars, flagVars, commandVars, writer, run, call, events>>

State == {"none", "starting", "idle", "busy", "interrupting", "stopping",
          "stopped", "failed"}
RunAt == {"new", "spawn", "inserted", "mark", "lock", "start", "register", "write",
          "running", "expiring", "finish", "returned"}
\* at: where the run is;  interrupt: the interrupt it spawns on a time-out.
RunRecord == [at : RunAt, shell : Shell \cup {NoShell}, done : BOOLEAN,
              timedOut : BOOLEAN, interrupt : {"none", "due", "writing"},
              leaves : State]
NewRun == [at |-> "new", shell |-> NoShell, done |-> FALSE, timedOut |-> FALSE,
           interrupt |-> "none", leaves |-> "none"]
CallAt == {"idle", "found", "interrupt", "writing", "wait", "refused",
           "escalating", "halt", "halting", "halted", "failed"}
\* shell: the shell it is at;  rest: the shells it has still to stop.
CallRecord == [at : CallAt, run : Run \cup {NoRun}, shell : Shell \cup {NoShell},
               rest : SUBSET Shell]
NoCall == [at |-> "idle", run |-> NoRun, shell |-> NoShell, rest |-> {}]

\* The interrupts being written in s, by a run that has timed out or a stop.
Writing(s) ==
    {r \in Run : run[r].interrupt = "writing" /\ run[r].shell = s}
        \cup {w \in Window : call[w].at = "writing" /\ call[w].shell = s}

\* The types, and two relations between the locks of a shell: the writer is out
\* exactly while one interrupt is written, and the output of an open shell goes
\* to the command it shows as active.
TypeOK ==
    /\ managed \subseteq Shell
    /\ index \in [Run -> Shell \cup {NoShell}]
    /\ state \in [Shell -> State]
    /\ closed \in [Shell -> BOOLEAN]
    /\ claimed \in [Shell -> BOOLEAN]
    /\ userStop \in [Shell -> BOOLEAN]
    /\ active \in [Shell -> Run \cup {NoRun}]
    /\ sender \in [Shell -> Run \cup {NoRun}]
    /\ writer \in [Shell -> {"here", "taken", "gone"}]
    /\ owner \in [Shell -> Run \cup {NoRun}]
    /\ alive \in [Shell -> BOOLEAN]
    /\ reading \in [Shell -> BOOLEAN]
    /\ working \in [Shell -> SUBSET Run]
    /\ run \in [Run -> RunRecord]
    /\ call \in [Window -> CallRecord]
    /\ events \in 0..MaxEvents
    /\ \A s \in Shell : /\ (writer[s] = "taken") = (Writing(s) # {})
                        /\ \A x, y \in Writing(s) : x = y
                        /\ closed[s] \/ sender[s] = active[s]

Init ==
    /\ managed = {}
    /\ index = [r \in Run |-> NoShell]
    /\ state = [s \in Shell |-> "none"]
    /\ closed = [s \in Shell |-> FALSE]
    /\ claimed = [s \in Shell |-> FALSE]
    /\ userStop = [s \in Shell |-> FALSE]
    /\ active = [s \in Shell |-> NoRun]
    /\ sender = [s \in Shell |-> NoRun]
    /\ writer = [s \in Shell |-> "here"]
    /\ owner = [s \in Shell |-> NoRun]
    /\ alive = [s \in Shell |-> FALSE]
    /\ reading = [s \in Shell |-> FALSE]
    /\ working = [s \in Shell |-> {}]
    /\ run = [r \in Run |-> NewRun]
    /\ call = [w \in Window |-> NoCall]
    /\ events = 0

Moved(r, at) == run' = [run EXCEPT ![r].at = at]
Returns(r) == run' = [run EXCEPT ![r] = [NewRun EXCEPT !.at = "returned",
                                                       !.shell = run[r].shell,
                                                       !.interrupt = run[r].interrupt]]

\* Something comes from outside that the model bounds: the user asks, a shell exits.
Event ==
    /\ events < MaxEvents
    /\ events' = events + 1

-----------------------------------------------------------------------------
(* Finding a shell for a run *)

\* The manager forgets shells, and the processes registered in them.
Forget(shells) ==
    /\ managed' = managed \ shells
    /\ index' = [r \in Run |-> IF index[r] \in shells THEN NoShell ELSE index[r]]

\* mark_busy_if_idle
Reusable(s) == ~closed[s] /\ ~claimed[s] /\ state[s] = "idle"

\* Variant: whatever cannot be used is pruned.
PrunedUnusable == {s \in managed : ~Reusable(s)}

\* prune_pool_locked
Pruned == {s \in managed : closed[s]}

\* acquire_idle_session: closed shells are pruned, an idle one is taken.
Acquire(r) ==
    /\ run[r].at = "new"
    /\ Forget(Pruned)
    /\ \/ \E s \in managed :
             /\ Reusable(s)
             /\ state' = [state EXCEPT ![s] = "busy"]
             /\ run' = [run EXCEPT ![r].at = "lock", ![r].shell = s]
       \/ /\ \A s \in managed : ~Reusable(s)
          /\ Moved(r, "spawn")
          /\ UNCHANGED state
    /\ UNCHANGED <<childVars, flagVars, active, sender, owner, writer, call, events>>

\* A new process and its reader; the manager inserts it.
Spawned(s, st) ==
    /\ state[s] = "none"
    /\ state' = [state EXCEPT ![s] = st]
    /\ alive' = [alive EXCEPT ![s] = TRUE]
    /\ reading' = [reading EXCEPT ![s] = TRUE]
    /\ managed' = managed \cup {s}

Spawn(r) ==
    /\ run[r].at = "spawn"
    /\ \/ \E s \in Shell \ Interactive :
             /\ Spawned(s, "starting")
             /\ run' = [run EXCEPT ![r].at = "inserted", ![r].shell = s]
       \/ Returns(r) /\ UNCHANGED <<state, alive, reading, managed>>
    /\ UNCHANGED <<index, working, flagVars, active, sender, owner, writer, call, events>>

\* set_state(Idle) ...
Offer(r) ==
    /\ run[r].at = "inserted"
    /\ state' = [state EXCEPT ![run[r].shell] = "idle"]
    /\ Moved(r, "mark")
    /\ UNCHANGED <<managerVars, childVars, flagVars, active, sender, owner, writer, call, events>>

\* ... and mark_busy_if_idle, whose answer is ignored: another run may have
\* taken the shell in between.
Mark(r) ==
    LET s == run[r].shell
    IN  /\ run[r].at = "mark"
        /\ state' = [state EXCEPT ![s] = IF Reusable(s) THEN "busy" ELSE @]
        /\ Moved(r, "lock")
        /\ UNCHANGED <<managerVars, childVars, flagVars, active, sender, owner,
                       writer, call, events>>

\* create_session: an interactive shell, never used by runs.
Open(s) ==
    /\ s \in Interactive
    /\ Event
    /\ Spawned(s, "idle")
    /\ claimed' = [claimed EXCEPT ![s] = TRUE]
    /\ UNCHANGED <<index, working, closed, userStop, active, sender, owner,
                   writer, run, call>>

-----------------------------------------------------------------------------
(* terminate, in two steps.  Nothing when the shell is closed already.        *)
(* Otherwise it is marked closed and its channel is dropped at once ...       *)

BeginTerminate(s) ==
    /\ closed' = [closed EXCEPT ![s] = TRUE]
    /\ sender' = [sender EXCEPT ![s] = IF closed[s] THEN @ ELSE NoRun]

\* ... and when the writer's lock is had the PTY is dropped and the child is
\* killed: the rest of terminate, up to its answer.
Kill(s) ==
    /\ writer[s] # "taken"
    /\ writer' = [writer EXCEPT ![s] = "gone"]
    /\ alive' = [alive EXCEPT ![s] = FALSE]
    /\ working' = [working EXCEPT ![s] = {}]

\* The kill fails, and with it terminate: nobody tries again.
KillFails(s) ==
    /\ writer[s] # "taken"
    /\ alive[s]
    /\ writer' = [writer EXCEPT ![s] = "gone"]
    /\ UNCHANGED <<alive, working>>

-----------------------------------------------------------------------------
(* execute *)

\* Variant: the command lock is not taken.
EnterUnlocked(r) ==
    LET s == run[r].shell
    IN  /\ run[r].at = "lock"
        /\ owner' = owner
        /\ IF closed[s] THEN Returns(r) ELSE Moved(r, "start")
        /\ UNCHANGED <<managerVars, childVars, flagVars, state, active, sender,
                       writer, call, events>>

\* The command lock, and the check that the shell is open.
Enter(r) ==
    LET s == run[r].shell
    IN  /\ run[r].at = "lock"
        /\ owner[s] = NoRun
        /\ IF closed[s] THEN Returns(r) /\ UNCHANGED owner
           ELSE Moved(r, "start") /\ owner' = [owner EXCEPT ![s] = r]
        /\ UNCHANGED <<managerVars, childVars, flagVars, state, active, sender,
                       writer, call, events>>

\* Variant: the session is not marked busy again.
StartUnmarked(r) ==
    LET s == run[r].shell
    IN  /\ run[r].at = "start"
        /\ userStop' = [userStop EXCEPT ![s] = FALSE]
        /\ sender' = [sender EXCEPT ![s] = r]
        /\ active' = [active EXCEPT ![s] = r]
        /\ Moved(r, "register")
        /\ UNCHANGED <<managerVars, childVars, closed, claimed, state, owner,
                       writer, call, events>>

Start(r) ==
    LET s == run[r].shell
    IN  /\ run[r].at = "start"
        /\ userStop' = [userStop EXCEPT ![s] = FALSE]
        /\ sender' = [sender EXCEPT ![s] = r]
        /\ active' = [active EXCEPT ![s] = r]
        /\ state' = [state EXCEPT ![s] = "busy"]
        /\ Moved(r, "register")
        /\ UNCHANGED <<managerVars, childVars, closed, claimed, owner, writer, call, events>>

\* register_process
Register(r) ==
    /\ run[r].at = "register"
    /\ index' = [index EXCEPT ![r] = run[r].shell]
    /\ Moved(r, "write")
    /\ UNCHANGED <<managed, childVars, flagVars, commandVars, writer, call, events>>

WriteScript(r) ==
    LET s == run[r].shell
    IN  /\ run[r].at = "write"
        /\ writer[s] = "here"
        /\ working' = [working EXCEPT ![s] = IF alive[s] THEN @ \cup {r} ELSE @]
        /\ Moved(r, "running")
        /\ UNCHANGED <<managerVars, alive, reading, flagVars, commandVars, writer, call, events>>

\* The write fails.
WriteFails(r) ==
    LET s == run[r].shell
    IN  /\ run[r].at = "write"
        /\ writer[s] = "here"
        /\ state' = [state EXCEPT ![s] = "failed"]
        /\ sender' = [sender EXCEPT ![s] = NoRun]
        /\ active' = [active EXCEPT ![s] = NoRun]
        /\ index' = [index EXCEPT ![r] = NoShell]
        /\ owner' = [owner EXCEPT ![s] = NoRun]
        /\ Returns(r)
        /\ UNCHANGED <<managed, childVars, flagVars, writer, call, events>>

\* The writer is gone: the run returns with everything it has set in place.
NoWriter(r) ==
    LET s == run[r].shell
    IN  /\ run[r].at = "write"
        /\ writer[s] = "gone"
        /\ owner' = [owner EXCEPT ![s] = NoRun]
        /\ Returns(r)
        /\ UNCHANGED <<managerVars, childVars, flagVars, state, active, sender,
                       writer, call, events>>

\* The loop ends: the state that finish_command is to leave is decided.
Conclude(r, leaves) ==
    /\ run' = [run EXCEPT ![r].at = "finish", ![r].leaves = leaves]
    /\ userStop' = [userStop EXCEPT ![run[r].shell] = FALSE]
    /\ UNCHANGED <<managerVars, childVars, closed, claimed, commandVars, writer, call, events>>

\* The done marker has come.
SeesMarker(r) ==
    LET s == run[r].shell
    IN  /\ run[r].at = "running"
        /\ run[r].done
        /\ Conclude(r, IF ~closed[s] THEN "idle"
                       ELSE IF userStop[s] THEN "stopped" ELSE "failed")

\* The channel is closed.
SeesEnd(r) ==
    LET s == run[r].shell
    IN  /\ run[r].at = "running"
        /\ ~run[r].done
        /\ sender[s] # r
        /\ Conclude(r, IF userStop[s] THEN "stopped" ELSE "failed")

\* The time-out, or a stalled command: interrupt() is spawned.
TimesOut(r) ==
    LET s == run[r].shell
    IN  /\ run[r].at = "running"
        /\ ~run[r].done /\ sender[s] = r
        /\ ~run[r].timedOut
        /\ run' = [run EXCEPT ![r].timedOut = TRUE, ![r].interrupt = "due"]
        /\ state' = [state EXCEPT ![s] = "interrupting"]
        /\ UNCHANGED <<managerVars, childVars, flagVars, active, sender, owner,
                       writer, call, events>>

\* Variant: an interrupted command is waited for.
ExpiresNever(r) == FALSE /\ UNCHANGED vars

\* The grace after the interrupt is over: the shell is terminated ...
Expires(r) ==
    LET s == run[r].shell
    IN  /\ run[r].at = "running"
        /\ run[r].timedOut
        /\ BeginTerminate(s)
        /\ state' = [state EXCEPT ![s] = "failed"]
        /\ run' = [run EXCEPT ![r].at = IF closed[s] THEN "finish" ELSE "expiring",
                              ![r].leaves = "failed"]
        /\ UNCHANGED <<managerVars, childVars, claimed, userStop, active, owner,
                       writer, call, events>>

\* ... and if that fails the run returns without finish_command.
Expired(r) ==
    LET s == run[r].shell
    IN  /\ run[r].at = "expiring"
        /\ \/ Kill(s) /\ Moved(r, "finish") /\ UNCHANGED owner
           \/ KillFails(s) /\ Returns(r) /\ owner' = [owner EXCEPT ![s] = NoRun]
        /\ UNCHANGED <<managerVars, reading, flagVars, state, active, sender, call, events>>

\* Variant: the channel is left to the shell.
FinishKeepsChannel(r) ==
    LET s == run[r].shell
    IN  /\ run[r].at = "finish"
        /\ index' = [index EXCEPT ![r] = NoShell]
        /\ active' = [active EXCEPT ![s] = NoRun]
        /\ state' = [state EXCEPT ![s] = run[r].leaves]
        /\ owner' = [owner EXCEPT ![s] = NoRun]
        /\ Returns(r)
        /\ UNCHANGED <<managed, childVars, flagVars, sender, writer, call, events>>

\* finish_command
Finish(r) ==
    LET s == run[r].shell
    IN  /\ run[r].at = "finish"
        /\ index' = [index EXCEPT ![r] = NoShell]
        /\ sender' = [sender EXCEPT ![s] = NoRun]
        /\ active' = [active EXCEPT ![s] = NoRun]
        /\ state' = [state EXCEPT ![s] = run[r].leaves]
        /\ owner' = [owner EXCEPT ![s] = NoRun]
        /\ Returns(r)
        /\ UNCHANGED <<managed, childVars, flagVars, writer, call, events>>

-----------------------------------------------------------------------------
(* The interrupt that a time-out has spawned: the writer is taken, Ctrl-C is *)
(* written by a thread of its own, and the writer is put back; after two     *)
(* seconds it is given up with the thread.                                   *)

InterruptTakes(r) ==
    LET s == run[r].shell
    IN  /\ run[r].interrupt = "due"
        /\ writer[s] # "taken"
        /\ IF writer[s] = "here"
           THEN /\ writer' = [writer EXCEPT ![s] = "taken"]
                /\ run' = [run EXCEPT ![r].interrupt = "writing"]
           ELSE /\ run' = [run EXCEPT ![r].interrupt = "none"]
                /\ UNCHANGED writer
        /\ UNCHANGED <<managerVars, childVars, flagVars, commandVars, call, events>>

InterruptEnds(r) ==
    /\ run[r].interrupt = "writing"
    /\ \E w \in {"here", "gone"} : writer' = [writer EXCEPT ![run[r].shell] = w]
    /\ run' = [run EXCEPT ![r].interrupt = "none"]
    /\ UNCHANGED <<managerVars, childVars, flagVars, commandVars, call, events>>

-----------------------------------------------------------------------------
(* The window *)

\* stop_process: the shell is found by the id of the run ...
StopProcess(w, r) ==
    /\ call[w].at = "idle"
    /\ Event
    /\ index[r] \in managed
    /\ call' = [call EXCEPT ![w] = [NoCall EXCEPT !.at = "found", !.run = r,
                                                  !.shell = index[r]]]
    /\ UNCHANGED <<managerVars, childVars, flagVars, commandVars, writer, run>>

\* ... and request_stop stops whatever is active in it by then.
RequestStop(w) ==
    LET s == call[w].shell
    IN  /\ call[w].at = "found"
        /\ IF active[s] = NoRun \/ closed[s]
           THEN call' = [call EXCEPT ![w] = NoCall] /\ UNCHANGED <<userStop, state>>
           ELSE /\ userStop' = [userStop EXCEPT ![s] = TRUE]
                /\ state' = [state EXCEPT ![s] = "interrupting"]
                /\ call' = [call EXCEPT ![w].at = "interrupt"]
        /\ UNCHANGED <<managerVars, childVars, closed, claimed, active, sender,
                       owner, writer, run, events>>

StopTakes(w) ==
    LET s == call[w].shell
    IN  /\ call[w].at = "interrupt"
        /\ writer[s] # "taken"
        /\ IF writer[s] = "here"
           THEN /\ writer' = [writer EXCEPT ![s] = "taken"]
                /\ call' = [call EXCEPT ![w].at = "writing"]
           ELSE call' = [call EXCEPT ![w].at = "refused"] /\ UNCHANGED writer
        /\ UNCHANGED <<managerVars, childVars, flagVars, commandVars, run, events>>

StopWritten(w) ==
    /\ call[w].at = "writing"
    /\ \/ /\ writer' = [writer EXCEPT ![call[w].shell] = "here"]
          /\ call' = [call EXCEPT ![w].at = "wait"]
       \/ /\ writer' = [writer EXCEPT ![call[w].shell] = "gone"]
          /\ call' = [call EXCEPT ![w].at = "refused"]
    /\ UNCHANGED <<managerVars, childVars, flagVars, commandVars, run, events>>

\* Variant: a command that survives its Ctrl-C is left alone.
EscalateOnRefusal(w) ==
    LET s == call[w].shell
    IN  /\ call[w].at = "refused"
        /\ BeginTerminate(s)
        /\ state' = [state EXCEPT ![s] = "stopping"]
        /\ call' = [call EXCEPT ![w] = IF closed[s] THEN NoCall
                                       ELSE [@ EXCEPT !.at = "escalating"]]
        /\ UNCHANGED <<managerVars, childVars, claimed, userStop, active, owner,
                       writer, run, events>>

\* 300 ms later, or at once when the interrupt failed.
Escalate(w) ==
    LET s == call[w].shell
    IN  /\ \/ call[w].at = "refused"
           \/ call[w].at = "wait" /\ active[s] # NoRun /\ ~closed[s]
        /\ BeginTerminate(s)
        /\ state' = [state EXCEPT ![s] = "stopping"]
        /\ call' = [call EXCEPT ![w] = IF closed[s] THEN NoCall
                                       ELSE [@ EXCEPT !.at = "escalating"]]
        /\ UNCHANGED <<managerVars, childVars, claimed, userStop, active, owner,
                       writer, run, events>>

Escalated(w) ==
    /\ call[w].at = "escalating"
    /\ Kill(call[w].shell) \/ KillFails(call[w].shell)
    /\ call' = [call EXCEPT ![w] = NoCall]
    /\ UNCHANGED <<managerVars, reading, flagVars, commandVars, run, events>>

NeedNotEscalate(w) ==
    LET s == call[w].shell
    IN  /\ call[w].at = "wait"
        /\ active[s] = NoRun \/ closed[s]
        /\ call' = [call EXCEPT ![w] = NoCall]
        /\ UNCHANGED <<managerVars, childVars, flagVars, commandVars, writer, run, events>>

\* stop_session and shutdown_session: the manager forgets the shells ...
Remove(w, shells) ==
    /\ call[w].at = "idle"
    /\ Event
    /\ shells # {}
    /\ Forget(shells)
    /\ call' = [call EXCEPT ![w] = [NoCall EXCEPT !.at = "halt", !.rest = shells]]
    /\ UNCHANGED <<childVars, flagVars, commandVars, writer, run>>

StopSession(w) == \E s \in managed : Remove(w, {s})
Shutdown(w) == Remove(w, managed)

\* ... and they are stopped one after the other.
Halt(w) ==
    /\ call[w].at = "halt"
    /\ \E s \in call[w].rest :
          /\ BeginTerminate(s)
          /\ userStop' = [userStop EXCEPT ![s] = TRUE]
          /\ state' = [state EXCEPT ![s] = "stopping"]
          /\ call' = [call EXCEPT ![w].at = IF closed[s] THEN "halted" ELSE "halting",
                                  ![w].shell = s,
                                  ![w].rest = @ \ {s}]
    /\ UNCHANGED <<managerVars, childVars, claimed, active, owner, writer, run, events>>

\* A shell that cannot be killed ends the call with its error; the shells it
\* had not come to are known to nobody else.
Halting(w) ==
    /\ call[w].at = "halting"
    /\ \/ Kill(call[w].shell) /\ call' = [call EXCEPT ![w].at = "halted"]
       \/ KillFails(call[w].shell) /\ call' = [call EXCEPT ![w].at = "failed"]
    /\ UNCHANGED <<managerVars, reading, flagVars, commandVars, run, events>>

Halted(w) ==
    LET s == call[w].shell
    IN  /\ call[w].at = "halted"
        /\ active' = [active EXCEPT ![s] = NoRun]
        /\ state' = [state EXCEPT ![s] = "stopped"]
        /\ call' = [call EXCEPT ![w] = IF @.rest = {} THEN NoCall
                                       ELSE [@ EXCEPT !.at = "halt"]]
        /\ UNCHANGED <<managerVars, childVars, flagVars, sender, owner, writer, run, events>>

\* claim_session, and the first input the user types into a shell.
Claim(s) ==
    /\ Event
    /\ s \in managed
    /\ ~claimed[s]
    /\ claimed' = [claimed EXCEPT ![s] = TRUE]
    /\ UNCHANGED <<managerVars, childVars, closed, userStop, commandVars, writer,
                   run, call>>

-----------------------------------------------------------------------------
(* The child process and the threads that watch it *)

\* A command ends; its marker goes to the run the channel belongs to.
CommandEnds(s, r) ==
    /\ r \in working[s]
    /\ working' = [working EXCEPT ![s] = @ \ {r}]
    /\ run' = [run EXCEPT ![r].done = @ \/ (reading[s] /\ sender[s] = r)]
    /\ UNCHANGED <<managerVars, alive, reading, flagVars, commandVars, writer, call, events>>

\* Ctrl-C, ours or the user's, ends a command before its marker is printed.
CommandBreaks(s, r) ==
    /\ r \in working[s]
    /\ working' = [working EXCEPT ![s] = @ \ {r}]
    /\ UNCHANGED <<managerVars, alive, reading, flagVars, commandVars, writer,
                   run, call, events>>

\* The shell exits.
Exits(s) ==
    /\ Event
    /\ alive[s]
    /\ alive' = [alive EXCEPT ![s] = FALSE]
    /\ working' = [working EXCEPT ![s] = {}]
    /\ UNCHANGED <<managerVars, reading, flagVars, commandVars, writer, run, call>>

\* The reader thread sees the end of the output and stops.
ReaderEnds(s) ==
    /\ reading[s] /\ ~alive[s]
    /\ reading' = [reading EXCEPT ![s] = FALSE]
    /\ closed' = [closed EXCEPT ![s] = TRUE]
    /\ sender' = [sender EXCEPT ![s] = NoRun]
    /\ active' = [active EXCEPT ![s] = NoRun]
    /\ UNCHANGED <<managerVars, alive, working, claimed, userStop, state, owner,
                   writer, run, call, events>>

\* The monitor polls the child.
MonitorSees(s) ==
    /\ state[s] # "none" /\ ~alive[s] /\ ~closed[s]
    /\ closed' = [closed EXCEPT ![s] = TRUE]
    /\ UNCHANGED <<managerVars, childVars, claimed, userStop, commandVars, writer,
                   run, call, events>>

-----------------------------------------------------------------------------
Executes(r) ==
    \/ Acquire(r) \/ Spawn(r) \/ Offer(r) \/ Mark(r)
    \/ Enter(r) \/ Start(r) \/ Register(r)
    \/ WriteScript(r) \/ WriteFails(r) \/ NoWriter(r)
    \/ SeesMarker(r) \/ SeesEnd(r) \/ Finish(r)
Interrupts(r) == InterruptTakes(r) \/ InterruptEnds(r)
Ends(r) == Expires(r) \/ Expired(r)
Proceeds(w) ==
    \/ RequestStop(w) \/ StopTakes(w) \/ StopWritten(w)
    \/ Escalate(w) \/ NeedNotEscalate(w) \/ Escalated(w)
    \/ Halt(w) \/ Halting(w) \/ Halted(w)

Next ==
    \/ \E r \in Run : Executes(r) \/ Interrupts(r) \/ TimesOut(r) \/ Ends(r)
    \/ \E w \in Window :
          \/ \E r \in Run : StopProcess(w, r)
          \/ StopSession(w) \/ Shutdown(w) \/ Proceeds(w)
    \/ \E s \in Shell :
          \/ Open(s) \/ Claim(s) \/ Exits(s) \/ ReaderEnds(s) \/ MonitorSees(s)
          \/ \E r \in Run : CommandEnds(s, r) \/ CommandBreaks(s, r)

Spec == Init /\ [][Next]_vars

\* Threads and futures that are runnable are run.  The time-out fires unless the
\* command keeps it from firing: the time-out of a long-running command (the
\* default of the agent's builds and tests) is put off by every piece of output,
\* and the loop reads what is there before it looks at the clock.  Commands, and
\* users, owe nothing.
Fairness ==
    /\ \A r \in Run : WF_vars(Executes(r)) /\ WF_vars(Interrupts(r)) /\ WF_vars(Ends(r))
    /\ \A r \in Run \ Chatty : WF_vars(TimesOut(r))
    /\ \A w \in Window : WF_vars(Proceeds(w))
FairSpec == Spec /\ Fairness

-----------------------------------------------------------------------------
(* Properties *)

\* An open shell works on one command at a time, the one it shows as active and
\* that a stop would hit: the pool may hand one shell to two runs (Mark), and
\* only the command lock keeps their scripts apart.  A shell that is being
\* killed, or could not be, may still work on a command whose run has returned.
ShellWorksOnActive ==
    \A s \in Shell : closed[s] \/ working[s] \subseteq {active[s]}

\* What the pool offers is free: nothing is active in an open shell that is
\* idle, however stops, time-outs and the next run interleave.
IdleShellIsFree ==
    \A s \in Shell : state[s] = "idle" /\ ~closed[s] =>
        active[s] = NoRun /\ working[s] = {}

\* No open shell is forgotten: whatever is alive and open is known to the manager
\* or named by the call that made the manager forget it, which is about to stop
\* it, or has failed on another shell of the pool.
LiveShellIsKnown ==
    \A s \in Shell : alive[s] /\ ~closed[s] =>
        s \in managed \/ \E w \in Window : s \in call[w].rest

\* A command returns, whether its marker comes or not, the interrupt works or
\* not, and the shell survives or not, unless it is a chatty one or waits for
\* the shell of a chatty one.
CommandReturns ==
    \A r \in Run \ Chatty :
        run[r].at # "new" ~> \/ run[r].at = "returned"
                             \/ run[r].at = "lock" /\ owner[run[r].shell] \in Chatty

\* A stop ends the command that it interrupts, chatty or not, even if the shell
\* cannot be killed; unless the shell has exited by itself and its output is
\* still held open.
StoppedCommandReturns ==
    \A s \in Shell, r \in Run :
        active[s] = r /\ (\E w \in Window : call[w].at = "interrupt" /\ call[w].shell = s)
            ~> run[r].at = "returned" \/ (~alive[s] /\ sender[s] = r)

\* Not so in the code (the instance of shell.cfg): a shutdown stops every shell of the
\* pool, or gives up none of them.
NoShellLeftBehind ==
    \A w \in Window : call[w].at = "failed" => \A s \in call[w].rest : ~alive[s]

\* Not so in the code (wrong_stop.cfg): a stop by run id stops that run.
StopHitsItsRun ==
    [][\A w \in Window :
         call[w].at = "found" /\ call'[w].at = "interrupt" =>
           active[call[w].shell] = call[w].run]_vars
=============================================================================
