---------------------------- MODULE AgentStream -----------------------------
(***************************************************************************)
(* Streaming answers of the agent in one session and one window of the     *)
(* desktop application, with interruption and resumption:                  *)
(*   crates/gestura-gui/src/api.rs            the commands, the forwarding *)
(*   crates/gestura-core/src/pipeline         the agent loop, tool calls   *)
(*   crates/gestura-core-streaming/src        tokens and their registry    *)
(*                                                                         *)
(* A stream is one call of process_agent_message_streaming or of           *)
(* resume_agent_streaming.  It is two concurrent activities: the command   *)
(* (`at`), which forwards chunks to the window, and the pipeline it spawns *)
(* (`pipe`), which runs the agent loop; `chunks` is the channel between    *)
(* them and `token` the cancellation token they share.  The window, the    *)
(* registry, the saved execution and the tasks belong to the session and   *)
(* are shared by all its streams.                                          *)
(*                                                                         *)
(* Chunks that only carry text or progress are left out, and with them the *)
(* capacity of the channel.  Every tool call is one that policy answers    *)
(* with RequiresConfirmation.                                              *)
(***************************************************************************)
EXTENDS ToolConfirmation, Naturals, Sequences, FiniteSets

CONSTANTS
    NoStream,      \* "no stream": also "no task" and "nothing saved"
    Planned,       \* requests that track a task of their own
    Decisions,     \* answers the user gives in the instance
    ChannelCapacity  \* of the channel to the window (100 in the code)

ASSUME StreamAssumption == NoStream \notin Stream
ASSUME InstanceAssumption ==
    /\ Planned \subseteq Stream
    /\ Decisions \subseteq Decision
ASSUME CapacityAssumption == ChannelCapacity \in Nat \ {0}

VARIABLES
    at,            \* where the command of each stream is
    kind,          \* "message" or "resume"
    pipe,          \* where its pipeline is
    token,         \* CancellationDisposition
    used,          \* whether the current response has called a tool
    decision,     \* the decision the pipeline is applying
    chunks,        \* StreamChunks on their way to the window
    told,          \* the terminal events the window got
    registered,   \* STREAM_CANCELLATIONS at the key of the window
    saved,        \* paused_execution of the session: whose execution it is
    tracked,       \* the task each stream tracks, named by its first stream
    task,          \* TaskStatus of that task
    current        \* current task of the session

streamVars == <<at, kind, pipe, token, used, decision, chunks, told,
                registered, saved, tracked, task, current>>
vars == <<streamVars, confirmationVars>>

\* A command whose channel closed without a terminal chunk is "silent".
At == {"idle", "prepare", "plan", "read", "cleared", "forward", "close",
       "silent", "cleanup", "done"}
Pipe == {"none", "boundary", "interrupted", "model", "failed", "failing",
         "policy", "recheck", "ask", "confirm", "apply", "override", "tool", "reflect",
         "finished", "panicked"}
Disposition == {"running", "paused", "cancelled"}
Chunk == {"confirm", "done", "cancelled", "paused", "error"}
Ending == {"done", "cancelled", "paused", "error"}
Status == {"none", "open", "completed", "cancelled"}
Streams == Stream \cup {NoStream}

TypeOK ==
    /\ ConfirmationTypeOK
    /\ at \in [Stream -> At]
    /\ kind \in [Stream -> {"message", "resume"}]
    /\ pipe \in [Stream -> Pipe]
    /\ token \in [Stream -> Disposition]
    /\ used \in [Stream -> BOOLEAN]
    /\ decision \in [Stream -> Decision]
    /\ chunks \in [Stream -> Seq(Chunk)]
    /\ \A s \in Stream : Len(chunks[s]) <= ChannelCapacity
    /\ told \in [Stream -> Seq(Ending)]
    /\ registered \in Streams
    /\ saved \in Streams
    /\ tracked \in [Stream -> Streams]
    /\ task \in [Stream -> Status]
    /\ current \in Streams

Init ==
    /\ ConfirmationInit
    /\ at = [s \in Stream |-> "idle"]
    /\ kind = [s \in Stream |-> "message"]
    /\ pipe = [s \in Stream |-> "none"]
    /\ token = [s \in Stream |-> "running"]
    /\ used = [s \in Stream |-> FALSE]
    /\ decision = [s \in Stream |-> "deny_once"]
    /\ chunks = [s \in Stream |-> <<>>]
    /\ told = [s \in Stream |-> <<>>]
    /\ registered = NoStream
    /\ saved = NoStream
    /\ tracked = [s \in Stream |-> NoStream]
    /\ task = [s \in Stream |-> "none"]
    /\ current = NoStream

-----------------------------------------------------------------------------
(* Tokens, the registry, tasks *)

Interrupted(s) == token[s] # "running"

\* StreamCancellationRegistry::register: the token registered before is
\* cancelled.  The new stream's own token is running.
Registered(s) ==
    /\ registered' = s
    /\ token' = [x \in Stream |-> CASE x = s -> "running"
                                    [] x = registered /\ x # s -> "cancelled"
                                    [] OTHER -> token[x]]

\* CancellationToken::pause gives way to a cancellation.
PausedToken(x) == IF token[x] = "running" THEN "paused" ELSE token[x]

\* CancellationToken::interruption_chunk
InterruptionChunk(s) == IF token[s] = "paused" THEN "paused" ELSE "cancelled"

\* Variant: sending waits for nothing.
SendNow(s, c) ==
    chunks' = [chunks EXCEPT ![s] = IF at[s] = "forward" THEN Append(@, c) ELSE @]

\* tx.send(..).await: waits for a place, fails at once when the command has
\* closed the channel.
Send(s, c) ==
    \/ /\ at[s] = "forward"
       /\ Len(chunks[s]) < ChannelCapacity
       /\ chunks' = [chunks EXCEPT ![s] = Append(@, c)]
    \/ at[s] # "forward" /\ UNCHANGED chunks

\* mark_task_cancelled of the window; current_task_id is cleared with it.
CancelTask(s) ==
    /\ task' = [x \in Stream |-> IF x = tracked[s] THEN "cancelled" ELSE task[x]]
    /\ current' = IF current = tracked[s] THEN NoStream ELSE current

\* cancel_tracked_task of the pipeline: the status alone.
CancelTrackedTask(s) ==
    /\ task' = [x \in Stream |-> IF x = tracked[s] THEN "cancelled" ELSE task[x]]
    /\ UNCHANGED current

Open == {x \in Stream : task[x] = "open"}

\* resolve_open_tracking_task_from_session
OpenTask == IF current \in Open THEN current
            ELSE IF Cardinality(Open) = 1 THEN CHOOSE x \in Open : TRUE
            ELSE NoStream

MarkInProgress(s, x) ==
    /\ tracked' = [tracked EXCEPT ![s] = x]
    /\ task' = [y \in Stream |-> IF y = x THEN "open" ELSE task[y]]
    /\ current' = IF x = NoStream THEN current ELSE x

-----------------------------------------------------------------------------
(* process_agent_message_streaming, up to the spawn *)

\* The token is registered first of all ...
Message(s) ==
    /\ at[s] = "idle"
    /\ at' = [at EXCEPT ![s] = "prepare"]
    /\ Registered(s)
    /\ UNCHANGED <<kind, pipe, used, decision, chunks, told, saved,
                    tracked, task, current, confirmationVars>>

\* ... the paused execution is cleared when the history has been read ...
Supersede(s) ==
    /\ at[s] = "prepare"
    /\ at' = [at EXCEPT ![s] = "plan"]
    /\ saved' = NoStream
    /\ UNCHANGED <<kind, pipe, token, used, decision, chunks, told,
                   registered, tracked, task, current,
                   confirmationVars>>

\* ... and the pipeline is spawned when the task has been planned.  A request
\* tracks a task of its own, continues the open one, or tracks none.
Spawn(s) ==
    /\ at[s] = "plan"
    /\ at' = [at EXCEPT ![s] = "forward"]
    /\ pipe' = [pipe EXCEPT ![s] = "boundary"]
    /\ \E x \in IF s \in Planned THEN {s} ELSE {OpenTask, NoStream} :
            MarkInProgress(s, x)
    /\ UNCHANGED <<kind, token, used, decision, chunks, told,
                   registered, saved, confirmationVars>>

\* The task cannot be started: the `?` drops the guard, which removes the key.
SpawnFails(s) ==
    /\ at[s] = "plan"
    /\ at' = [at EXCEPT ![s] = "done"]
    /\ registered' = NoStream
    /\ UNCHANGED <<kind, pipe, token, used, decision, chunks, told,
                   saved, tracked, task, current, confirmationVars>>

-----------------------------------------------------------------------------
(* resume_agent_streaming, up to the spawn *)

ResumeRead(s) ==
    /\ at[s] = "idle"
    /\ saved # NoStream
    /\ at' = [at EXCEPT ![s] = "read"]
    /\ kind' = [kind EXCEPT ![s] = "resume"]
    /\ UNCHANGED <<pipe, token, used, decision, chunks, told,
                   registered, saved, tracked, task, current,
                   confirmationVars>>

ResumeClear(s) ==
    /\ at[s] = "read"
    /\ at' = [at EXCEPT ![s] = "cleared"]
    /\ saved' = NoStream
    /\ UNCHANGED <<kind, pipe, token, used, decision, chunks, told,
                   registered, tracked, task, current,
                   confirmationVars>>

\* After the configuration has been loaded.
ResumeSpawn(s) ==
    /\ at[s] = "cleared"
    /\ at' = [at EXCEPT ![s] = "forward"]
    /\ Registered(s)
    /\ MarkInProgress(s, OpenTask)
    /\ pipe' = [pipe EXCEPT ![s] = "boundary"]
    /\ UNCHANGED <<kind, used, decision, chunks, told, saved, 
                   confirmationVars>>

-----------------------------------------------------------------------------
(* The pipeline: process_streaming and execute_agentic_loop_streaming *)

Goto(s, p) == pipe' = [pipe EXCEPT ![s] = p]

\* What a pipeline step leaves alone.
PipelineFrame ==
    UNCHANGED <<at, kind, token, told, registered, saved, tracked>>

\* Variant: the top of an iteration does not look at the token.
BoundaryUnchecked(s) ==
    /\ pipe[s] = "boundary"
    /\ Goto(s, "model") \/ Goto(s, "reflect")
    /\ PipelineFrame
    /\ UNCHANGED <<used, decision, chunks, task, current, confirmationVars>>

\* The top of an iteration.  max_iterations is optional: the loop may also
\* stop here because a limit is reached.
Boundary(s) ==
    /\ pipe[s] = "boundary"
    /\ IF Interrupted(s)
       THEN Goto(s, "interrupted") /\ CancelTrackedTask(s)
       ELSE /\ \/ Goto(s, "model")
               \/ Goto(s, "reflect")
            /\ UNCHANGED <<task, current>>
    /\ PipelineFrame
    /\ UNCHANGED <<used, decision, chunks, confirmationVars>>

\* The interruption is sent after the task has been cancelled.
SendInterruption(s) ==
    /\ pipe[s] = "interrupted"
    /\ Goto(s, "finished")
    /\ Send(s, InterruptionChunk(s))
    /\ PipelineFrame
    /\ UNCHANGED <<used, decision, task, current, confirmationVars>>

\* The response ends; without tool calls the loop may go on all the same
\* (open subtasks, a missing verification).
ResponseEnds(s) ==
    /\ pipe[s] = "model"
    /\ \/ Goto(s, "boundary")
       \/ ~used[s] /\ Goto(s, "reflect")
    /\ used' = [used EXCEPT ![s] = FALSE]
    /\ PipelineFrame
    /\ UNCHANGED <<decision, chunks, task, current, confirmationVars>>

\* The response calls a tool: at most one per response (bound).
ToolCall(s) ==
    /\ pipe[s] = "model"
    /\ ~used[s]
    /\ used' = [used EXCEPT ![s] = TRUE]
    /\ Goto(s, "policy")
    /\ PipelineFrame
    /\ UNCHANGED <<decision, chunks, task, current, confirmationVars>>

\* The provider notices the token between two chunks.  A cancellation
\* cancels the task, a pause does not.
ProviderInterrupted(s) ==
    /\ pipe[s] = "model"
    /\ Interrupted(s)
    /\ Goto(s, "finished")
    /\ Send(s, InterruptionChunk(s))
    /\ IF token[s] = "cancelled" THEN CancelTrackedTask(s)
                                 ELSE UNCHANGED <<task, current>>
    /\ used' = [used EXCEPT ![s] = FALSE]
    /\ PipelineFrame
    /\ UNCHANGED <<decision, confirmationVars>>

\* The provider fails: the loop reports it and returns the error, upon which
\* the spawned task reports it again and closes with a Done.
ProviderFails(s) ==
    /\ pipe[s] = "model"
    /\ Goto(s, "failed")
    /\ CancelTrackedTask(s)
    /\ Send(s, "error")
    /\ used' = [used EXCEPT ![s] = FALSE]
    /\ PipelineFrame
    /\ UNCHANGED <<decision, confirmationVars>>

SendFailure(s) ==
    /\ \/ pipe[s] = "failed" /\ Send(s, "error") /\ Goto(s, "failing")
       \/ pipe[s] = "failing" /\ Send(s, "done") /\ Goto(s, "finished")
    /\ PipelineFrame
    /\ UNCHANGED <<used, decision, task, current, confirmationVars>>

\* The reflection and the end of process_streaming: the token is looked at
\* before each, and when it is raised nothing is sent.
Reflect(s) ==
    /\ pipe[s] = "reflect"
    /\ Goto(s, "finished")
    /\ IF Interrupted(s) THEN UNCHANGED chunks ELSE Send(s, "done")
    /\ PipelineFrame
    /\ UNCHANGED <<used, decision, task, current, confirmationVars>>

-----------------------------------------------------------------------------
(* A tool call: finalize_pending_tool_call *)

\* What the steps of a tool call leave alone.
ToolFrame ==
    PipelineFrame /\ UNCHANGED <<used, task, current>>

\* A tool blocked for the session is skipped, unless it is allowed as well.
Policy(s) ==
    /\ pipe[s] = "policy"
    /\ Goto(s, IF blocked /\ ~allowed THEN "model" ELSE "recheck")
    /\ ToolFrame
    /\ UNCHANGED <<decision, chunks, confirmationVars>>

\* needs_confirmation reads the session again.
Recheck(s) ==
    /\ pipe[s] = "recheck"
    /\ IF allowed \/ persisted
       THEN Goto(s, "tool") /\ UNCHANGED confirmationVars
       ELSE Goto(s, "ask") /\ Register(s)
    /\ ToolFrame
    /\ UNCHANGED <<decision, chunks>>

\* The confirmation is registered before the window is asked to show it.
Ask(s) ==
    /\ pipe[s] = "ask"
    /\ Send(s, "confirm")
    /\ Goto(s, "confirm")
    /\ ToolFrame
    /\ UNCHANGED <<decision, confirmationVars>>

\* The select! over the answer, ...
Answered(s) ==
    /\ pipe[s] = "confirm"
    /\ answer[s] # "none"
    /\ Receive(s)
    /\ decision' = [decision EXCEPT ![s] = Received(s)]
    /\ Goto(s, "apply")
    /\ ToolFrame
    /\ UNCHANGED chunks

\* ... the time-out, ...
TimedOut(s) ==
    /\ pipe[s] = "confirm"
    /\ Abandon(s)
    /\ decision' = [decision EXCEPT ![s] = "deny_once"]
    /\ Goto(s, "apply")
    /\ ToolFrame
    /\ UNCHANGED chunks

\* Variant: the branch of the token leaves the confirmation behind.
InterruptSeenOnly(s) ==
    /\ pipe[s] = "confirm"
    /\ Interrupted(s)
    /\ decision' = [decision EXCEPT ![s] = "deny_once"]
    /\ Goto(s, "apply")
    /\ ToolFrame
    /\ UNCHANGED <<chunks, confirmationVars>>

\* ... and the token, which is polled.  An answer that has arrived as well
\* may lose to either of the two and is dropped then.
InterruptSeen(s) ==
    /\ pipe[s] = "confirm"
    /\ Interrupted(s)
    /\ Abandon(s)
    /\ decision' = [decision EXCEPT ![s] = "deny_once"]
    /\ Goto(s, "apply")
    /\ ToolFrame
    /\ UNCHANGED chunks

Apply(s) ==
    /\ pipe[s] = "apply"
    /\ ApplyFirst(decision[s])
    /\ Goto(s, "override")
    /\ ToolFrame
    /\ UNCHANGED <<decision, chunks>>

\* The token is not looked at again before the tool runs.
Override(s) ==
    /\ pipe[s] = "override"
    /\ ApplySecond(decision[s])
    /\ Goto(s, IF decision[s] \in Allowing THEN "tool" ELSE "model")
    /\ decision' = [decision EXCEPT ![s] = "deny_once"]
    /\ ToolFrame
    /\ UNCHANGED chunks

\* Checkpoint, hooks, execution, result; then the rest of the response.
ToolEnds(s) ==
    /\ pipe[s] = "tool"
    /\ Goto(s, "model")
    /\ ToolFrame
    /\ UNCHANGED <<decision, chunks, confirmationVars>>

\* The spawned task panics in the code of a provider or of a tool: its end of
\* the channel is dropped, nothing more is sent.
Panics(s) ==
    /\ pipe[s] \in {"model", "tool"}
    /\ Goto(s, "panicked")
    /\ ToolFrame
    /\ UNCHANGED <<decision, chunks, confirmationVars>>

-----------------------------------------------------------------------------
(* The forwarding loop and what follows it *)

\* What a step of the command leaves alone.
CommandFrame ==
    UNCHANGED <<kind, used, decision, tracked, confirmationVars>>

Forwarding(s, c) ==
    /\ at[s] = "forward"
    /\ chunks[s] # <<>>
    /\ Head(chunks[s]) = c
    /\ chunks' = [chunks EXCEPT ![s] = Tail(@)]

Told(s, event) == told' = [told EXCEPT ![s] = Append(@, event)]

\* A terminal event ends the loop.
Tell(s, event) ==
    /\ Told(s, event)
    /\ at' = [at EXCEPT ![s] = "close"]

ForwardConfirm(s) ==
    /\ Forwarding(s, "confirm")
    /\ CommandFrame
    /\ UNCHANGED <<at, pipe, token, told, registered, saved, task, current>>

\* finalize_tracked_task_after_agent_run: completed, unless subtasks are open.
ForwardDone(s) ==
    /\ Forwarding(s, "done")
    /\ Tell(s, "done")
    /\ \/ UNCHANGED <<task, current>>
       \/ /\ task' = [x \in Stream |->
                        IF x = tracked[s] THEN "completed" ELSE task[x]]
          /\ current' = IF current = tracked[s] THEN NoStream ELSE current
    /\ CommandFrame
    /\ UNCHANGED <<pipe, token, registered, saved>>

\* A message that is interrupted either way can be resumed; a resumed
\* execution only if it was paused.
ForwardCancelled(s) ==
    /\ Forwarding(s, "cancelled")
    /\ Tell(s, "cancelled")
    /\ saved' = IF kind[s] = "message" THEN s ELSE saved
    /\ CancelTask(s)
    /\ CommandFrame
    /\ UNCHANGED <<pipe, token, registered>>

ForwardPaused(s) ==
    /\ Forwarding(s, "paused")
    /\ Tell(s, "paused")
    /\ saved' = s
    /\ CommandFrame
    /\ UNCHANGED <<pipe, token, registered, task, current>>

ForwardError(s) ==
    /\ Forwarding(s, "error")
    /\ Tell(s, "error")
    /\ CancelTask(s)
    /\ CommandFrame
    /\ UNCHANGED <<pipe, token, registered, saved>>

\* No chunk for a while.  A pipeline that asks the user gives up (300 s)
\* before the window does (600 s).
IdleToken(s) == token' = [token EXCEPT ![s] = PausedToken(s)]

Idle(s) ==
    /\ at[s] = "forward"
    /\ chunks[s] = <<>>
    /\ pipe[s] \notin {"ask", "confirm", "finished", "panicked"}
    /\ IdleToken(s)
    /\ saved' = s
    /\ Tell(s, "paused")
    /\ CommandFrame
    /\ UNCHANGED <<pipe, chunks, registered, task, current>>

\* The channel is closed and nobody said why.  Only a resumed stream cancels
\* its task.
EndsUnexpectedly(s) ==
    /\ at[s] = "forward"
    /\ chunks[s] = <<>>
    /\ pipe[s] \in {"finished", "panicked"}
    /\ Told(s, "error")
    /\ at' = [at EXCEPT ![s] = "silent"]
    /\ IF kind[s] = "resume" THEN CancelTask(s) ELSE UNCHANGED <<task, current>>
    /\ CommandFrame
    /\ UNCHANGED <<pipe, token, chunks, registered, saved>>

\* Variant: the join error is reported, whatever the window has been told.
CloseReports(s) ==
    /\ at[s] \in {"close", "silent"}
    /\ pipe[s] \notin {"ask", "confirm", "apply", "override"}
    /\ IF pipe[s] = "panicked" THEN Told(s, "error") ELSE UNCHANGED told
    /\ at' = [at EXCEPT ![s] = "cleanup"]
    /\ Goto(s, "finished")
    /\ chunks' = [chunks EXCEPT ![s] = <<>>]
    /\ CommandFrame
    /\ UNCHANGED <<token, registered, saved, task, current>>

\* Two seconds for the pipeline to finish, then it is aborted at its next
\* await.  A pipeline that asks the user has seen the token by then, and
\* applying an answer awaits nothing.  What is left in the channel is
\* dropped.  The join error of a pipeline that panicked is reported unless a
\* terminal chunk (or the idle timer) ended the loop.
Close(s) ==
    /\ at[s] \in {"close", "silent"}
    /\ pipe[s] \notin {"ask", "confirm", "apply", "override"}
    /\ IF at[s] = "silent" /\ pipe[s] = "panicked"
       THEN Told(s, "error") ELSE UNCHANGED told
    /\ at' = [at EXCEPT ![s] = "cleanup"]
    /\ Goto(s, "finished")
    /\ chunks' = [chunks EXCEPT ![s] = <<>>]
    /\ CommandFrame
    /\ UNCHANGED <<token, registered, saved, task, current>>

\* The key is removed, whoever's token it leads to by now.
Cleanup(s) ==
    /\ at[s] = "cleanup"
    /\ at' = [at EXCEPT ![s] = "done"]
    /\ registered' = NoStream
    /\ CommandFrame
    /\ UNCHANGED <<pipe, token, told, chunks, saved, task, current>>

-----------------------------------------------------------------------------
(* The other commands of the window *)

UserFrame ==
    UNCHANGED <<at, kind, pipe, used, decision, chunks, told, saved,
                 tracked, task, current>>

\* interrupt_agent_streaming_internal: the registry forgets the token.
CancelStream ==
    /\ registered # NoStream
    /\ token' = [token EXCEPT ![registered] = "cancelled"]
    /\ registered' = NoStream
    /\ UserFrame
    /\ UNCHANGED confirmationVars

PauseStream ==
    /\ registered # NoStream
    /\ token' = [token EXCEPT ![registered] = PausedToken(registered)]
    /\ registered' = NoStream
    /\ UserFrame
    /\ UNCHANGED confirmationVars

\* approve_tool_confirmation, deny_tool_confirmation and
\* resolve_tool_confirmation_decision, on a confirmation that is shown.
Decide(s) ==
    /\ pipe[s] # "ask"
    /\ \A i \in DOMAIN chunks[s] : chunks[s][i] # "confirm"
    /\ \/ \E d \in Decisions : Resolve(s, d)
       \/ ResolveElsewhere(s)
    /\ UserFrame
    /\ UNCHANGED <<token, registered>>

-----------------------------------------------------------------------------
Pipeline(s) ==
    \/ Boundary(s) \/ SendInterruption(s)
    \/ ResponseEnds(s) \/ ToolCall(s) \/ ProviderInterrupted(s)
    \/ ProviderFails(s) \/ SendFailure(s) \/ Reflect(s)
    \/ Policy(s) \/ Recheck(s) \/ Ask(s) \/ Answered(s) \/ TimedOut(s)
    \/ InterruptSeen(s) \/ Apply(s) \/ Override(s) \/ ToolEnds(s)

Command(s) ==
    \/ Supersede(s) \/ Spawn(s) \/ SpawnFails(s)
    \/ ResumeClear(s) \/ ResumeSpawn(s)
    \/ ForwardConfirm(s) \/ ForwardDone(s) \/ ForwardCancelled(s)
    \/ ForwardPaused(s) \/ ForwardError(s) \/ EndsUnexpectedly(s)
    \/ Close(s) \/ Cleanup(s)

Next ==
    \/ \E s \in Stream : \/ Message(s) \/ ResumeRead(s) \/ Decide(s)
                         \/ Pipeline(s) \/ Panics(s) \/ Command(s) \/ Idle(s)
    \/ CancelStream
    \/ PauseStream

Spec == Init /\ [][Next]_vars

\* Futures that have been spawned are polled until they end; a provider, a
\* tool and the user's confirmation end by their time-outs.  The user owes
\* nothing, and a window need not be idle.
Fairness == \A s \in Stream : WF_vars(Pipeline(s)) /\ WF_vars(Command(s))
FairSpec == Spec /\ Fairness

-----------------------------------------------------------------------------
(* Properties *)

\* Every confirmation in the map has a pipeline that waits for the answer:
\* however the wait ends, nothing is left for the user to answer in vain
\* ("avoid leaking entries", tool_confirmation.rs).
PendingHasWaiter ==
    \A s \in pending : pipe[s] \in {"ask", "confirm"}

\* Whatever two pipelines of the session decide at the same time, once no
\* decision is being applied the tool is not both allowed and blocked for
\* the session ("should override", apply_session_policy_decision).
PolicyIsConsistent ==
    (\A s \in Stream : pipe[s] # "override") => ~(allowed /\ blocked)

\* What the session offers to resume has been told to stop: resuming never
\* runs an execution next to one that carries on unknowingly.
ResumableIsInterrupted ==
    saved # NoStream => Interrupted(saved)

\* The ending a window is told stands, although a failing pipeline sends three
\* chunks that end it, an interrupted one may send none, and it may panic while
\* the command gives up.  Only the failure of a stream that ended for no known
\* reason may be told a second time, when its pipeline turns out to have
\* panicked ("don't silently swallow them", api.rs).
EndingStands ==
    \A s \in Stream :
        Len(told[s]) > 1 => \A i \in DOMAIN told[s] : told[s][i] = "error"

\* A stream that is interrupted ends, wherever its loop is (no limit on its
\* iterations is needed), with a terminal event.
InterruptedStreamEnds ==
    \A s \in Stream :
        at[s] = "forward" /\ Interrupted(s) ~> at[s] = "done" /\ told[s] # <<>>

\* Not so in the code (the instance of streams.cfg): the window is told one ending.
OneTerminalEvent == \A s \in Stream : Len(told[s]) <= 1

\* Not so in the code (the instance of streams.cfg): a stream that runs can be
\* cancelled and paused.
RunningIsInterruptible ==
    \A s \in Stream :
        at[s] = "forward" /\ ~Interrupted(s) => registered = s

\* Not so in the code (the instance of streams.cfg): while an execution is there to be
\* resumed, because the user paused it, its task has not been cancelled.
PausedTaskStaysOpen ==
    \A s \in Stream :
        saved = s /\ token[s] = "paused" /\ tracked[s] # NoStream
            => task[tracked[s]] # "cancelled"
=============================================================================
