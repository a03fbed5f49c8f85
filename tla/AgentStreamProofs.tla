-------------------------- MODULE AgentStreamProofs -------------------------
(***************************************************************************)
(* Theorems about AgentStream, for every set of streams, every choice of   *)
(* answers and every capacity of the channel.                              *)
(***************************************************************************)
EXTENDS AgentStream, FiniteSetTheorems, TLAPS

-----------------------------------------------------------------------------
(* Types *)

\* Everything but the channels.
Fields ==
    /\ ConfirmationTypeOK
    /\ at \in [Stream -> At]
    /\ kind \in [Stream -> {"message", "resume"}]
    /\ pipe \in [Stream -> Pipe]
    /\ token \in [Stream -> Disposition]
    /\ used \in [Stream -> BOOLEAN]
    /\ decision \in [Stream -> Decision]
    /\ told \in [Stream -> Seq(Ending)]
    /\ registered \in Streams
    /\ saved \in Streams
    /\ tracked \in [Stream -> Streams]
    /\ task \in [Stream -> Status]
    /\ current \in Streams

Channels ==
    /\ chunks \in [Stream -> Seq(Chunk)]
    /\ \A s \in Stream : Len(chunks[s]) <= ChannelCapacity

LEMMA OpenTaskType == OpenTask \in Streams
<1>1. current \in Open => current \in Stream
  BY DEF Open
<1>2. Cardinality(Open) = 1 /\ ~(\E x \in Open : TRUE) => FALSE
  <2>1. SUFFICES ASSUME Cardinality(Open) = 1, Open = {} PROVE FALSE
    OBVIOUS
  <2> QED BY <2>1, FS_EmptySet
<1>3. Cardinality(Open) = 1 => (CHOOSE x \in Open : TRUE) \in Open
  BY <1>2
<1> QED BY <1>1, <1>3 DEF OpenTask, Open, Streams

LEMMA StartFields ==
    ASSUME Fields, NEW s \in Stream,
           \/ Message(s) \/ Supersede(s) \/ Spawn(s) \/ SpawnFails(s)
           \/ ResumeRead(s) \/ ResumeClear(s) \/ ResumeSpawn(s)
    PROVE  Fields'
<1> USE DEF Fields, ConfirmationTypeOK, confirmationVars, Streams
<1>1. CASE Message(s)
  BY <1>1 DEF Message, Registered, At, Disposition
<1>2. CASE Supersede(s) \/ SpawnFails(s) \/ ResumeRead(s) \/ ResumeClear(s)
  BY <1>2 DEF Supersede, SpawnFails, ResumeRead, ResumeClear, At
<1>3. CASE Spawn(s)
  <2>1. PICK x \in Streams : MarkInProgress(s, x)
    BY <1>3, OpenTaskType DEF Spawn
  <2> QED BY <1>3, <2>1 DEF Spawn, MarkInProgress, At, Pipe, Status
<1>4. CASE ResumeSpawn(s)
  <2>1. PICK x \in Streams : MarkInProgress(s, x)
    BY <1>4, OpenTaskType DEF ResumeSpawn
  <2> QED BY <1>4, <2>1 DEF ResumeSpawn, MarkInProgress, Registered, At, Pipe, Status,
             Disposition
<1> QED BY <1>1, <1>2, <1>3, <1>4

LEMMA PipelineFields ==
    ASSUME Fields, NEW s \in Stream, Pipeline(s) PROVE Fields'
<1> USE DEF Fields, ConfirmationTypeOK, confirmationVars, Streams, PipelineFrame,
        ToolFrame, Goto
<1>1. CASE Boundary(s) \/ SendInterruption(s) \/ ResponseEnds(s) \/ ToolCall(s)
  <2>1. CASE Boundary(s)
    BY <2>1 DEF Boundary, CancelTrackedTask, Pipe, Status
  <2>2. CASE SendInterruption(s) \/ ToolCall(s)
    BY <2>2 DEF SendInterruption, ToolCall, Pipe
  <2>3. CASE ResponseEnds(s)
    <3>1. pipe' \in [Stream -> Pipe]
      BY <2>3 DEF ResponseEnds, Pipe
    <3> QED BY <2>3, <3>1 DEF ResponseEnds
  <2> QED BY <1>1, <2>1, <2>2, <2>3
<1>2. CASE ProviderInterrupted(s)
  BY <1>2 DEF ProviderInterrupted, CancelTrackedTask, Pipe, Status
<1>3. CASE ProviderFails(s) \/ SendFailure(s) \/ Reflect(s)
  <2>1. CASE ProviderFails(s)
    BY <2>1 DEF ProviderFails, CancelTrackedTask, Pipe, Status
  <2>2. CASE SendFailure(s)
    <3>1. pipe' \in [Stream -> Pipe]
      BY <2>2 DEF SendFailure, Pipe
    <3> QED BY <2>2, <3>1 DEF SendFailure
  <2>3. CASE Reflect(s)
    BY <2>3 DEF Reflect, Pipe
  <2> QED BY <1>3, <2>1, <2>2, <2>3
<1>4. CASE Policy(s) \/ Recheck(s) \/ Ask(s)
  <2>1. CASE Policy(s)
    BY <2>1 DEF Policy, Pipe
  <2>2. CASE Recheck(s)
    <3>1. CASE allowed \/ persisted
      BY <2>2, <3>1 DEF Recheck, Pipe
    <3>2. CASE ~(allowed \/ persisted)
      <4>1. pipe' \in [Stream -> Pipe]
        BY <2>2, <3>2 DEF Recheck, Pipe
      <4>2. pending' \in SUBSET Stream /\ answer' \in [Stream -> Answer]
        <5>1. Register(s)
          BY <2>2, <3>2 DEF Recheck
        <5> QED BY <5>1 DEF Register, Answer
      <4> QED BY <2>2, <3>2, <4>1, <4>2 DEF Recheck, Register
    <3> QED BY <3>1, <3>2
  <2>3. CASE Ask(s)
    BY <2>3 DEF Ask, Pipe
  <2> QED BY <1>4, <2>1, <2>2, <2>3
<1>5. CASE Answered(s)
  BY <1>5 DEF Answered, Receive, Received, Pipe, Answer, Decision
<1>6. CASE TimedOut(s) \/ InterruptSeen(s)
  BY <1>6 DEF TimedOut, InterruptSeen, Abandon, Pipe, Answer, Decision
<1>7. CASE Apply(s)
  BY <1>7 DEF Apply, ApplyFirst, Pipe
<1>8. CASE Override(s)
  BY <1>8 DEF Override, ApplySecond, Pipe, Decision
<1>9. CASE ToolEnds(s)
  BY <1>9 DEF ToolEnds, Pipe
<1> QED BY <1>1, <1>2, <1>3, <1>4, <1>5, <1>6, <1>7, <1>8, <1>9 DEF Pipeline

LEMMA ToldFields ==
    ASSUME Fields, NEW s \in Stream, NEW e \in Ending, Told(s, e)
    PROVE  /\ told' \in [Stream -> Seq(Ending)]
           /\ told'[s] = Append(told[s], e)
           /\ \A x \in Stream \ {s} : told'[x] = told[x]
<1>1. told[s] \in Seq(Ending)
  BY DEF Fields
<1>2. Append(told[s], e) \in Seq(Ending)
  BY <1>1
<1> QED BY <1>2 DEF Fields, Told

LEMMA ForwardFields ==
    ASSUME Fields, NEW s \in Stream,
           \/ ForwardConfirm(s) \/ ForwardDone(s) \/ ForwardCancelled(s)
           \/ ForwardPaused(s) \/ ForwardError(s) \/ EndsUnexpectedly(s)
           \/ Close(s) \/ Cleanup(s) \/ Idle(s)
    PROVE  Fields'
<1>t. told' \in [Stream -> Seq(Ending)]
  <2>1. {"done", "cancelled", "paused", "error"} \subseteq Ending
    BY DEF Ending
  <2>2. ~UNCHANGED told => \E e \in Ending : Told(s, e)
    BY <2>1 DEF ForwardConfirm, ForwardDone, ForwardCancelled, ForwardPaused, ForwardError,
                EndsUnexpectedly, Close, Cleanup, Idle, Tell
  <2> QED BY <2>2, ToldFields DEF Fields
<1> USE <1>t DEF Fields, ConfirmationTypeOK, confirmationVars, Streams, CommandFrame
<1>1. CASE ForwardConfirm(s) \/ ForwardDone(s)
  BY <1>1 DEF ForwardConfirm, ForwardDone, Tell, At, Status
<1>2. CASE ForwardCancelled(s)
  BY <1>2 DEF ForwardCancelled, Tell, CancelTask, At, Status
<1>3. CASE ForwardPaused(s) \/ ForwardError(s)
  BY <1>3 DEF ForwardPaused, ForwardError, Tell, CancelTask, At, Status
<1>4. CASE EndsUnexpectedly(s)
  BY <1>4 DEF EndsUnexpectedly, CancelTask, At, Status
<1>5. CASE Close(s) \/ Cleanup(s)
  BY <1>5 DEF Close, Cleanup, Goto, At, Pipe
<1>6. CASE Idle(s)
  BY <1>6 DEF Idle, IdleToken, PausedToken, Tell, At, Disposition
<1> QED BY <1>1, <1>2, <1>3, <1>4, <1>5, <1>6

LEMMA PanicFields ==
    ASSUME Fields, NEW s \in Stream, Panics(s) PROVE Fields'
BY DEF Panics, Fields, ConfirmationTypeOK, confirmationVars, PipelineFrame, ToolFrame, Goto, Pipe

LEMMA UserFields ==
    ASSUME Fields, CancelStream \/ PauseStream \/ \E s \in Stream : Decide(s)
    PROVE  Fields'
<1> USE InstanceAssumption
    DEF Fields, ConfirmationTypeOK, confirmationVars, Streams, UserFrame
<1>1. CASE CancelStream \/ PauseStream
  BY <1>1 DEF CancelStream, PauseStream, PausedToken, Disposition
<1>2. ASSUME NEW s \in Stream, Decide(s) PROVE Fields'
  BY <1>2 DEF Decide, Resolve, ResolveElsewhere, Answer
<1> QED BY <1>1, <1>2

LEMMA FieldsStep == Fields /\ [Next]_vars => Fields'
<1> SUFFICES ASSUME Fields, [Next]_vars PROVE Fields'
  OBVIOUS
<1>1. CASE UNCHANGED vars
  BY <1>1 DEF vars, streamVars, confirmationVars, Fields, ConfirmationTypeOK
<1> QED BY <1>1, StartFields, PipelineFields, PanicFields, ForwardFields, UserFields
        DEF Next, Command

LEMMA SendChannels ==
    ASSUME Channels, NEW s \in Stream, NEW c \in Chunk, Send(s, c)
    PROVE  /\ Channels'
           /\ \A x \in Stream \ {s} : chunks'[x] = chunks[x]
           /\ chunks'[s] = chunks[s] \/ chunks'[s] = Append(chunks[s], c)
<1>1. CASE UNCHANGED chunks
  BY <1>1 DEF Channels
<1>2. CASE ~UNCHANGED chunks
  <2>1. chunks' = [chunks EXCEPT ![s] = Append(@, c)] /\ Len(chunks[s]) < ChannelCapacity
    BY <1>2 DEF Send
  <2>2. chunks[s] \in Seq(Chunk)
    BY DEF Channels
  <2>3. /\ Append(chunks[s], c) \in Seq(Chunk)
        /\ Len(Append(chunks[s], c)) = Len(chunks[s]) + 1 /\ Len(chunks[s]) \in Nat
    BY <2>2
  <2> QED BY <2>1, <2>3, CapacityAssumption DEF Channels
<1> QED BY <1>1, <1>2

LEMMA ForwardChannels ==
    ASSUME Channels, NEW s \in Stream, NEW c, Forwarding(s, c)
    PROVE  /\ Channels'
           /\ \A x \in Stream \ {s} : chunks'[x] = chunks[x]
           /\ chunks[s] # <<>> /\ chunks'[s] = Tail(chunks[s])
           /\ c = chunks[s][1] /\ 1 \in DOMAIN chunks[s]
           /\ \A i \in DOMAIN chunks'[s] :
                 i + 1 \in DOMAIN chunks[s] /\ chunks'[s][i] = chunks[s][i + 1]
<1>1. chunks[s] \in Seq(Chunk) /\ chunks[s] # <<>>
  BY DEF Channels, Forwarding
<1>2. /\ Tail(chunks[s]) \in Seq(Chunk) /\ Len(Tail(chunks[s])) = Len(chunks[s]) - 1
      /\ Len(chunks[s]) \in Nat
      /\ Head(chunks[s]) = chunks[s][1] /\ 1 \in DOMAIN chunks[s]
      /\ \A i \in DOMAIN Tail(chunks[s]) :
            i + 1 \in DOMAIN chunks[s] /\ Tail(chunks[s])[i] = chunks[s][i + 1]
  BY <1>1
<1>3. chunks' = [chunks EXCEPT ![s] = Tail(@)] /\ c = Head(chunks[s])
  BY DEF Forwarding
<1> QED BY <1>1, <1>2, <1>3, CapacityAssumption DEF Channels

-----------------------------------------------------------------------------
(* The invariants *)

\* All that the window is told of s is that it failed.
Failed(s) == \A i \in DOMAIN told[s] : told[s][i] = "error"

Starting == {"idle", "prepare", "plan", "read", "cleared"}

\* A stream that has not been spawned has neither a pipeline nor chunks, and is
\* not saved; before its loop has ended the window has been told nothing, and
\* one failure when the loop has just ended without a terminal chunk.
StartInv ==
    \A s \in Stream :
        /\ at[s] \in Starting => pipe[s] = "none" /\ chunks[s] = <<>> /\ saved # s
        /\ at[s] \in Starting \cup {"forward"} => Len(told[s]) = 0
        /\ at[s] = "silent" => Failed(s)

\* Whatever says that a stream is interrupted says so of a raised token.
TokenInv ==
    \A s \in Stream :
        /\ pipe[s] = "interrupted" => Interrupted(s)
        /\ \A i \in DOMAIN chunks[s] : chunks[s][i] \in {"cancelled", "paused"}
                                        => Interrupted(s)
        /\ saved = s => Interrupted(s)

\* A confirmation in the map is waited for and has not been answered.
PendingInv ==
    \A s \in pending : pipe[s] \in {"ask", "confirm"} /\ answer[s] = "none"

\* While the tool is both allowed and blocked, a decision that takes one of the
\* two back is being applied.
Overriding(s) ==
    pipe[s] = "override" /\ decision[s] \in {"allow_session", "allow_always", "deny_session"}
PolicyInv == allowed /\ blocked => \E s \in Stream : Overriding(s)

\* What it is told more than once is that.
ToldInv == \A s \in Stream : Len(told[s]) > 1 => Failed(s)

Inv == Fields /\ Channels /\ ToldInv /\ StartInv /\ TokenInv /\ PendingInv /\ PolicyInv

\* What most steps of s leave of the session and of the other streams.
OthersKept(s) ==
    \A x \in Stream \ {s} : /\ pipe'[x] = pipe[x] /\ chunks'[x] = chunks[x]
                            /\ at'[x] = at[x] /\ told'[x] = told[x]
                            /\ answer'[x] = answer[x] /\ decision'[x] = decision[x]

\* A step of the pipeline of s, which is not the interruption.
LEMMA PipelineKept ==
    ASSUME Inv, NEW s \in Stream, OthersKept(s),
           UNCHANGED <<at, token, told, saved>>, at[s] \notin Starting,
           pipe'[s] = "interrupted" => Interrupted(s),
           \/ chunks'[s] = chunks[s]
           \/ \E c \in Chunk : /\ chunks'[s] = Append(chunks[s], c)
                               /\ c \in {"cancelled", "paused"} => Interrupted(s)
    PROVE  StartInv' /\ TokenInv' /\ ToldInv'
<1> USE DEF Inv, OthersKept
<1>1. StartInv'
  BY DEF StartInv, Failed
<1>2. \A i \in DOMAIN chunks'[s] : chunks'[s][i] \in {"cancelled", "paused"} => Interrupted(s)
  <2>1. chunks[s] \in Seq(Chunk)
    BY DEF Channels
  <2>2. CASE chunks'[s] = chunks[s]
    BY <2>2 DEF TokenInv
  <2>3. ASSUME NEW c \in Chunk, chunks'[s] = Append(chunks[s], c),
               c \in {"cancelled", "paused"} => Interrupted(s)
        PROVE  \A i \in DOMAIN chunks'[s] :
                  chunks'[s][i] \in {"cancelled", "paused"} => Interrupted(s)
    <3>1. \A i \in DOMAIN Append(chunks[s], c) :
             \/ i \in DOMAIN chunks[s] /\ Append(chunks[s], c)[i] = chunks[s][i]
             \/ Append(chunks[s], c)[i] = c
      BY <2>1
    <3> QED BY <2>3, <3>1 DEF TokenInv
  <2> QED BY <2>2, <2>3
<1>3. TokenInv'
  BY <1>2 DEF TokenInv, Interrupted
<1>4. ToldInv'
  BY DEF ToldInv, Failed
<1> QED BY <1>1, <1>3, <1>4

LEMMA SomePipeline ==
    ASSUME Inv, NEW s \in Stream, pipe[s] # "none"
    PROVE  at[s] \notin Starting
BY DEF Inv, StartInv

-----------------------------------------------------------------------------
(* Steps of the pipeline *)

\* A step of the pipeline touches its own stream only.
LEMMA PipelineOwn ==
    ASSUME Inv, NEW s \in Stream, Pipeline(s)
    PROVE  /\ UNCHANGED <<at, token, told, saved>>
           /\ pipe[s] # "none"
           /\ \A x \in Stream \ {s} :
                 pipe'[x] = pipe[x] /\ answer'[x] = answer[x] /\ decision'[x] = decision[x]
<1> USE DEF Inv, Fields, ConfirmationTypeOK, PipelineFrame, ToolFrame, Goto, confirmationVars
<1>1. CASE Boundary(s) \/ SendInterruption(s) \/ ResponseEnds(s) \/ ToolCall(s)
           \/ ProviderInterrupted(s) \/ ProviderFails(s) \/ SendFailure(s) \/ Reflect(s)
  BY <1>1 DEF Boundary, SendInterruption, ResponseEnds, ToolCall, ProviderInterrupted,
              ProviderFails, SendFailure, Reflect
<1>2. CASE Policy(s) \/ Recheck(s) \/ Ask(s) \/ ToolEnds(s)
  BY <1>2 DEF Policy, Recheck, Ask, ToolEnds, Register
<1>3. CASE Answered(s) \/ TimedOut(s) \/ InterruptSeen(s)
  BY <1>3 DEF Answered, TimedOut, InterruptSeen, Receive, Abandon
<1>4. CASE Apply(s) \/ Override(s)
  BY <1>4 DEF Apply, Override, ApplyFirst, ApplySecond
<1> QED BY <1>1, <1>2, <1>3, <1>4 DEF Pipeline

\* What it sends, if anything, is true of its token.
LEMMA PipelineSends ==
    ASSUME Inv, NEW s \in Stream, Pipeline(s)
    PROVE  /\ pipe'[s] = "interrupted" => Interrupted(s)
           /\ \/ UNCHANGED chunks
              \/ \E c \in Chunk : /\ Send(s, c)
                                  /\ c \in {"cancelled", "paused"} => Interrupted(s)
<1> USE DEF Inv, Fields, PipelineFrame, ToolFrame, Goto
<1>1. CASE Boundary(s) \/ ResponseEnds(s) \/ ToolCall(s)
  BY <1>1 DEF Boundary, ResponseEnds, ToolCall
<1>2. CASE SendInterruption(s) \/ ProviderInterrupted(s)
  <2>1. InterruptionChunk(s) \in Chunk
    BY DEF InterruptionChunk, Chunk
  <2>2. Interrupted(s)
    BY <1>2 DEF TokenInv, SendInterruption, ProviderInterrupted
  <2> QED BY <1>2, <2>1, <2>2 DEF SendInterruption, ProviderInterrupted
<1>3. CASE ProviderFails(s) \/ SendFailure(s) \/ Reflect(s) \/ Ask(s)
  <2>1. {"error", "done", "confirm"} \subseteq Chunk
    BY DEF Chunk
  <2> QED BY <1>3, <2>1 DEF ProviderFails, SendFailure, Reflect, Ask
<1>4. CASE Policy(s) \/ Recheck(s) \/ Answered(s) \/ TimedOut(s) \/ InterruptSeen(s)
  BY <1>4 DEF Policy, Recheck, Answered, TimedOut, InterruptSeen
<1>5. CASE Apply(s) \/ Override(s) \/ ToolEnds(s)
  BY <1>5 DEF Apply, Override, ToolEnds
<1> QED BY <1>1, <1>2, <1>3, <1>4, <1>5 DEF Pipeline

\* Only a tool call touches the map, and it leaves it when its wait ends.
LEMMA PipelinePending ==
    ASSUME Inv, NEW s \in Stream, Pipeline(s) PROVE PendingInv'
<1>1. \A x \in Stream \ {s} : pipe'[x] = pipe[x] /\ answer'[x] = answer[x]
  BY PipelineOwn
<1>2. pending \subseteq Stream /\ pending' \subseteq Stream
  BY PipelineFields DEF Inv, Fields, ConfirmationTypeOK
<1>3. SUFFICES /\ pending' \ {s} = pending \ {s}
               /\ s \in pending' => pipe'[s] \in {"ask", "confirm"} /\ answer'[s] = "none"
  BY <1>1, <1>2 DEF Inv, PendingInv
<1> USE DEF Inv, Fields, ConfirmationTypeOK, PipelineFrame, ToolFrame, Goto,
            confirmationVars, PendingInv
<1>4. CASE Boundary(s) \/ SendInterruption(s) \/ ResponseEnds(s) \/ ToolCall(s)
           \/ ProviderInterrupted(s) \/ ProviderFails(s) \/ SendFailure(s) \/ Reflect(s)
  <2>1. pipe[s] \notin {"ask", "confirm"} /\ UNCHANGED pending
    BY <1>4 DEF Boundary, SendInterruption, ResponseEnds, ToolCall, ProviderInterrupted,
                ProviderFails, SendFailure, Reflect
  <2> QED BY <2>1
<1>5. CASE Policy(s) \/ ToolEnds(s) \/ Apply(s) \/ Override(s)
  <2>1. pipe[s] \notin {"ask", "confirm"} /\ UNCHANGED pending
    BY <1>5 DEF Policy, ToolEnds, Apply, Override, ApplyFirst, ApplySecond
  <2> QED BY <2>1
<1>6. CASE Recheck(s)
  BY <1>6 DEF Recheck, Register
<1>7. CASE Ask(s)
  BY <1>7 DEF Ask
<1>8. CASE Answered(s)
  BY <1>8 DEF Answered, Receive
<1>9. CASE TimedOut(s) \/ InterruptSeen(s)
  BY <1>9 DEF TimedOut, InterruptSeen, Abandon
<1> QED BY <1>4, <1>5, <1>6, <1>7, <1>8, <1>9 DEF Pipeline

\* A decision adds before it takes back, and says so while it does.
LEMMA PipelinePolicy ==
    ASSUME Inv, NEW s \in Stream, Pipeline(s) PROVE PolicyInv'
<1>1. \A x \in Stream \ {s} : pipe'[x] = pipe[x] /\ decision'[x] = decision[x]
  BY PipelineOwn
<1>2. ASSUME UNCHANGED <<allowed, blocked>>, pipe[s] # "override" PROVE PolicyInv'
  BY <1>1, <1>2 DEF Inv, PolicyInv, Overriding
<1> USE DEF Inv, Fields, ConfirmationTypeOK, PipelineFrame, ToolFrame, Goto,
            confirmationVars
<1>3. CASE Boundary(s) \/ SendInterruption(s) \/ ResponseEnds(s) \/ ToolCall(s)
           \/ ProviderInterrupted(s) \/ ProviderFails(s) \/ SendFailure(s) \/ Reflect(s)
  BY <1>2, <1>3 DEF Boundary, SendInterruption, ResponseEnds, ToolCall, ProviderInterrupted,
                    ProviderFails, SendFailure, Reflect
<1>4. CASE Policy(s) \/ Recheck(s) \/ Ask(s) \/ ToolEnds(s)
  BY <1>2, <1>4 DEF Policy, Recheck, Ask, ToolEnds, Register
<1>5. CASE Answered(s) \/ TimedOut(s) \/ InterruptSeen(s)
  BY <1>2, <1>5 DEF Answered, TimedOut, InterruptSeen, Receive, Abandon
<1>6. CASE Apply(s)
  <2>1. /\ allowed' = (allowed \/ decision[s] \in {"allow_session", "allow_always"})
        /\ blocked' = (blocked \/ decision[s] = "deny_session")
        /\ pipe'[s] = "override" /\ decision'[s] = decision[s] /\ pipe[s] = "apply"
    BY <1>6 DEF Apply, ApplyFirst
  <2>2. CASE decision[s] \in {"allow_session", "allow_always", "deny_session"}
    BY <2>1, <2>2 DEF PolicyInv, Overriding
  <2>3. CASE decision[s] \notin {"allow_session", "allow_always", "deny_session"}
    BY <1>1, <2>1, <2>3 DEF PolicyInv, Overriding
  <2> QED BY <2>2, <2>3
<1>7. CASE Override(s)
  <2>1. /\ allowed' = (allowed /\ decision[s] # "deny_session")
        /\ blocked' = (blocked /\ decision[s] \notin {"allow_session", "allow_always"})
    BY <1>7 DEF Override, ApplySecond
  <2>2. allowed' /\ blocked' => allowed /\ blocked /\ ~Overriding(s)
    BY <2>1 DEF Overriding
  <2> QED BY <1>1, <2>2 DEF PolicyInv, Overriding
<1> QED BY <1>3, <1>4, <1>5, <1>6, <1>7 DEF Pipeline

LEMMA PipelineInv ==
    ASSUME Inv, NEW s \in Stream, Pipeline(s) PROVE Inv'
<1>1. /\ UNCHANGED <<at, token, told, saved>> /\ pipe[s] # "none"
      /\ \A x \in Stream \ {s} :
            pipe'[x] = pipe[x] /\ answer'[x] = answer[x] /\ decision'[x] = decision[x]
  BY PipelineOwn
<1>2. /\ Channels'
      /\ \A x \in Stream \ {s} : chunks'[x] = chunks[x]
      /\ \/ chunks'[s] = chunks[s]
         \/ \E c \in Chunk : /\ chunks'[s] = Append(chunks[s], c)
                             /\ c \in {"cancelled", "paused"} => Interrupted(s)
  <2>1. CASE UNCHANGED chunks
    BY <2>1 DEF Inv, Channels
  <2>2. ASSUME NEW c \in Chunk, Send(s, c), c \in {"cancelled", "paused"} => Interrupted(s)
        PROVE  <1>2
    BY <2>2, SendChannels DEF Inv
  <2> QED BY <2>1, <2>2, PipelineSends
<1>3. StartInv' /\ TokenInv' /\ ToldInv'
  <2>1. OthersKept(s)
    BY <1>1, <1>2 DEF OthersKept
  <2> QED BY <1>1, <1>2, <2>1, PipelineKept, PipelineSends, SomePipeline
<1> QED BY <1>2, <1>3, PipelineFields, PipelinePending, PipelinePolicy DEF Inv

LEMMA PanicInv ==
    ASSUME Inv, NEW s \in Stream, Panics(s) PROVE Inv'
<1>1. /\ UNCHANGED <<at, token, told, saved, chunks, decision, confirmationVars>>
      /\ pipe[s] \in {"model", "tool"} /\ pipe' = [pipe EXCEPT ![s] = "panicked"]
  BY DEF Panics, PipelineFrame, ToolFrame, Goto
<1>2. /\ pipe'[s] = "panicked" /\ \A x \in Stream \ {s} : pipe'[x] = pipe[x]
      /\ pipe[s] # "none"
  BY <1>1 DEF Inv, Fields
<1>3. Channels' /\ ToldInv' /\ StartInv' /\ TokenInv'
  <2>1. Channels' /\ ToldInv'
    BY <1>1 DEF Inv, Channels, ToldInv, Failed
  <2>2. at[s] \notin Starting
    BY <1>2, SomePipeline
  <2>3. StartInv'
    BY <1>1, <1>2, <2>2 DEF Inv, StartInv, Failed
  <2>4. TokenInv'
    BY <1>1, <1>2 DEF Inv, TokenInv, Interrupted
  <2> QED BY <2>1, <2>3, <2>4
<1>4. PendingInv' /\ PolicyInv'
  BY <1>1, <1>2 DEF Inv, PendingInv, PolicyInv, Overriding, confirmationVars
<1> QED BY <1>3, <1>4, PanicFields DEF Inv

-----------------------------------------------------------------------------
(* Starting a stream *)

\* Nothing of the session's confirmations moves.
LEMMA ConfirmationsKept ==
    ASSUME Inv, UNCHANGED <<decision, confirmationVars>>,
           \A x \in Stream : pipe'[x] = pipe[x] \/ pipe[x] \notin {"ask", "confirm", "override"}
    PROVE  PendingInv' /\ PolicyInv'
<1> USE DEF Inv, Fields, ConfirmationTypeOK, confirmationVars
<1>1. PendingInv'
  BY DEF PendingInv
<1>2. PolicyInv'
  BY DEF PolicyInv, Overriding
<1> QED BY <1>1, <1>2

LEMMA StartingInv ==
    ASSUME Inv, NEW s \in Stream,
           \/ Message(s) \/ Supersede(s) \/ Spawn(s) \/ SpawnFails(s)
           \/ ResumeRead(s) \/ ResumeClear(s) \/ ResumeSpawn(s)
    PROVE  Inv'
<1>1. at[s] \in Starting /\ UNCHANGED <<chunks, told, decision, confirmationVars>>
  BY DEF Message, Supersede, Spawn, SpawnFails, ResumeRead, ResumeClear, ResumeSpawn,
         Starting
<1>2. pipe[s] = "none" /\ chunks[s] = <<>> /\ saved # s /\ Len(told[s]) = 0
  BY <1>1 DEF Inv, StartInv
<1>3. /\ \A x \in Stream \ {s} : at'[x] = at[x] /\ pipe'[x] = pipe[x]
      /\ at'[s] \in Starting => pipe'[s] = "none"
      /\ at'[s] # "silent"
      /\ pipe'[s] \in {"none", "boundary"}
      /\ saved' \in {saved, NoStream}
  <2> USE DEF Inv, Fields
  <2>1. CASE Message(s) \/ Supersede(s) \/ SpawnFails(s) \/ ResumeRead(s) \/ ResumeClear(s)
    BY <1>2, <2>1 DEF Message, Supersede, SpawnFails, ResumeRead, ResumeClear
  <2>2. CASE Spawn(s) \/ ResumeSpawn(s)
    BY <2>2 DEF Spawn, ResumeSpawn, Starting
  <2> QED BY <2>1, <2>2
<1>4. \A x \in Stream \ {s} : Interrupted(x) => Interrupted(x)'
  <2> USE DEF Inv, Fields, Interrupted
  <2>1. CASE Message(s) \/ ResumeSpawn(s)
    BY <2>1 DEF Message, ResumeSpawn, Registered
  <2>2. CASE ~(Message(s) \/ ResumeSpawn(s))
    <3>1. UNCHANGED token
      BY <2>2 DEF Supersede, Spawn, SpawnFails, ResumeRead, ResumeClear
    <3> QED BY <3>1
  <2> QED BY <2>1, <2>2
<1>5. StartInv'
  <2>1. ASSUME NEW x \in Stream, x # s
        PROVE  /\ at'[x] \in Starting => pipe'[x] = "none" /\ chunks'[x] = <<>> /\ saved' # x
               /\ at'[x] \in Starting \cup {"forward"} => Len(told'[x]) = 0
               /\ at'[x] = "silent" => Failed(x)'
    BY <1>1, <1>3, <2>1, StreamAssumption DEF Inv, StartInv, Failed
  <2>2. /\ at'[s] \in Starting => pipe'[s] = "none" /\ chunks'[s] = <<>> /\ saved' # s
        /\ Len(told'[s]) = 0 /\ at'[s] # "silent"
    BY <1>1, <1>2, <1>3, StreamAssumption
  <2> QED BY <2>1, <2>2 DEF StartInv
<1>6. TokenInv'
  BY <1>1, <1>2, <1>3, <1>4, StreamAssumption DEF Inv, TokenInv
<1>7. PendingInv' /\ PolicyInv'
  BY <1>1, <1>2, <1>3, ConfirmationsKept
<1>8. Channels' /\ ToldInv'
  BY <1>1 DEF Inv, Channels, ToldInv, Failed
<1> QED BY <1>5, <1>6, <1>7, <1>8, StartFields DEF Inv

-----------------------------------------------------------------------------
(* Forwarding *)

\* Taking chunks out keeps what they say; what is saved is interrupted.
LEMMA ForwardingKept ==
    ASSUME Inv, NEW s \in Stream, at[s] \notin Starting, at'[s] \notin Starting,
           at'[s] = "forward" => at[s] = "forward" /\ told'[s] = told[s],
           at'[s] = "silent" => Failed(s)',
           \A x \in Stream \ {s} : /\ at'[x] = at[x] /\ told'[x] = told[x]
                                   /\ pipe'[x] = pipe[x] /\ chunks'[x] = chunks[x],
           pipe'[s] \in {pipe[s], "finished"},
           \A i \in DOMAIN chunks'[s] :
              \E j \in DOMAIN chunks[s] : chunks'[s][i] = chunks[s][j],
           \A x \in Stream : Interrupted(x) => Interrupted(x)',
           saved' # saved => saved' = s /\ Interrupted(s)'
    PROVE  StartInv' /\ TokenInv'
<1>1. StartInv'
  <2>1. \A x \in Stream \ {s} :
           /\ at'[x] \in Starting => pipe'[x] = "none" /\ chunks'[x] = <<>> /\ saved' # x
           /\ at'[x] \in Starting \cup {"forward"} => Len(told'[x]) = 0
           /\ at'[x] = "silent" => Failed(x)'
    BY DEF Inv, StartInv, Failed
  <2>2. at'[s] \in Starting \cup {"forward"} => Len(told'[s]) = 0
    BY DEF Inv, StartInv
  <2> QED BY <2>1, <2>2 DEF StartInv
<1>2. TokenInv'
  <2>1. \A x \in Stream \ {s} :
           /\ pipe'[x] = "interrupted" => Interrupted(x)'
           /\ \A i \in DOMAIN chunks'[x] : chunks'[x][i] \in {"cancelled", "paused"}
                                           => Interrupted(x)'
           /\ saved' = x => Interrupted(x)'
    BY DEF Inv, TokenInv
  <2>2. /\ pipe'[s] = "interrupted" => Interrupted(s)'
        /\ saved' = s => Interrupted(s)'
    BY DEF Inv, TokenInv
  <2>3. ASSUME NEW i \in DOMAIN chunks'[s], chunks'[s][i] \in {"cancelled", "paused"}
        PROVE  Interrupted(s)'
    BY <2>3 DEF Inv, TokenInv
  <2> QED BY <2>1, <2>2, <2>3 DEF TokenInv
<1> QED BY <1>1, <1>2

\* What a step that ends the loop tells.
LEMMA FirstEnding ==
    ASSUME Inv, NEW s \in Stream, NEW e \in Ending, at[s] = "forward", Told(s, e)
    PROVE  /\ e = "error" => Failed(s)'
           /\ \A x \in Stream \ {s} : told'[x] = told[x]
           /\ ToldInv'
<1>1. told[s] \in Seq(Ending) /\ Len(told[s]) = 0
  BY DEF Inv, Fields, StartInv
<1>2. told'[s] = Append(told[s], e) /\ \A x \in Stream \ {s} : told'[x] = told[x]
  BY ToldFields DEF Inv
<1>3. Len(told'[s]) = 1 /\ \A i \in DOMAIN told'[s] : told'[s][i] = e
  BY <1>1, <1>2
<1> QED BY <1>2, <1>3 DEF Inv, ToldInv, Failed

\* The window is told of a failure once more.
LEMMA FailureAgain ==
    ASSUME Inv, NEW s \in Stream, Failed(s), Told(s, "error")
    PROVE  /\ \A x \in Stream \ {s} : told'[x] = told[x]
           /\ ToldInv'
<1>1. "error" \in Ending
  BY DEF Ending
<1>2. told'[s] = Append(told[s], "error") /\ \A x \in Stream \ {s} : told'[x] = told[x]
  BY <1>1, ToldFields DEF Inv
<1>3. told[s] \in Seq(Ending)
  BY DEF Inv, Fields
<1>4. \A i \in DOMAIN told'[s] : told'[s][i] = "error"
  BY <1>1, <1>2, <1>3 DEF Failed
<1> QED BY <1>2, <1>4 DEF Inv, ToldInv, Failed

\* What a step of the loop that takes the chunk c does to its stream.
LEMMA TakenKept ==
    ASSUME Inv, NEW s \in Stream, NEW c, Forwarding(s, c), UNCHANGED <<pipe, token>>,
           \/ UNCHANGED <<at, told>>
           \/ \E event \in Ending : Tell(s, event),
           saved' # saved => saved' = s /\ c \in {"cancelled", "paused"}
    PROVE  Channels' /\ ToldInv' /\ StartInv' /\ TokenInv'
<1>1. at[s] = "forward"
  BY DEF Forwarding
<1>2. /\ Channels'
      /\ \A x \in Stream \ {s} : chunks'[x] = chunks[x]
      /\ c = chunks[s][1] /\ 1 \in DOMAIN chunks[s]
      /\ \A i \in DOMAIN chunks'[s] :
            i + 1 \in DOMAIN chunks[s] /\ chunks'[s][i] = chunks[s][i + 1]
  BY ForwardChannels DEF Inv
<1>3. /\ \A x \in Stream \ {s} : at'[x] = at[x] /\ told'[x] = told[x]
      /\ \/ at'[s] = at[s] /\ told'[s] = told[s]
         \/ at'[s] = "close"
      /\ ToldInv'
  <2>1. CASE UNCHANGED <<at, told>>
    BY <2>1 DEF Inv, ToldInv, Failed
  <2>2. ASSUME NEW event \in Ending, Tell(s, event) PROVE <1>3
    BY <1>1, <2>2, FirstEnding DEF Tell, Inv, Fields
  <2> QED BY <2>1, <2>2
<1>4. saved' # saved => saved' = s /\ Interrupted(s)'
  BY <1>2 DEF Inv, TokenInv, Interrupted
<1>5. \A x \in Stream : Interrupted(x) => Interrupted(x)'
  BY DEF Interrupted
<1>6. \A i \in DOMAIN chunks'[s] : \E j \in DOMAIN chunks[s] : chunks'[s][i] = chunks[s][j]
  BY <1>2
<1>7. at[s] \notin Starting /\ at'[s] \notin Starting
  BY <1>1, <1>3 DEF Starting
<1>8. /\ at'[s] = "forward" => at[s] = "forward" /\ told'[s] = told[s]
      /\ at'[s] # "silent"
  BY <1>1, <1>3
<1>9. StartInv' /\ TokenInv'
  BY <1>2, <1>3, <1>4, <1>5, <1>6, <1>7, <1>8, ForwardingKept
<1> QED BY <1>2, <1>3, <1>9

LEMMA CommandInv ==
    ASSUME Inv, NEW s \in Stream,
           \/ ForwardConfirm(s) \/ ForwardDone(s) \/ ForwardCancelled(s)
           \/ ForwardPaused(s) \/ ForwardError(s) \/ EndsUnexpectedly(s)
           \/ Close(s) \/ Cleanup(s) \/ Idle(s)
    PROVE  Inv'
<1>1. Channels' /\ ToldInv' /\ StartInv' /\ TokenInv'
  <2> USE DEF Inv, Fields
  <2>1. CASE ForwardConfirm(s) \/ ForwardDone(s) \/ ForwardCancelled(s)
             \/ ForwardPaused(s) \/ ForwardError(s)
    <3>1. {"done", "cancelled", "paused", "error"} \subseteq Ending
      BY DEF Ending
    <3>2. CASE ForwardConfirm(s)
      BY <3>2, TakenKept DEF ForwardConfirm
    <3>3. CASE ForwardDone(s) \/ ForwardError(s)
      BY <3>1, <3>3, TakenKept DEF ForwardDone, ForwardError
    <3>4. CASE ForwardCancelled(s)
      BY <3>1, <3>4, TakenKept DEF ForwardCancelled
    <3>5. CASE ForwardPaused(s)
      BY <3>1, <3>5, TakenKept DEF ForwardPaused
    <3> QED BY <2>1, <3>2, <3>3, <3>4, <3>5
  <2>2. CASE EndsUnexpectedly(s) \/ Close(s) \/ Cleanup(s) \/ Idle(s)
    <3>0. /\ \A x \in Stream \ {s} : told'[x] = told[x]
          /\ ToldInv'
          /\ at'[s] = "silent" => Failed(s)'
      <4>1. "error" \in Ending /\ "paused" \in Ending
        BY DEF Ending
      <4>2. CASE EndsUnexpectedly(s)
        BY <4>1, <4>2, FirstEnding DEF EndsUnexpectedly
      <4>3. CASE Idle(s)
        BY <4>1, <4>3, FirstEnding DEF Idle, Tell
      <4>4. CASE Cleanup(s)
        BY <4>4 DEF Cleanup, ToldInv, Failed
      <4>5. CASE Close(s) /\ UNCHANGED told
        BY <4>5 DEF Close, ToldInv, Failed
      <4>6. CASE Close(s) /\ ~UNCHANGED told
        <5>1. at[s] = "silent" /\ Told(s, "error") /\ at'[s] = "cleanup"
          BY <4>6 DEF Close
        <5>2. Failed(s)
          BY <5>1 DEF StartInv
        <5> QED BY <5>1, <5>2, FailureAgain
      <4> QED BY <2>2, <4>2, <4>3, <4>4, <4>5, <4>6
    <3>1. \A x \in Stream \ {s} : /\ at'[x] = at[x] /\ told'[x] = told[x]
                                  /\ pipe'[x] = pipe[x] /\ chunks'[x] = chunks[x]
      BY <2>2, <3>0 DEF EndsUnexpectedly, Close, Cleanup, Idle, Tell, Goto, Inv, Channels
    <3>2. /\ at[s] \notin Starting /\ at'[s] \notin Starting /\ at'[s] # "forward"
          /\ pipe'[s] \in {pipe[s], "finished"}
      BY <2>2 DEF EndsUnexpectedly, Close, Cleanup, Idle, Tell, Goto, Starting
    <3>3. chunks'[s] = chunks[s] \/ chunks'[s] = <<>>
      BY <2>2 DEF EndsUnexpectedly, Close, Cleanup, Idle, Channels
    <3>4. /\ \A x \in Stream : Interrupted(x) => Interrupted(x)'
          /\ saved' # saved => saved' = s /\ Interrupted(s)'
      <4>1. CASE Idle(s)
        BY <4>1 DEF Idle, IdleToken, PausedToken, Interrupted
      <4>2. CASE ~Idle(s)
        BY <2>2, <4>2 DEF EndsUnexpectedly, Close, Cleanup, Interrupted
      <4> QED BY <4>1, <4>2
    <3>5. Channels'
      <4>1. <<>> \in Seq(Chunk) /\ Len(<<>>) = 0
        OBVIOUS
      <4>2. chunks' = chunks \/ chunks' = [chunks EXCEPT ![s] = <<>>]
        BY <2>2 DEF EndsUnexpectedly, Close, Cleanup, Idle
      <4>3. CASE chunks' = chunks
        BY <4>3 DEF Channels
      <4>4. CASE chunks' = [chunks EXCEPT ![s] = <<>>]
        <5>1. chunks' \in [Stream -> Seq(Chunk)]
          BY <4>1, <4>4 DEF Channels
        <5>2. chunks'[s] = <<>> /\ \A x \in Stream \ {s} : chunks'[x] = chunks[x]
          BY <4>4 DEF Channels
        <5>3. \A x \in Stream : Len(chunks'[x]) <= ChannelCapacity
          <6>1. Len(chunks'[s]) <= ChannelCapacity
            BY <4>1, <5>2, CapacityAssumption
          <6> QED BY <5>2, <6>1 DEF Channels
        <5> QED BY <5>1, <5>3 DEF Channels
      <4> QED BY <4>2, <4>3, <4>4
    <3>6. \A i \in DOMAIN chunks'[s] :
             \E j \in DOMAIN chunks[s] : chunks'[s][i] = chunks[s][j]
      BY <3>3
    <3> QED BY <3>0, <3>1, <3>2, <3>4, <3>5, <3>6, ForwardingKept
  <2> QED BY <2>1, <2>2
<1>2. /\ UNCHANGED <<decision, confirmationVars>>
      /\ \A x \in Stream : pipe'[x] = pipe[x] \/ pipe[x] \notin {"ask", "confirm", "override"}
  BY DEF Inv, Fields, ForwardConfirm, ForwardDone, ForwardCancelled, ForwardPaused,
         ForwardError, EndsUnexpectedly, Close, Cleanup, Idle, CommandFrame, Goto
<1> QED BY <1>1, <1>2, ForwardFields, ConfirmationsKept DEF Inv

-----------------------------------------------------------------------------
(* The other commands *)

LEMMA UserInv ==
    ASSUME Inv, CancelStream \/ PauseStream \/ \E s \in Stream : Decide(s)
    PROVE  Inv'
<1>1. UNCHANGED <<at, pipe, decision, chunks, told, saved>>
  BY DEF CancelStream, PauseStream, Decide, UserFrame
<1>2. \A x \in Stream : Interrupted(x) => Interrupted(x)'
  BY DEF Inv, Fields, CancelStream, PauseStream, Decide, PausedToken, Interrupted
<1>3. ToldInv' /\ StartInv' /\ TokenInv' /\ Channels'
  <2>1. ToldInv' /\ StartInv' /\ Channels'
    BY <1>1 DEF Inv, StartInv, Channels, ToldInv, Failed
  <2>2. TokenInv'
    BY <1>1, <1>2 DEF Inv, TokenInv
  <2> QED BY <2>1, <2>2
<1>4. PendingInv' /\ PolicyInv'
  <2>1. CASE CancelStream \/ PauseStream
    BY <1>1, <2>1, ConfirmationsKept DEF CancelStream, PauseStream, confirmationVars
  <2>2. ASSUME NEW s \in Stream, Decide(s) PROVE PendingInv' /\ PolicyInv'
    <3>1. /\ pending' = pending \ {s}
          /\ \A x \in Stream \ {s} : answer'[x] = answer[x]
          /\ UNCHANGED <<allowed, blocked>>
      BY <2>2 DEF Decide, Resolve, ResolveElsewhere, Inv, Fields, ConfirmationTypeOK
    <3> QED BY <1>1, <3>1 DEF Inv, Fields, ConfirmationTypeOK, PendingInv, PolicyInv,
                             Overriding
  <2> QED BY <2>1, <2>2
<1> QED BY <1>3, <1>4, UserFields DEF Inv

LEMMA InvStep == Inv /\ [Next]_vars => Inv'
<1> SUFFICES ASSUME Inv, [Next]_vars PROVE Inv'
  OBVIOUS
<1>1. CASE UNCHANGED vars
  <2>1. Fields' /\ Channels'
    BY <1>1, FieldsStep DEF Inv, vars, streamVars, Channels
  <2>2. ToldInv' /\ StartInv' /\ TokenInv'
    BY <1>1 DEF Inv, vars, streamVars, ToldInv, Failed, StartInv, TokenInv, Interrupted
  <2>3. PendingInv' /\ PolicyInv'
    BY <1>1, ConfirmationsKept DEF vars, streamVars
  <2> QED BY <2>1, <2>2, <2>3 DEF Inv
<1> QED BY <1>1, StartingInv, PipelineInv, PanicInv, CommandInv, UserInv DEF Next, Command

LEMMA InvInit == Init => Inv
<1> SUFFICES ASSUME Init PROVE Inv
  OBVIOUS
<1>1. Fields
  <2>1. <<>> \in Seq(Ending)
    OBVIOUS
  <2> QED
  BY <2>1 DEF Init, ConfirmationInit, Fields, ConfirmationTypeOK, At, Pipe, Disposition, Decision,
         Answer, Status, Streams
<1>2. Channels
  <2>1. <<>> \in Seq(Chunk) /\ Len(<<>>) = 0
    OBVIOUS
  <2> QED BY <2>1, CapacityAssumption DEF Init, Channels
<1>3. ToldInv /\ StartInv /\ TokenInv
  BY StreamAssumption DEF Init, ToldInv, Failed, StartInv, TokenInv, Starting
<1>4. PendingInv /\ PolicyInv
  BY DEF Init, ConfirmationInit, PendingInv, PolicyInv
<1> QED BY <1>1, <1>2, <1>3, <1>4 DEF Inv

LEMMA Invariance == Spec => []Inv
BY InvInit, InvStep, PTL DEF Spec

-----------------------------------------------------------------------------
(* Theorems *)

\* Every variable keeps its type, and no channel to the window ever holds more
\* than its capacity: a full one makes the pipeline wait.
THEOREM TypeCorrect == Spec => []TypeOK
<1>1. Inv => TypeOK
  BY DEF Inv, Fields, Channels, TypeOK
<1> QED BY <1>1, Invariance, PTL

\* However the wait for an answer ends (an answer, one from another session, the
\* time-out, the token), no confirmation is left in the map behind its pipeline.
THEOREM ConfirmationsAreWaitedFor == Spec => []PendingHasWaiter
<1>1. Inv => PendingHasWaiter
  BY DEF Inv, PendingInv, PendingHasWaiter
<1> QED BY <1>1, Invariance, PTL

\* However many pipelines of the session apply decisions at the same time, each
\* lock by lock, the session ends up with the tool allowed or blocked, not both.
THEOREM PolicyStaysConsistent == Spec => []PolicyIsConsistent
<1>1. Inv => PolicyIsConsistent
  BY DEF Inv, PolicyInv, Overriding, PolicyIsConsistent
<1> QED BY <1>1, Invariance, PTL

\* What the session offers to resume has a raised token, whichever of the loop's
\* ends saved it.
THEOREM ResumableIsStopped == Spec => []ResumableIsInterrupted
<1>1. Inv => ResumableIsInterrupted
  BY StreamAssumption DEF Inv, Fields, Streams, TokenInv, ResumableIsInterrupted
<1> QED BY <1>1, Invariance, PTL

\* Whatever the pipeline sends after the window has been told the end of the
\* stream, and whenever it panics, the window is told nothing that contradicts it.
THEOREM EndingsStand == Spec => []EndingStands
<1>1. Inv => EndingStands
  BY DEF Inv, ToldInv, Failed, EndingStands
<1> QED BY <1>1, Invariance, PTL
=============================================================================
