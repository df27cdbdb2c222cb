-------------------------------- MODULE Agent --------------------------------
(***************************************************************************)
(* The Agent class and the loop it runs (packages/agent/src/agent.ts and   *)
(* agent-loop.ts): runs, the steering and follow-up queues, the transcript *)
(* the application sees and the context the model is asked with, abort,    *)
(* reset, and what happens when an event listener throws.                  *)
(*                                                                         *)
(* The tool calls of a turn run as in ToolBatch, whose variables are part  *)
(* of this state.  A step runs from one await of the loop to the next; the *)
(* application may call the agent between any two of them.                 *)
(***************************************************************************)
EXTENDS ToolBatch, PendingMessageQueue, FiniteSets, SequencesExt

CONSTANTS
    Modes,         \* queue modes the application switches between
    MaxMessages,   \* bound: user messages the application submits
    MaxToolTurns   \* bound: assistant messages that ask for tools

ASSUME ModesAssumption == Modes \subseteq QueueMode
ASSUME BoundsAssumption == MaxMessages \in Nat /\ MaxToolTurns \in Nat

VARIABLES
    transcript,        \* _state.messages
    context,           \* currentContext.messages of the loop
    steeringQueue, followUpQueue,
    steeringMode, followUpMode,
    pc,                \* where the run is; "idle": activeRun is undefined
    pending,           \* pendingMessages of the loop (or prompts to announce)
    hasMoreToolCalls,
    skipInitialSteeringPoll,
    isStreaming,
    pendingToolCalls,
    orphans,           \* tools that outlive the run that started them
    turn,              \* assistant messages so far
    toolTurns,         \* those of them that asked for tools
    submitted,         \* user messages submitted so far
    gone               \* messages cleared, reset, or in flight in a failed run

queueVars == <<steeringQueue, followUpQueue, steeringMode, followUpMode>>
loopVars == <<context, pc, pending, hasMoreToolCalls, skipInitialSteeringPoll,
              turn, toolTurns>>
stateVars == <<transcript, isStreaming, pendingToolCalls, orphans>>
vars == <<batchVars, aborted, queueVars, loopVars, stateVars, submitted, gone>>

Locations == {"idle", "prompts", "inject", "stream", "tools", "turnEnd",
              "errorTurnEnd", "followUps", "agentEnd", "failure"}

(***************************************************************************)
(* Messages.  A user message is its kind and its number in the order of    *)
(* submission; an assistant message its number and how many tools it asks  *)
(* for; a tool result the message and the call it answers.                 *)
(***************************************************************************)
Kinds == {"prompt", "steer", "followUp"}
UserMessages == [role : {"user"}, kind : Kinds, id : 1..MaxMessages]
Assistant(k, n) == [role |-> "assistant", id |-> k, calls |-> n]
ToolResult(k, i) == [role |-> "toolResult", id |-> k, call |-> i]
NewMessage(kind) == [role |-> "user", kind |-> kind, id |-> submitted + 1]
UserMessagesIn(s) == {m \in Range(s) : m.role = "user"}

Active == pc # "idle"

Init ==
    /\ BatchInit /\ aborted = FALSE
    /\ transcript = <<>> /\ context = <<>>
    /\ steeringQueue = <<>> /\ followUpQueue = <<>>
    /\ steeringMode = "one-at-a-time" /\ followUpMode = "one-at-a-time"
    /\ pc = "idle"
    /\ pending = <<>>
    /\ hasMoreToolCalls = FALSE
    /\ skipInitialSteeringPoll = FALSE
    /\ isStreaming = FALSE
    /\ pendingToolCalls = {} /\ orphans = {}
    /\ turn = 0 /\ toolTurns = 0
    /\ submitted = 0
    /\ gone = {}

-----------------------------------------------------------------------------
(***************************************************************************)
(* Starting a run: runWithLifecycle, then runAgentLoop with prompts, which *)
(* join the context at once and are announced one by one, or               *)
(* runAgentLoopContinue without any.                                       *)
(***************************************************************************)
StartRun(prompts, skip) ==
    /\ ~Active
    /\ pc' = "prompts"
    /\ context' = transcript \o prompts
    /\ pending' = prompts
    /\ skipInitialSteeringPoll' = skip
    /\ isStreaming' = TRUE
    /\ UNCHANGED <<batchVars, aborted, steeringMode, followUpMode, hasMoreToolCalls,
                   transcript, pendingToolCalls, orphans, turn, toolTurns, gone>>

Prompt ==
    /\ submitted < MaxMessages
    /\ StartRun(<<NewMessage("prompt")>>, FALSE)
    /\ submitted' = submitted + 1
    /\ UNCHANGED <<steeringQueue, followUpQueue>>

(***************************************************************************)
(* continue(): after an assistant message queued messages become prompts,  *)
(* steering first; with none queued it throws.                             *)
(***************************************************************************)
LastIsAssistant == transcript # <<>> /\ Last(transcript).role = "assistant"

ContinueWithSteering ==
    /\ LastIsAssistant
    /\ steeringQueue # <<>>
    /\ StartRun(Drained(steeringQueue, steeringMode), TRUE)
    /\ steeringQueue' = Left(steeringQueue, steeringMode)
    /\ UNCHANGED <<followUpQueue, submitted>>

ContinueWithFollowUps ==
    /\ LastIsAssistant
    /\ steeringQueue = <<>> /\ followUpQueue # <<>>
    /\ StartRun(Drained(followUpQueue, followUpMode), FALSE)
    /\ followUpQueue' = Left(followUpQueue, followUpMode)
    /\ UNCHANGED <<steeringQueue, submitted>>

ContinueTranscript ==
    /\ transcript # <<>> /\ ~LastIsAssistant
    /\ StartRun(<<>>, FALSE)
    /\ UNCHANGED <<steeringQueue, followUpQueue, submitted>>

-----------------------------------------------------------------------------
(***************************************************************************)
(* The loop.  message_end puts a prompt into the transcript.               *)
(***************************************************************************)
AnnouncePrompt ==
    /\ pc = "prompts"
    /\ pending # <<>>
    /\ transcript' = Append(transcript, Head(pending))
    /\ pending' = Tail(pending)
    /\ UNCHANGED <<batchVars, aborted, queueVars, context, pc,
                   hasMoreToolCalls, skipInitialSteeringPoll, turn, toolTurns,
                   isStreaming, pendingToolCalls, orphans, submitted, gone>>

(***************************************************************************)
(* runLoop begins with a poll of the steering queue, which a continue()    *)
(* that has just drained it skips once.                                    *)
(***************************************************************************)
InitialSteeringPoll ==
    /\ pc = "prompts"
    /\ pending = <<>>
    /\ IF skipInitialSteeringPoll
         THEN UNCHANGED <<pending, steeringQueue>>
         ELSE /\ pending' = Drained(steeringQueue, steeringMode)
              /\ steeringQueue' = Left(steeringQueue, steeringMode)
    /\ skipInitialSteeringPoll' = FALSE
    /\ hasMoreToolCalls' = TRUE
    /\ pc' = "inject"
    /\ UNCHANGED <<batchVars, aborted, followUpQueue, steeringMode,
                   followUpMode, context, turn, toolTurns, stateVars,
                   submitted, gone>>

(* A message that is announced but not put into the context. *)
InjectMessageUnseen ==
    /\ pc = "inject"
    /\ pending # <<>>
    /\ transcript' = Append(transcript, Head(pending))
    /\ pending' = Tail(pending)
    /\ UNCHANGED <<batchVars, aborted, queueVars, context, pc, hasMoreToolCalls,
                   skipInitialSteeringPoll, turn, toolTurns, isStreaming,
                   pendingToolCalls, orphans, submitted, gone>>

(***************************************************************************)
(* Pending messages go to the transcript and to the context, one by one;   *)
(* then the model is asked.                                                *)
(***************************************************************************)
InjectMessage ==
    /\ pc = "inject"
    /\ pending # <<>>
    /\ transcript' = Append(transcript, Head(pending))
    /\ context' = Append(context, Head(pending))
    /\ pending' = Tail(pending)
    /\ UNCHANGED <<batchVars, aborted, queueVars, pc, hasMoreToolCalls,
                   skipInitialSteeringPoll, turn, toolTurns, isStreaming,
                   pendingToolCalls, orphans, submitted, gone>>

RequestResponse ==
    /\ pc = "inject"
    /\ pending = <<>>
    /\ pc' = "stream"
    /\ UNCHANGED <<batchVars, aborted, queueVars, context, pending,
                   hasMoreToolCalls, skipInitialSteeringPoll, turn, toolTurns,
                   stateVars, submitted, gone>>

(***************************************************************************)
(* streamAssistantResponse returns a message that asks for n tools.        *)
(***************************************************************************)
AnswerWith(n) ==
    /\ pc = "stream"
    /\ turn' = turn + 1
    /\ transcript' = Append(transcript, Assistant(turn + 1, n))
    /\ context' = Append(context, Assistant(turn + 1, n))
    /\ UNCHANGED <<aborted, queueVars, pending, skipInitialSteeringPoll,
                   isStreaming, orphans, submitted, gone>>

AnswerText ==
    /\ AnswerWith(0)
    /\ pc' = "turnEnd"
    /\ hasMoreToolCalls' = FALSE
    /\ UNCHANGED <<batchVars, toolTurns, pendingToolCalls>>

(***************************************************************************)
(* ... and asks for tools: executeToolCalls starts the first of them.      *)
(***************************************************************************)
AnswerToolCalls(n, g, seq) ==
    /\ toolTurns < MaxToolTurns
    /\ AnswerWith(n)
    /\ BeginBatch(n, g, seq)
    /\ pc' = "tools"
    /\ toolTurns' = toolTurns + 1
    /\ pendingToolCalls' = pendingToolCalls \cup {<<turn + 1, 1>>}
    /\ UNCHANGED hasMoreToolCalls

(***************************************************************************)
(* stopReason "error" or "aborted": the run ends without another poll.     *)
(***************************************************************************)
AnswerErrorOrAborted ==
    /\ AnswerWith(0)
    /\ pc' = "errorTurnEnd"
    /\ UNCHANGED <<batchVars, hasMoreToolCalls, toolTurns, pendingToolCalls>>

(***************************************************************************)
(* A step of the tool batch.  processEvents keeps pendingToolCalls by the  *)
(* tool_execution events, and adds emitted results to the transcript.      *)
(***************************************************************************)
NowStarted == {i \in Calls : status[i] = "waiting" /\ status'[i] = "started"}
NowEnded == {i \in Calls : status[i] # "ended" /\ status'[i] = "ended"}
CallIds(S) == {<<turn, i>> : i \in S}

ReduceToolEvents ==
    /\ pendingToolCalls' = (pendingToolCalls \cup CallIds(NowStarted))
                                \ CallIds(NowEnded)
    /\ transcript' = IF emitted' = emitted THEN transcript
                     ELSE Append(transcript, ToolResult(turn, Last(emitted')))

ToolStep ==
    /\ pc = "tools"
    /\ \/ \E t \in BOOLEAN : PrepareImmediate(t)
       \/ PrepareRunnable
       \/ StartNextCall
       \/ RunGroup
       \/ \E i \in Calls, t \in BOOLEAN : FinishTool(i, t)
       \/ EmitResult
       \/ NextGroup
       \/ FinishBatch
    /\ ReduceToolEvents
    /\ UNCHANGED <<queueVars, loopVars, isStreaming, orphans, submitted, gone>>

(***************************************************************************)
(* executeToolCalls has returned: its results join the context.            *)
(***************************************************************************)
ToolsDone ==
    /\ pc = "tools"
    /\ stage = "done"
    /\ context' = context \o [k \in 1..Len(emitted) |-> ToolResult(turn, emitted[k])]
    /\ hasMoreToolCalls' = ~terminate
    /\ pc' = "turnEnd"
    /\ ForgetBatch
    /\ UNCHANGED <<aborted, queueVars, pending, turn, toolTurns,
                   skipInitialSteeringPoll, stateVars, submitted, gone>>

(***************************************************************************)
(* turn_end; an error answer or shouldStopAfterTurn ends the run before    *)
(* any poll, else the steering queue decides with hasMoreToolCalls whether *)
(* another turn follows.                                                   *)
(***************************************************************************)
StopAfterTurn ==
    /\ pc \in {"turnEnd", "errorTurnEnd"}
    /\ pc' = "agentEnd"
    /\ UNCHANGED <<batchVars, aborted, queueVars, context, pending, turn,
                   toolTurns, hasMoreToolCalls, skipInitialSteeringPoll,
                   stateVars, submitted, gone>>

PollSteering ==
    /\ pc = "turnEnd"
    /\ pending' = Drained(steeringQueue, steeringMode)
    /\ steeringQueue' = Left(steeringQueue, steeringMode)
    /\ pc' = IF hasMoreToolCalls \/ pending' # <<>> THEN "inject" ELSE "followUps"
    /\ UNCHANGED <<batchVars, aborted, followUpQueue, steeringMode, turn,
                   followUpMode, context, hasMoreToolCalls, toolTurns,
                   skipInitialSteeringPoll, stateVars, submitted, gone>>

PollFollowUps ==
    /\ pc = "followUps"
    /\ pending' = Drained(followUpQueue, followUpMode)
    /\ followUpQueue' = Left(followUpQueue, followUpMode)
    /\ IF pending' # <<>> THEN pc' = "inject" /\ hasMoreToolCalls' = TRUE
                          ELSE pc' = "agentEnd" /\ UNCHANGED hasMoreToolCalls
    /\ UNCHANGED <<batchVars, aborted, steeringQueue, steeringMode, turn,
                   followUpMode, context, skipInitialSteeringPoll, toolTurns,
                   stateVars, submitted, gone>>

(***************************************************************************)
(* agent_end and its listeners are through: finishRun; the loop's locals   *)
(* and the run's abort signal are gone.                                    *)
(***************************************************************************)
FinishRun ==
    /\ isStreaming' = FALSE
    /\ pendingToolCalls' = {}
    /\ pc' = "idle"
    /\ ForgetBatch /\ aborted' = FALSE
    /\ context' = <<>> /\ pending' = <<>>
    /\ hasMoreToolCalls' = FALSE /\ skipInitialSteeringPoll' = FALSE
    /\ UNCHANGED <<queueVars, toolTurns, orphans, submitted, gone>>

AgentEnd ==
    /\ pc = "agentEnd"
    /\ FinishRun
    /\ UNCHANGED <<turn, transcript>>

-----------------------------------------------------------------------------
(***************************************************************************)
(* A listener or hook throws inside the loop: the run is unwound to        *)
(* handleRunFailure.  What the loop held in flight is dropped; tools that  *)
(* are running go on.  arrived: the throwing listener was at message_end,  *)
(* so the message is already in the transcript.                            *)
(***************************************************************************)
Unwind ==
    /\ pc' = "failure"
    /\ pending' = <<>> /\ context' = <<>>
    /\ gone' = gone \cup (Range(pending) \ Range(transcript'))
    /\ UNCHANGED <<queueVars, hasMoreToolCalls, toolTurns,
                   skipInitialSteeringPoll, isStreaming, submitted>>

ThrowAtMessage(arrived) ==
    /\ pc \in {"prompts", "inject"}
    /\ arrived => pending # <<>>
    /\ transcript' = IF arrived THEN Append(transcript, Head(pending))
                                ELSE transcript
    /\ Unwind
    /\ UNCHANGED <<batchVars, aborted, turn, pendingToolCalls, orphans>>

ThrowInStream(arrived) ==
    /\ pc = "stream"
    /\ turn' = IF arrived THEN turn + 1 ELSE turn
    /\ transcript' = IF arrived THEN Append(transcript, Assistant(turn + 1, 0))
                                ELSE transcript
    /\ Unwind
    /\ UNCHANGED <<batchVars, aborted, pendingToolCalls, orphans>>

ThrowInTools ==
    /\ pc = "tools"
    /\ Throw
    /\ ReduceToolEvents
    /\ orphans' = orphans \cup CallIds({i \in Calls : status'[i] = "running"})
    /\ Unwind
    /\ UNCHANGED turn

ThrowAtTurnOrAgentEnd ==
    /\ pc \in {"turnEnd", "errorTurnEnd", "agentEnd"}
    /\ UNCHANGED <<batchVars, aborted, turn, transcript, pendingToolCalls,
                   orphans>>
    /\ Unwind

(***************************************************************************)
(* handleRunFailure adds an assistant message with the error and emits     *)
(* turn_end and agent_end; a listener that throws again (before or after   *)
(* the message counts) is not caught, but the finally still finishes.      *)
(***************************************************************************)
HandleRunFailure(arrived) ==
    /\ pc = "failure"
    /\ turn' = IF arrived THEN turn + 1 ELSE turn
    /\ transcript' = IF arrived THEN Append(transcript, Assistant(turn + 1, 0))
                                ELSE transcript
    /\ FinishRun

(***************************************************************************)
(* A tool that outlived its run ends; its tool_execution_end is reduced    *)
(* before processEvents finds no run to report to.                         *)
(***************************************************************************)
OrphanToolEnds(o) ==
    /\ o \in orphans
    /\ orphans' = orphans \ {o}
    /\ pendingToolCalls' = pendingToolCalls \ {o}
    /\ UNCHANGED <<batchVars, aborted, queueVars, loopVars, transcript,
                   isStreaming, submitted, gone>>

-----------------------------------------------------------------------------
(***************************************************************************)
(* Calls the application makes while a run is active or idle.              *)
(***************************************************************************)
Steer ==
    /\ submitted < MaxMessages
    /\ steeringQueue' = Append(steeringQueue, NewMessage("steer"))
    /\ submitted' = submitted + 1
    /\ UNCHANGED <<batchVars, aborted, followUpQueue, steeringMode,
                   followUpMode, loopVars, stateVars, gone>>

FollowUp ==
    /\ submitted < MaxMessages
    /\ followUpQueue' = Append(followUpQueue, NewMessage("followUp"))
    /\ submitted' = submitted + 1
    /\ UNCHANGED <<batchVars, aborted, steeringQueue, steeringMode,
                   followUpMode, loopVars, stateVars, gone>>

(***************************************************************************)
(* clearSteeringQueue, clearFollowUpQueue, clearAllQueues.                 *)
(***************************************************************************)
ClearQueues(steers, follows) ==
    /\ steers \/ follows
    /\ steeringQueue' = IF steers THEN <<>> ELSE steeringQueue
    /\ followUpQueue' = IF follows THEN <<>> ELSE followUpQueue
    /\ gone' = gone \cup (IF steers THEN Range(steeringQueue) ELSE {})
                    \cup (IF follows THEN Range(followUpQueue) ELSE {})
    /\ UNCHANGED <<batchVars, aborted, steeringMode, followUpMode, loopVars,
                   stateVars, submitted>>

SetSteeringMode(mode) ==
    /\ steeringMode' = mode
    /\ UNCHANGED <<batchVars, aborted, steeringQueue, followUpQueue,
                   followUpMode, loopVars, stateVars, submitted, gone>>

SetFollowUpMode(mode) ==
    /\ followUpMode' = mode
    /\ UNCHANGED <<batchVars, aborted, steeringQueue, followUpQueue,
                   steeringMode, loopVars, stateVars, submitted, gone>>

AbortRun ==
    /\ Active
    /\ ~aborted
    /\ aborted' = TRUE
    /\ UNCHANGED <<batchVars, queueVars, loopVars, stateVars, submitted, gone>>

(***************************************************************************)
(* reset(): the active run, if any, is not stopped.                        *)
(***************************************************************************)
Reset ==
    /\ transcript' = <<>>
    /\ isStreaming' = FALSE
    /\ pendingToolCalls' = {}
    /\ steeringQueue' = <<>>
    /\ followUpQueue' = <<>>
    /\ gone' = gone \cup UserMessagesIn(transcript) \cup Range(steeringQueue)
                    \cup Range(followUpQueue)
    /\ UNCHANGED <<batchVars, aborted, steeringMode, followUpMode, loopVars,
                   orphans, submitted>>

-----------------------------------------------------------------------------
LoopStep ==
    \/ AnnouncePrompt \/ InitialSteeringPoll \/ InjectMessage \/ RequestResponse
    \/ AnswerText \/ AnswerErrorOrAborted
    \/ \E n \in 1..MaxCalls, seq \in BOOLEAN :
          \E g \in Plans(n) : AnswerToolCalls(n, g, seq)
    \/ ToolStep \/ ToolsDone
    \/ StopAfterTurn \/ PollSteering \/ PollFollowUps
    \/ AgentEnd
    \/ \E arrived \in BOOLEAN : HandleRunFailure(arrived)

ThrowStep ==
    \/ \E arrived \in BOOLEAN : ThrowAtMessage(arrived) \/ ThrowInStream(arrived)
    \/ ThrowInTools
    \/ ThrowAtTurnOrAgentEnd

OrphanStep == \E o \in orphans : OrphanToolEnds(o)

ApplicationCall ==
    \/ Prompt \/ ContinueWithSteering \/ ContinueWithFollowUps
    \/ ContinueTranscript
    \/ Steer \/ FollowUp \/ AbortRun \/ Reset
    \/ \E s, f \in BOOLEAN : ClearQueues(s, f)
    \/ \E mode \in Modes : SetSteeringMode(mode) \/ SetFollowUpMode(mode)

Next == LoopStep \/ ThrowStep \/ OrphanStep \/ ApplicationCall

(***************************************************************************)
(* The loop's steps and the tools' ends are driven by the event loop: none *)
(* that can be taken is delayed for ever.  The application owes nothing.   *)
(***************************************************************************)
Fairness == WF_vars(LoopStep) /\ WF_vars(OrphanStep)

Spec == Init /\ [][Next]_vars /\ Fairness

-----------------------------------------------------------------------------
(***************************************************************************)
(* Properties.                                                             *)
(***************************************************************************)
Entries ==
    UserMessages
        \cup [role : {"assistant"}, id : Nat, calls : 0..MaxCalls]
        \cup [role : {"toolResult"}, id : Nat, call : 1..MaxCalls]

\* The model is asked with everything the application can see: when a request
\* is made, the transcript is the end of the loop's own context (all of it,
\* unless reset() emptied the transcript under the run).
ModelSeesTranscript == pc = "stream" => IsSuffix(transcript, context)

\* Every submitted message is in exactly one place: a queue, the loop, the
\* transcript, or gone by a clear, a reset or the failure of its run.
Places(m) ==
    Cardinality({k \in 1..Len(steeringQueue) : steeringQueue[k] = m})
    + Cardinality({k \in 1..Len(followUpQueue) : followUpQueue[k] = m})
    + Cardinality({k \in 1..Len(pending) : pending[k] = m})
    + Cardinality({k \in 1..Len(transcript) : transcript[k] = m})
    + (IF m \in gone THEN 1 ELSE 0)

MessagesConserved ==
    \A id \in 1..submitted :
        \E kind \in Kinds :
            Places([role |-> "user", kind |-> kind, id |-> id]) = 1

\* Providers reject a tool result that does not follow its call: each result
\* in the transcript comes right after the assistant message that asked for it
\* or after the result of the call before it.
ResultsFollowTheirCall ==
    \A i \in 2..Len(transcript) :
        transcript[i].role = "toolResult" =>
            LET before == transcript[i - 1] IN
            /\ before.id = transcript[i].id
            /\ \/ before.role = "assistant" /\ transcript[i].call = 1
               \/ before.role = "toolResult" /\ transcript[i].call = before.call + 1

\* Every run ends (if the model, the tools and the listeners answer): nothing
\* the application does can keep waitForIdle() pending for ever.
RunSettles == Active ~> ~Active

=============================================================================
