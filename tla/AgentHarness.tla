----------------------------- MODULE AgentHarness -----------------------------
(***************************************************************************)
(* AgentHarness (packages/agent/src/harness/agent-harness.ts): operation   *)
(* phases, runs of the agent loop, session writes queued while an          *)
(* operation is busy, the three message queues, and abort.                 *)
(*                                                                         *)
(* A run is one call of prompt, skill or promptFromTemplate.  The harness  *)
(* becomes "idle" before the agent_end and settled listeners of a run have *)
(* run and before its last flush, so the next operation may start, from    *)
(* such a listener or beside it, while the run before it still unwinds.    *)
(*                                                                         *)
(* Two things can go wrong there in the code.  Flushes of two runs may be  *)
(* under way at once; and a run that fails after its agent_end sets the    *)
(* phase to idle again, and reports its failure, in the middle of another  *)
(* operation.  The history variables say which writes and which runs that  *)
(* happened to; of all others the properties hold.                         *)
(***************************************************************************)
EXTENDS Integers, Sequences, FiniteSets, SequencesExt, PendingMessageQueue

CONSTANTS
    MaxRuns,       \* bound: runs started
    MaxStructural, \* bound: compactions and tree navigations started
    MaxTurns,      \* bound: turns of a run that the model's tool calls extend
    MaxWrites,     \* bound: session writes the application requests
    MaxQueued,     \* bound: messages queued by steer, followUp, nextTurn
    MaxRequests    \* bound: structural operations, writes, messages and aborts together

ASSUME HarnessAssumption ==
    /\ MaxRuns \in Nat /\ MaxTurns \in Nat /\ MaxWrites \in Nat /\ MaxQueued \in Nat
    /\ MaxStructural \in Nat /\ MaxRequests \in Nat

Runs == 1..MaxRuns
None == 0

VARIABLES
    phase,               \* "idle", "turn" or "structural" (compact, navigateTree)
    pendingSessionWrites,
    session,             \* what the session holds, in the order appended
    steerQueue, followUpQueue, nextTurnQueue,
    runAbortController,  \* the run whose controller is held, or None
    runPromise,          \* the run whose promise is held, or None
    pc,                  \* where each run is
    aborted,             \* signal.aborted of each run
    inFlight,            \* messages each run has taken and not yet saved
    writing,             \* the pending write each run's flush is appending
    recovering,          \* the run is in emitRunFailure
    rejected,            \* the run's prompt() will reject
    turns,               \* turns taken by each run
    compacting,          \* structural operations in progress
    writes, queued,      \* counts of requested writes and queued messages
    structural, aborts   \* counts of structural operations and aborts

(***************************************************************************)
(* History: no action of the harness depends on these.                     *)
(***************************************************************************)
VARIABLES
    crowded,             \* flushes that were under way at once have not all ended
    exposed,             \* ids of the writes that were pending meanwhile
    late,                \* runs in progress that failed after their agent_end
    disturbed,           \* such a failure met other operations still in progress
    mixed                \* runs that it may have cost their phase or their place

queues == <<steerQueue, followUpQueue, nextTurnQueue>>
perRun == <<pc, aborted, inFlight, writing, recovering, rejected, turns>>
counts == <<writes, queued, structural, aborts, compacting>>
flushHistory == <<crowded, exposed>>
phaseHistory == <<late, disturbed, mixed>>
history == <<flushHistory, phaseHistory>>
vars == <<phase, pendingSessionWrites, session, queues, runAbortController,
          runPromise, perRun, counts, history>>

Locations == {"unused", "starting", "hook", "prompts", "loop", "turnEnd", "poll",
              "agentEnd", "settling", "failure", "finally", "returned"}

InProgress(r) == pc[r] \notin {"unused", "returned"}

Write(id, busy) == [kind |-> "write", id |-> id, busy |-> busy]
Queued(id) == [kind |-> "queued", id |-> id]
RunMessage(r, n) == [kind |-> "message", run |-> r, n |-> n]
NoWrite == [kind |-> "none"]

Init ==
    /\ phase = "idle"
    /\ pendingSessionWrites = <<>>
    /\ session = <<>>
    /\ steerQueue = <<>> /\ followUpQueue = <<>> /\ nextTurnQueue = <<>>
    /\ runAbortController = None /\ runPromise = None
    /\ pc = [r \in Runs |-> "unused"]
    /\ aborted = [r \in Runs |-> FALSE]
    /\ inFlight = [r \in Runs |-> <<>>]
    /\ writing = [r \in Runs |-> NoWrite]
    /\ recovering = [r \in Runs |-> FALSE]
    /\ rejected = [r \in Runs |-> FALSE]
    /\ turns = [r \in Runs |-> 0]
    /\ writes = 0 /\ queued = 0 /\ structural = 0 /\ aborts = 0
    /\ compacting = 0
    /\ crowded = FALSE /\ exposed = {}
    /\ late = {} /\ disturbed = FALSE /\ mixed = {}

-----------------------------------------------------------------------------
(* Operations that do not ask whether the harness is busy. *)
MayStartAlways == TRUE

(***************************************************************************)
(* Structural operations require an idle harness and set the phase before  *)
(* their first await.                                                      *)
(***************************************************************************)
MayStart == phase = "idle"

(* The bound on what the application asks for besides its runs. *)
MayRequest == writes + queued + structural + aborts < MaxRequests

(***************************************************************************)
(* The history of the phase.  A run that fails after its agent_end is late *)
(* and mixes with the runs started since; while it meets other operations, *)
(* and until all of them have ended, every run in progress is mixed.       *)
(***************************************************************************)
RunsInProgress == {r \in Runs : InProgress(r)}

OthersInProgress(r) == compacting > 0 \/ RunsInProgress \ {r} # {}

StartedSince(r) == {q \in Runs : q >= r /\ pc[q] # "unused"}

Mixing(runs) == IF disturbed' THEN mixed \cup runs ELSE mixed

Prompt(r) ==
    /\ MayStart
    /\ pc[r] = "unused" /\ \A q \in Runs : q < r => pc[q] # "unused"
    /\ phase' = "turn"
    /\ runPromise' = r
    /\ pc' = [pc EXCEPT ![r] = "starting"]
    /\ disturbed' = (disturbed \/ late # {})
    /\ mixed' = Mixing(RunsInProgress \cup {r})
    /\ UNCHANGED <<pendingSessionWrites, session, queues, runAbortController,
                   aborted, inFlight, writing, recovering, rejected, turns,
                   counts, flushHistory, late>>

(***************************************************************************)
(* executeTurn takes the nextTurn messages, puts the prompt after them ... *)
(***************************************************************************)
TakeNextTurnMessages(r) ==
    /\ pc[r] = "starting"
    /\ inFlight' = [inFlight EXCEPT ![r] = nextTurnQueue \o <<RunMessage(r, 0)>>]
    /\ nextTurnQueue' = <<>>
    /\ pc' = [pc EXCEPT ![r] = "hook"]
    /\ UNCHANGED <<phase, pendingSessionWrites, session, steerQueue,
                   followUpQueue, runAbortController, runPromise, aborted,
                   writing, recovering, rejected, turns, counts, history>>

(***************************************************************************)
(* ... runs before_agent_start, and only then installs the controller.     *)
(***************************************************************************)
StartLoop(r) ==
    /\ pc[r] = "hook"
    /\ runAbortController' = r
    /\ pc' = [pc EXCEPT ![r] = "prompts"]
    /\ UNCHANGED <<phase, pendingSessionWrites, session, queues, runPromise,
                   aborted, inFlight, writing, recovering, rejected, turns,
                   counts, history>>

(* A failed start that leaves the harness busy. *)
StartFailsStaysBusy(r) ==
    /\ pc[r] \in {"starting", "hook"}
    /\ runPromise' = None
    /\ pc' = [pc EXCEPT ![r] = "returned"]
    /\ inFlight' = [inFlight EXCEPT ![r] = <<>>]
    /\ disturbed' = (disturbed /\ OthersInProgress(r))
    /\ UNCHANGED <<phase, pendingSessionWrites, session, queues,
                   runAbortController, aborted, writing, recovering, rejected,
                   turns, counts, flushHistory, late, mixed>>

(***************************************************************************)
(* Before the loop an error (createTurnState, an unknown skill or          *)
(* template, a queue_update listener, before_agent_start) goes straight to *)
(* prompt's catch and finally.  Only the queue_update error puts the       *)
(* nextTurn messages back, and that is before they count as taken.         *)
(***************************************************************************)
StartFails(r) ==
    /\ pc[r] \in {"starting", "hook"}
    /\ phase' = "idle"
    /\ runPromise' = None
    /\ pc' = [pc EXCEPT ![r] = "returned"]
    /\ inFlight' = [inFlight EXCEPT ![r] = <<>>]
    /\ disturbed' = (disturbed /\ OthersInProgress(r))
    /\ UNCHANGED <<pendingSessionWrites, session, queues, runAbortController,
                   aborted, writing, recovering, rejected, turns, counts,
                   flushHistory, late, mixed>>

-----------------------------------------------------------------------------
(***************************************************************************)
(* The loop, as its events reach handleAgentEvent.  message_end saves the  *)
(* message before its listeners run.                                       *)
(***************************************************************************)
SaveMessage(r) ==
    /\ pc[r] \in {"prompts", "loop"}
    /\ inFlight[r] # <<>>
    /\ session' = Append(session, Head(inFlight[r]))
    /\ inFlight' = [inFlight EXCEPT ![r] = Tail(@)]
    /\ UNCHANGED <<phase, pendingSessionWrites, queues, runAbortController,
                   runPromise, pc, aborted, writing, recovering, rejected,
                   turns, counts, history>>

InitialSteeringPoll(r) ==
    /\ pc[r] = "prompts"
    /\ inFlight[r] = <<>>
    /\ inFlight' = [inFlight EXCEPT ![r] = Drained(steerQueue, "one-at-a-time")]
    /\ steerQueue' = Left(steerQueue, "one-at-a-time")
    /\ pc' = [pc EXCEPT ![r] = "loop"]
    /\ UNCHANGED <<phase, pendingSessionWrites, session, followUpQueue,
                   nextTurnQueue, runAbortController, runPromise, aborted,
                   writing, recovering, rejected, turns, counts, history>>

Answer(r) ==
    /\ pc[r] = "loop"
    /\ inFlight[r] = <<>>
    /\ turns' = [turns EXCEPT ![r] = @ + 1]
    /\ session' = Append(session, RunMessage(r, turns[r] + 1))
    /\ pc' = [pc EXCEPT ![r] = "turnEnd"]
    /\ UNCHANGED <<phase, pendingSessionWrites, queues, runAbortController,
                   runPromise, aborted, inFlight, writing, recovering,
                   rejected, counts, history>>

(***************************************************************************)
(* flushPendingSessionWrites: look at the oldest write, append it to the   *)
(* session (an await), then shift the array, whatever is first in it now.  *)
(***************************************************************************)
FlushPoints == {"turnEnd", "poll", "agentEnd", "finally"}

PendingIds == {w.id : w \in Range(pendingSessionWrites)}

(* A flush that takes the write out before it is appended. *)
FlushPeekShifts(r) ==
    /\ pc[r] \in FlushPoints
    /\ writing[r] = NoWrite
    /\ pendingSessionWrites # <<>>
    /\ writing' = [writing EXCEPT ![r] = Head(pendingSessionWrites)]
    /\ pendingSessionWrites' = Tail(pendingSessionWrites)
    /\ crowded' = (crowded \/ \E q \in Runs : writing[q] # NoWrite)
    /\ exposed' = IF crowded' THEN exposed \cup PendingIds ELSE exposed
    /\ UNCHANGED <<phase, session, queues, runAbortController, runPromise, pc,
                   aborted, inFlight, recovering, rejected, turns, counts,
                   phaseHistory>>

(* A flush that starts with the newest write. *)
FlushPeekNewest(r) ==
    /\ pc[r] \in FlushPoints
    /\ writing[r] = NoWrite
    /\ pendingSessionWrites # <<>>
    /\ writing' = [writing EXCEPT ![r] = Last(pendingSessionWrites)]
    /\ crowded' = (crowded \/ \E q \in Runs : writing[q] # NoWrite)
    /\ exposed' = IF crowded' THEN exposed \cup PendingIds ELSE exposed
    /\ UNCHANGED <<phase, pendingSessionWrites, session, queues,
                   runAbortController, runPromise, pc, aborted, inFlight,
                   recovering, rejected, turns, counts, phaseHistory>>

FlushPeek(r) ==
    /\ pc[r] \in FlushPoints
    /\ writing[r] = NoWrite
    /\ pendingSessionWrites # <<>>
    /\ writing' = [writing EXCEPT ![r] = Head(pendingSessionWrites)]
    /\ crowded' = (crowded \/ \E q \in Runs : writing[q] # NoWrite)
    /\ exposed' = IF crowded' THEN exposed \cup PendingIds ELSE exposed
    /\ UNCHANGED <<phase, pendingSessionWrites, session, queues,
                   runAbortController, runPromise, pc, aborted, inFlight,
                   recovering, rejected, turns, counts, phaseHistory>>

FlushAppend(r) ==
    /\ writing[r] # NoWrite
    /\ session' = Append(session, writing[r])
    /\ pendingSessionWrites' =
          IF pendingSessionWrites = <<>> THEN <<>> ELSE Tail(pendingSessionWrites)
    /\ writing' = [writing EXCEPT ![r] = NoWrite]
    /\ crowded' = (crowded /\ \E q \in Runs \ {r} : writing[q] # NoWrite)
    /\ UNCHANGED <<phase, queues, runAbortController, runPromise, pc, aborted,
                   inFlight, recovering, rejected, turns, counts,
                   exposed, phaseHistory>>

Flushed(r) == writing[r] = NoWrite /\ pendingSessionWrites = <<>>

TurnEnd(r) ==
    /\ pc[r] = "turnEnd"
    /\ Flushed(r)
    /\ pc' = [pc EXCEPT ![r] = IF recovering[r] THEN "agentEnd" ELSE "poll"]
    /\ UNCHANGED <<phase, pendingSessionWrites, session, queues,
                   runAbortController, runPromise, aborted, inFlight, writing,
                   recovering, rejected, turns, counts, history>>

(***************************************************************************)
(* After prepareNextTurn the run takes steering messages, goes on because  *)
(* of tool calls, takes follow-ups, or (also on an error answer) ends.     *)
(***************************************************************************)
PollSteering(r) ==
    /\ pc[r] = "poll"
    /\ Flushed(r)
    /\ steerQueue # <<>> \/ turns[r] < MaxTurns
    /\ inFlight' = [inFlight EXCEPT ![r] = Drained(steerQueue, "one-at-a-time")]
    /\ steerQueue' = Left(steerQueue, "one-at-a-time")
    /\ pc' = [pc EXCEPT ![r] = "loop"]
    /\ UNCHANGED <<phase, pendingSessionWrites, session, followUpQueue,
                   nextTurnQueue, runAbortController, runPromise, aborted,
                   writing, recovering, rejected, turns, counts, history>>

PollFollowUps(r) ==
    /\ pc[r] = "poll"
    /\ Flushed(r)
    /\ steerQueue = <<>> /\ followUpQueue # <<>>
    /\ inFlight' = [inFlight EXCEPT ![r] = Drained(followUpQueue, "one-at-a-time")]
    /\ followUpQueue' = Left(followUpQueue, "one-at-a-time")
    /\ pc' = [pc EXCEPT ![r] = "loop"]
    /\ UNCHANGED <<phase, pendingSessionWrites, session, steerQueue,
                   nextTurnQueue, runAbortController, runPromise, aborted,
                   writing, recovering, rejected, turns, counts, history>>

EndLoop(r) ==
    /\ pc[r] = "poll"
    /\ Flushed(r)
    /\ pc' = [pc EXCEPT ![r] = "agentEnd"]
    /\ UNCHANGED <<phase, pendingSessionWrites, session, queues,
                   runAbortController, runPromise, aborted, inFlight, writing,
                   recovering, rejected, turns, counts, history>>

(***************************************************************************)
(* agent_end: flush, become idle, then run the agent_end and settled       *)
(* listeners.                                                              *)
(***************************************************************************)
AgentEnd(r) ==
    /\ pc[r] = "agentEnd"
    /\ Flushed(r)
    /\ phase' = "idle"
    /\ pc' = [pc EXCEPT ![r] = "settling"]
    /\ UNCHANGED <<pendingSessionWrites, session, queues, runAbortController,
                   runPromise, aborted, inFlight, writing, recovering,
                   rejected, turns, counts, history>>

Settled(r) ==
    /\ pc[r] = "settling"
    /\ pc' = [pc EXCEPT ![r] = "finally"]
    /\ UNCHANGED <<phase, pendingSessionWrites, session, queues,
                   runAbortController, runPromise, aborted, inFlight, writing,
                   recovering, rejected, turns, counts, history>>

(***************************************************************************)
(* A listener, a hook or the session throws inside the run: the loop is    *)
(* left for emitRunFailure; an error in there rejects the prompt.  A write *)
(* whose append failed stays first in the array.                           *)
(***************************************************************************)
Throws(r) ==
    /\ \/ pc[r] \in {"prompts", "loop", "poll", "settling", "failure"}
       \/ pc[r] = "turnEnd" /\ Flushed(r)
       \/ pc[r] \in {"turnEnd", "agentEnd"} /\ writing[r] # NoWrite
    /\ pc' = [pc EXCEPT ![r] = IF recovering[r] THEN "finally" ELSE "failure"]
    /\ rejected' = [rejected EXCEPT ![r] = recovering[r]]
    /\ recovering' = [recovering EXCEPT ![r] = TRUE]
    /\ inFlight' = [inFlight EXCEPT ![r] = <<>>]
    /\ writing' = [writing EXCEPT ![r] = NoWrite]
    /\ crowded' = (crowded /\ \E q \in Runs \ {r} : writing[q] # NoWrite)
    /\ IF pc[r] = "settling"
         THEN /\ late' = late \cup {r}
              /\ disturbed' = (disturbed \/ OthersInProgress(r))
              /\ mixed' = Mixing(RunsInProgress) \cup StartedSince(r)
         ELSE UNCHANGED phaseHistory
    /\ UNCHANGED <<phase, pendingSessionWrites, session, queues,
                   runAbortController, runPromise, aborted, turns, counts,
                   exposed>>

EmitRunFailure(r) ==
    /\ pc[r] = "failure"
    /\ session' = Append(session, RunMessage(r, turns[r] + 1))
    /\ turns' = [turns EXCEPT ![r] = @ + 1]
    /\ pc' = [pc EXCEPT ![r] = "turnEnd"]
    /\ UNCHANGED <<phase, pendingSessionWrites, queues, runAbortController,
                   runPromise, aborted, inFlight, writing, recovering,
                   rejected, counts, history>>

(* A prompt that sets the phase in its finally instead of its catch. *)
PhaseAfterAlways(r, error) == "idle"

PhaseAfter(r, error) == IF error \/ rejected[r] THEN "idle" ELSE phase

(***************************************************************************)
(* executeTurn's finally (flush, drop the controller), then prompt's: the  *)
(* run promise is dropped, after an error the phase is set to idle.  The   *)
(* run's locals are gone.                                                  *)
(***************************************************************************)
Return(r, error) ==
    /\ pc[r] = "finally"
    /\ IF error THEN writing[r] # NoWrite ELSE Flushed(r)
    /\ runAbortController' = None
    /\ phase' = PhaseAfter(r, error)
    /\ runPromise' = None
    /\ writing' = [writing EXCEPT ![r] = NoWrite]
    /\ recovering' = [recovering EXCEPT ![r] = FALSE]
    /\ rejected' = [rejected EXCEPT ![r] = FALSE]
    /\ aborted' = [aborted EXCEPT ![r] = FALSE]
    /\ pc' = [pc EXCEPT ![r] = "returned"]
    /\ crowded' = (crowded /\ \E q \in Runs \ {r} : writing[q] # NoWrite)
    /\ late' = late \ {r}
    /\ disturbed' = (OthersInProgress(r) /\ (disturbed \/ (error /\ ~rejected[r])))
    /\ mixed' = Mixing(RunsInProgress)
    /\ UNCHANGED <<pendingSessionWrites, session, queues, inFlight, turns,
                   counts, exposed>>

-----------------------------------------------------------------------------
(***************************************************************************)
(* compact and navigateTree: they end, with or without an entry in the     *)
(* session, in a finally that restores the phase and nothing else.         *)
(***************************************************************************)
StructuralBegin ==
    /\ MayStart
    /\ structural < MaxStructural /\ MayRequest
    /\ structural' = structural + 1
    /\ compacting' = compacting + 1
    /\ phase' = "structural"
    /\ disturbed' = (disturbed \/ late # {})
    /\ mixed' = Mixing(RunsInProgress)
    /\ UNCHANGED <<pendingSessionWrites, session, queues, runAbortController,
                   runPromise, perRun, writes, queued, aborts, flushHistory, late>>

StructuralEnd(ok) ==
    /\ compacting > 0
    /\ compacting' = compacting - 1
    /\ phase' = "idle"
    /\ session' = IF ok THEN Append(session, [kind |-> "summary"]) ELSE session
    /\ disturbed' = (disturbed /\ (compacting > 1 \/ RunsInProgress # {}))
    /\ UNCHANGED <<pendingSessionWrites, queues, runAbortController,
                   runPromise, perRun, writes, queued, aborts, structural,
                   flushHistory, late, mixed>>

(***************************************************************************)
(* appendMessage, setModel, setThinkingLevel, setTools, setActiveTools:    *)
(* written at once when idle, otherwise queued.                            *)
(***************************************************************************)
RequestWrite ==
    /\ writes < MaxWrites /\ MayRequest
    /\ writes' = writes + 1
    /\ IF phase = "idle"
         THEN /\ session' = Append(session, Write(writes + 1, FALSE))
              /\ UNCHANGED <<pendingSessionWrites, exposed>>
         ELSE /\ pendingSessionWrites' =
                    Append(pendingSessionWrites, Write(writes + 1, TRUE))
              /\ exposed' = IF crowded THEN exposed \cup {writes + 1} ELSE exposed
              /\ UNCHANGED session
    /\ UNCHANGED <<phase, queues, runAbortController, runPromise, perRun,
                   queued, structural, aborts, compacting, crowded,
                   phaseHistory>>

Enqueue(q) ==
    /\ queued < MaxQueued /\ MayRequest
    /\ queued' = queued + 1
    /\ q' = Append(q, Queued(queued + 1))

Steer ==
    /\ phase # "idle"
    /\ Enqueue(steerQueue)
    /\ UNCHANGED <<phase, pendingSessionWrites, session, followUpQueue,
                   nextTurnQueue, runAbortController, runPromise, perRun,
                   writes, structural, aborts, compacting, history>>

FollowUp ==
    /\ phase # "idle"
    /\ Enqueue(followUpQueue)
    /\ UNCHANGED <<phase, pendingSessionWrites, session, steerQueue,
                   nextTurnQueue, runAbortController, runPromise, perRun,
                   writes, structural, aborts, compacting, history>>

NextTurn ==
    /\ Enqueue(nextTurnQueue)
    /\ UNCHANGED <<phase, pendingSessionWrites, session, steerQueue,
                   followUpQueue, runAbortController, runPromise, perRun,
                   writes, structural, aborts, compacting, history>>

(***************************************************************************)
(* abort(): the steering and follow-up queues are emptied and the          *)
(* controller that is installed, if one is, signals.                       *)
(***************************************************************************)
Abort ==
    /\ MayRequest
    /\ aborts' = aborts + 1
    /\ steerQueue' = <<>> /\ followUpQueue' = <<>>
    /\ aborted' = [r \in Runs |-> aborted[r] \/ r = runAbortController]
    /\ UNCHANGED <<phase, pendingSessionWrites, session, nextTurnQueue,
                   runAbortController, runPromise, pc, inFlight, writing,
                   recovering, rejected, turns, writes, queued, structural,
                   compacting, history>>

-----------------------------------------------------------------------------
RunStep(r) ==
    \/ TakeNextTurnMessages(r) \/ StartLoop(r)
    \/ SaveMessage(r) \/ InitialSteeringPoll(r) \/ Answer(r)
    \/ FlushPeek(r) \/ FlushAppend(r)
    \/ TurnEnd(r) \/ PollSteering(r) \/ PollFollowUps(r) \/ EndLoop(r)
    \/ AgentEnd(r) \/ Settled(r)
    \/ EmitRunFailure(r) \/ Return(r, FALSE)

RunFault(r) == StartFails(r) \/ Throws(r) \/ Return(r, TRUE)

StructuralStep == \E ok \in BOOLEAN : StructuralEnd(ok)

Application ==
    \/ \E r \in Runs : Prompt(r)
    \/ StructuralBegin
    \/ RequestWrite \/ Steer \/ FollowUp \/ NextTurn \/ Abort

Next == \/ \E r \in Runs : RunStep(r) \/ RunFault(r)
        \/ StructuralStep
        \/ Application

(***************************************************************************)
(* Runs and structural operations are driven by the event loop and by      *)
(* providers, tools and listeners that answer.                             *)
(***************************************************************************)
Fairness == (\A r \in Runs : WF_vars(RunStep(r))) /\ WF_vars(StructuralStep)

Spec == Init /\ [][Next]_vars /\ Fairness

-----------------------------------------------------------------------------
(***************************************************************************)
(* Properties.                                                             *)
(***************************************************************************)
Writes == [kind : {"write"}, id : 1..MaxWrites, busy : BOOLEAN]
QueuedMessages == [kind : {"queued"}, id : 1..MaxQueued]
RunMessages == [kind : {"message"}, run : Runs, n : Nat]
Messages == QueuedMessages \cup RunMessages

Occurrences(x, s) == Cardinality({k \in 1..Len(s) : s[k] = x})

\* docs/agent-harness.md:88 and :305: a session write is never lost and never
\* persisted twice, whatever throws and whichever operations overlap: it is
\* pending or in the session, once.  Excepted are the writes that were pending
\* while the flushes of two runs were under way at once: both append the first
\* of them and both shift, so one may be in the session twice and another be
\* dropped (agent-harness.ts:485-506, reached by way of :531).
EveryWriteKeptOnce ==
    \A id \in (1..writes) \ exposed :
        \E busy \in BOOLEAN :
            Occurrences(Write(id, busy), session \o pendingSessionWrites) = 1

\* docs/agent-harness.md:16: writes made while busy are flushed in order, also
\* by the runs of operations that overlap; only two writes that were both
\* pending while two flushes were under way at once may change places.
BusyWritesInOrder ==
    \A i, j \in 1..Len(session) :
        (/\ i < j
         /\ session[i].kind = "write" /\ session[j].kind = "write"
         /\ session[i].busy /\ session[j].busy
         /\ ~({session[i].id, session[j].id} \subseteq exposed))
            => session[i].id < session[j].id

\* No queued message reaches the session twice, by any mix of drains, runs
\* that fail and runs that follow.
QueuedAtMostOnce ==
    \A id \in 1..queued :
        Occurrences(Queued(id), session \o steerQueue \o followUpQueue \o nextTurnQueue)
        + Cardinality({r \in Runs : Queued(id) \in Range(inFlight[r])}) <= 1

\* The phase says "turn" from the start of a run to its agent_end and through
\* the report of its failure, and "structural" as long as a structural operation
\* goes on (docs/agent-harness.md:108: other operations are rejected as busy),
\* also when the operation was started while an earlier run still unwound and
\* that run ends meanwhile.  Excepted are operations that an earlier run's
\* failure after its agent_end met: the catch of its prompt and its second
\* agent_end set the phase to idle (agent-harness.ts:531, :638).
BeforeAgentEnd == {"starting", "hook", "prompts", "loop", "turnEnd", "poll",
                   "agentEnd", "failure"}
PhaseHeld ==
    /\ \A r \in Runs \ mixed : pc[r] \in BeforeAgentEnd => phase = "turn"
    /\ compacting > 0 /\ ~disturbed => phase = "structural"

\* The harness is never left busy by a run, or by a structural operation, that
\* is over, whatever fails and overlaps.
PhaseReleased ==
    /\ phase = "turn" => \E r \in Runs : InProgress(r)
    /\ phase = "structural" => compacting > 0

\* docs/agent-harness.md:9: the messages of a run are in the session in the
\* order of the run, and none comes after a message of a later run, also when
\* the later run was started while the earlier one unwound.  Runs change places
\* only where one of them failed after its agent_end: the failure is reported
\* behind what later runs have saved (agent-harness.ts:543-555).
TranscriptNotReordered ==
    \A i, j \in 1..Len(session) :
        (i < j /\ session[i].kind = "message" /\ session[j].kind = "message")
            => \/ session[i].run < session[j].run
               \/ session[i].run = session[j].run /\ session[i].n < session[j].n
               \/ session[i].run # session[j].run
                  /\ {session[i].run, session[j].run} \subseteq mixed

\* Every operation settles: from any point of it the harness becomes idle again
\* and the promise of its run resolves, also when listeners throw and writes
\* fail.
Quiet == phase = "idle" /\ \A r \in Runs : ~InProgress(r)

HarnessSettles == []<>Quiet

=============================================================================
