----------------------------- MODULE AgentSession -----------------------------
(***************************************************************************)
(* The session that owns an Agent (packages/coding-agent/src/core/         *)
(* agent-session.ts, AgentSession) and the front ends that feed it: the    *)
(* RPC mode, which calls prompt() for every command without waiting, and   *)
(* the interactive mode, which holds what is typed during a compaction.    *)
(*                                                                         *)
(* Each input is one call of prompt() and has a program counter: it passes *)
(* the preflight, hands its message to the agent, and afterwards decides   *)
(* whether to retry, to compact, to continue with queued messages, or to   *)
(* return.  A step runs from one await to the next, so between two steps   *)
(* other inputs, aborts, bash results and /compact come in.                *)
(*                                                                         *)
(* The agent's run is kept to what the session sees of it (Agent models    *)
(* it); models are not switched and the reflective loop is off.            *)
(***************************************************************************)
EXTENDS Integers, Sequences, FiniteSets, SequencesExt, SeqFilter

CONSTANTS
    MaxInputs,    \* bound: calls of prompt()
    MaxRetries,   \* settings.retry.maxRetries
    MaxEvents,    \* bound: answers other than a plain stop, aborts, bash
                  \* results and calls of compact()
    MaxDisturbed, \* the same bound once prompts overlap or a run is not heard
    MaxCuts,      \* bound: cut points a compaction may choose from
    FrontEnds     \* which front ends are tried

ASSUME BoundsAssumption ==
    {MaxInputs, MaxRetries, MaxEvents, MaxDisturbed, MaxCuts} \subseteq Nat
ASSUME FrontEndsAssumption == FrontEnds \subseteq {"rpc", "interactive"}

VARIABLES
    frontEnd,
    pc, how, stage,      \* per input: where it is, how it may be queued, and
                         \* whether it checks the size of the context, runs the
                         \* agent before its message, or has sent the message
    seen, job,           \* per input: the answer judged, the compaction made
    messages,            \* agent.state.messages
    entries,             \* what the session file holds
    run,                 \* the agent's active run
    steering, followUp,  \* the agent's queues
    last,                \* _lastAssistantMessage
    retry,               \* _retryAttempt
    tried,               \* _overflowRecoveryAttempted
    retryCtl, autoCtl,   \* owners of the abort controllers, 0 for none
    cancelled,           \* those whose signal is aborted, 0 for compact()
    manual,              \* compact(): off, waiting for idle, or its cut
    bash,                \* _pendingBashMessages
    held, batch,         \* compactionQueuedMessages; what a flush took
    events,              \* counter for the bounds
    overlapped, cut, burst, strays
                         \* history: two prompts at once, a run the session did
                         \* not hear, errors in a row without help, messages
                         \* queued when no prompt would come to them

inputVars == <<pc, how, stage, seen, job>>
queues == <<steering, followUp>>
controls == <<retryCtl, autoCtl, cancelled, manual>>
history == <<overlapped, cut, burst, strays>>
sessionVars ==
    <<frontEnd, inputVars, messages, entries, run, queues, last, retry, tried,
     controls, bash, held, batch, events, history>>

Inputs == 1..MaxInputs

(***************************************************************************)
(* Messages.  Of an answer matter the reason it stopped for, what the      *)
(* session makes of its usage or error, and the era, the number of         *)
(* compactions before the request: an answer is from before the latest     *)
(* compaction when that number has grown.  A stop for length is a stop:    *)
(* the session tells the two apart only in isContextOverflow, where either *)
(* may mean that the context is full.                                      *)
(***************************************************************************)
Message(role, id, stop, what, era) ==
    [role |-> role, id |-> id, stop |-> stop, what |-> what, era |-> era]
User(i) == Message("user", i, "", "", 0)
Bash(n) == Message("bash", n, "", "", 0)
Result(call) == Message("result", call, "", "", 0)
Summary == Message("summary", 0, "", "", 0)
Compacted(keep) == Message("compaction", keep, "", "", 0)
NoMessage == Message("none", 0, "", "", 0)

Finished == {<<"stop", "ok">>, <<"stop", "large">>, <<"stop", "over">>,
             <<"tool", "ok">>, <<"error", "over">>, <<"error", "retryable">>,
             <<"error", "fatal">>}
Stopped == {<<"aborted", "ok">>, <<"aborted", "large">>}

IsAssistant(m) == m.role = "assistant"
EndsOnAssistant(s) == s # <<>> /\ IsAssistant(Last(s))
DropAssistant(s) == IF EndsOnAssistant(s) THEN Front(s) ELSE s

(* _trimTrailingAssistantsForRetry. *)
TrimTrailingAssistants(s) ==
    LET ends == {k \in 0..Len(s) :
                    \A j \in (k + 1)..Len(s) : IsAssistant(s[j]) /\ s[j].stop # "tool"}
    IN  SubSeq(s, 1, CHOOSE k \in ends : \A j \in ends : k <= j)

-----------------------------------------------------------------------------
(***************************************************************************)
(* Compaction of the entries.  buildSessionContext: the summary, then the  *)
(* entries from the cut of the latest compaction on.                       *)
(***************************************************************************)
CompactionsIn(s) == {k \in 1..Len(s) : s[k].role = "compaction"}
Era == Cardinality(CompactionsIn(entries))
LatestIn(s) == CHOOSE k \in CompactionsIn(s) : \A j \in CompactionsIn(s) : j <= k

MessagesIn(s) == {m \in Range(s) : m.role # "compaction"}
Context(s) ==
    IF CompactionsIn(s) = {} THEN s
    ELSE <<Summary>> \o Keep(SubSeq(s, s[LatestIn(s)].id, Len(s)), MessagesIn(s))

(* prepareCompaction cuts at an entry that is no tool result, after the    *)
(* previous compaction's cut; there is none right after a compaction.      *)
(* Which one depends on sizes (Compaction): here any of the last MaxCuts.  *)
(* A search that finds nothing to do ends like a request that fails, which *)
(* any compaction may.                                                     *)
Cuts(s) ==
    IF s = <<>> \/ Last(s).role = "compaction" THEN {}
    ELSE {k \in 1..Len(s) :
            /\ s[k].role \notin {"result", "compaction"}
            /\ CompactionsIn(s) # {} => k >= s[LatestIn(s)].id}
NoCut == 0
SomeCut ==
    IF Cuts(entries) = {} THEN {NoCut}
    ELSE {k \in Cuts(entries) :
            Cardinality({j \in Cuts(entries) : j > k}) < MaxCuts}

(***************************************************************************)
(* _checkCompaction: why to compact after answer m, if at all.             *)
(***************************************************************************)
UsageIn(s) == {k \in 1..Len(s) : IsAssistant(s[k]) /\ s[k].stop \in {"stop", "tool"}}
LastUsage(s) == s[CHOOSE k \in UsageIn(s) : \A j \in UsageIn(s) : j <= k]
IsContextOverflow(m) == m.stop \in {"error", "stop"} /\ m.what = "over"

OverThreshold(m) ==
    IF m.stop = "error"
      THEN /\ UsageIn(messages) # {}
           /\ LastUsage(messages).era = Era
           /\ LastUsage(messages).what \in {"large", "over"}
      ELSE m.what = "large"

(* An overflow that is compacted for again and again. *)
ReasonUntried(m, skipAborted) ==
    IF (skipAborted /\ m.stop = "aborted") \/ m.era < Era THEN "none"
    ELSE IF IsContextOverflow(m) THEN "overflow"
    ELSE IF OverThreshold(m) THEN "threshold" ELSE "none"

Reason(m, skipAborted) ==
    IF (skipAborted /\ m.stop = "aborted") \/ m.era < Era THEN "none"
    ELSE IF IsContextOverflow(m) THEN (IF tried THEN "none" ELSE "overflow")
    ELSE IF OverThreshold(m) THEN "threshold" ELSE "none"

-----------------------------------------------------------------------------
NoJob == [why |-> "none", keep |-> NoCut]
NoRun == [owner |-> 0, at |-> "idle", aborted |-> FALSE, era |-> 0, call |-> 0]
NoErrors == [over |-> 0, retryable |-> 0]
Streaming == run # NoRun
Off == -2
Waiting == -1
Connected == manual = Off
IsCompacting == autoCtl # 0 \/ manual >= 0
HasQueued == steering # <<>> \/ followUp # <<>>

Busy == {"preflight", "send", "running", "post", "sleep", "compacting", "continue",
         "finish"}
Underway == Busy \cup {"input"}

SessionInit ==
    /\ frontEnd \in FrontEnds
    /\ pc = [i \in Inputs |-> "unused"]
    /\ how = [i \in Inputs |-> "none"]
    /\ stage = [i \in Inputs |-> "check"]
    /\ seen = [i \in Inputs |-> NoMessage]
    /\ job = [i \in Inputs |-> NoJob]
    /\ messages = <<>> /\ entries = <<>>
    /\ run = NoRun
    /\ steering = <<>> /\ followUp = <<>>
    /\ last = NoMessage
    /\ retry = 0 /\ tried = FALSE
    /\ retryCtl = 0 /\ autoCtl = 0 /\ cancelled = {} /\ manual = Off
    /\ bash = <<>>
    /\ held = <<>> /\ batch = [i \in Inputs |-> <<>>]
    /\ events = 0
    /\ overlapped = FALSE /\ cut = FALSE
    /\ burst = NoErrors /\ strays = {}

Undisturbed == ~overlapped /\ ~cut
Event ==
    /\ events < IF Undisturbed THEN MaxEvents ELSE MaxDisturbed
    /\ events' = events + 1

(* The user has come in: errors in a row are counted anew. *)
Intervened == burst' = NoErrors

(* _handleAgentEvent at message_end: nothing is heard while disconnected. *)
Heard(ms) ==
    /\ messages' = messages \o ms
    /\ entries' = IF Connected THEN entries \o ms ELSE entries

(* Bash results that reach the agent and not the session file. *)
FlushPendingBashUnsaved ==
    /\ messages' = messages \o bash
    /\ entries' = entries
    /\ bash' = <<>>

(* _flushPendingBashMessages. *)
FlushPendingBash ==
    /\ messages' = messages \o bash
    /\ entries' = entries \o bash
    /\ bash' = <<>>

(***************************************************************************)
(* prompt() rejects.  flushCompactionQueue catches that: restoreQueue      *)
(* clears the queues and holds the whole batch again.                      *)
(***************************************************************************)
Reject(i, outcome) ==
    IF batch[i] = <<>>
      THEN /\ pc' = [pc EXCEPT ![i] = outcome]
           /\ UNCHANGED <<queues, held, batch>>
      ELSE /\ pc' = [j \in Inputs |-> IF j \in Range(batch[i]) THEN "held" ELSE pc[j]]
           /\ steering' = <<>> /\ followUp' = <<>>
           /\ held' = batch[i]
           /\ batch' = [batch EXCEPT ![i] = <<>>]

(***************************************************************************)
(* An input arrives.  Over RPC at any time; typed, it waits for the prompt *)
(* before it, is queued while the agent streams, and held while the        *)
(* session compacts (queueCompactionMessage).                              *)
(***************************************************************************)
NextInput(i) == pc[i] = "unused" /\ \A j \in Inputs : j < i => pc[j] # "unused"

MayType(h) ==
    /\ ~IsCompacting
    /\ IF Streaming THEN h # "none"
       ELSE h = "none" /\ \A j \in Inputs : pc[j] \in Underway => batch[j] # <<>>

Submit(i, h) ==
    /\ NextInput(i)
    /\ frontEnd = "interactive" => MayType(h)
    /\ pc' = [pc EXCEPT ![i] = "input"]
    /\ how' = [how EXCEPT ![i] = h]
    /\ UNCHANGED <<frontEnd, stage, seen, job, messages, entries, run, queues,
                   last, retry, tried, controls, bash, held, batch, events, history>>

Hold(i, h) ==
    /\ NextInput(i)
    /\ frontEnd = "interactive" /\ IsCompacting
    /\ h # "none"
    /\ pc' = [pc EXCEPT ![i] = "held"]
    /\ how' = [how EXCEPT ![i] = h]
    /\ held' = Append(held, i)
    /\ UNCHANGED <<frontEnd, stage, seen, job, messages, entries, run, queues,
                   last, retry, tried, controls, bash, batch, events, history>>

(***************************************************************************)
(* steer() and followUp(), which RPC offers too: the message is queued,    *)
(* whatever the agent is doing.                                            *)
(***************************************************************************)
Ending(i) == pc[i] = "finish" /\ stage[i] = "main"
Attended == \E i \in Inputs : pc[i] = "input" \/ (pc[i] \in Busy /\ ~Ending(i))

QueueDirectly(i, h) ==
    /\ NextInput(i) /\ frontEnd = "rpc"
    /\ pc' = [pc EXCEPT ![i] = "queued"]
    /\ how' = [how EXCEPT ![i] = h]
    /\ \/ h = "steer" /\ steering' = Append(steering, i) /\ UNCHANGED followUp
       \/ h = "followUp" /\ followUp' = Append(followUp, i) /\ UNCHANGED steering
    /\ strays' = IF Attended THEN strays ELSE strays \cup {i}
    /\ UNCHANGED <<frontEnd, stage, seen, job, messages, entries, run, last, retry,
                   tried, controls, bash, held, batch, events, overlapped, cut, burst>>

(***************************************************************************)
(* prompt(): once the input hooks have returned, the message is queued,    *)
(* refused, or on its way.                                                 *)
(***************************************************************************)
Queued(ids, h) == Keep(ids, {j \in Inputs : how[j] = h})

AdmitStreaming(i) ==
    /\ pc[i] = "input" /\ Streaming
    /\ IF how[i] = "none" THEN Reject(i, "refused")
       ELSE /\ pc' = [pc EXCEPT ![i] = "queued"]
            /\ steering' = steering \o Queued(<<i>>, "steer")
            /\ followUp' = followUp \o Queued(<<i>>, "followUp")
            /\ UNCHANGED <<held, batch>>
    /\ overlapped' = (overlapped \/ batch[i] # <<>>)
    /\ UNCHANGED <<frontEnd, how, stage, seen, job, messages, entries, run, last,
                   retry, tried, controls, bash, events, cut, burst, strays>>

AdmitIdle(i) ==
    /\ pc[i] = "input" /\ ~Streaming
    /\ FlushPendingBash
    /\ pc' = [pc EXCEPT ![i] = "preflight"]
    /\ how' = [how EXCEPT ![i] = "none"]
    /\ stage' = [stage EXCEPT ![i] = "check"]
    /\ overlapped' = (overlapped \/ \E j \in Inputs : pc[j] \in Busy)
    /\ Intervened
    /\ UNCHANGED <<frontEnd, seen, job, run, queues, last, retry,
                   tried, controls, held, batch, events, cut, strays>>

(***************************************************************************)
(* flushCompactionQueue, at every compaction_end.  When the session itself *)
(* will retry, all held messages are queued; otherwise the first is a new  *)
(* prompt and the others are queued behind it.                             *)
(***************************************************************************)
FlushHeld(willRetry) ==
    LET rest == IF willRetry \/ held = <<>> THEN held ELSE Tail(held)
        first == IF willRetry \/ held = <<>> THEN {} ELSE {Head(held)}
    IN  /\ steering' = steering \o Queued(rest, "steer")
        /\ followUp' = followUp \o Queued(rest, "followUp")
        /\ held' = <<>>
        /\ how' = [j \in Inputs |-> IF j \in first THEN "none" ELSE how[j]]
        /\ batch' = [j \in Inputs |-> IF j \in first THEN held ELSE batch[j]]

(* What the flush makes of the program counters c. *)
AfterFlush(c, willRetry) ==
    [j \in Inputs |-> IF j \notin Range(held) THEN c[j]
                      ELSE IF ~willRetry /\ j = Head(held) THEN "input" ELSE "queued"]

(* An overflow that recovery was already tried for is announced by such an *)
(* event too.                                                              *)
GivesUp(m) == tried /\ m.era = Era /\ IsContextOverflow(m)
Announce(m) == IF GivesUp(m) THEN FlushHeld(FALSE)
                             ELSE UNCHANGED <<how, queues, held, batch>>
Afterwards(m, c) == IF GivesUp(m) THEN AfterFlush(c, FALSE) ELSE c

(***************************************************************************)
(* _runAutoCompaction up to its first request: the cut is chosen from the  *)
(* entries there are now.                                                  *)
(***************************************************************************)
StartCompaction(i, why) ==
    /\ pc' = [pc EXCEPT ![i] = "compacting"]
    /\ \E keep \in SomeCut : job' = [job EXCEPT ![i] = [why |-> why, keep |-> keep]]
    /\ messages' = IF why = "overflow" THEN DropAssistant(messages) ELSE messages
    /\ tried' = (tried \/ why = "overflow")
    /\ autoCtl' = i

LastAssistant ==
    LET at == {k \in 1..Len(messages) : IsAssistant(messages[k])}
    IN  IF at = {} THEN NoMessage ELSE messages[CHOOSE k \in at : \A j \in at : j <= k]

(* The check before the message is sent looks at aborted answers too. *)
Precheck(i) ==
    /\ pc[i] = "preflight"
    /\ LET why == IF LastAssistant = NoMessage THEN "none" ELSE Reason(LastAssistant, FALSE)
       IN  IF why # "none" THEN StartCompaction(i, why)
           ELSE /\ pc' = Afterwards(LastAssistant, [pc EXCEPT ![i] = "send"])
                /\ UNCHANGED <<job, messages, tried, autoCtl>>
    /\ Announce(LastAssistant)
    /\ UNCHANGED <<frontEnd, stage, seen, entries, run, last, retry, retryCtl,
                   cancelled, manual, bash, events, history>>

(***************************************************************************)
(* The agent starts a run for input i with the messages of the inputs ms.  *)
(***************************************************************************)
StartRun(i, ms, at) ==
    /\ run' = [owner |-> i, at |-> at, aborted |-> FALSE, era |-> Era, call |-> 0]
    /\ Heard([k \in 1..Len(ms) |-> User(ms[k])])
    /\ tried' = (tried /\ ~(Connected /\ ms # <<>>))
    /\ pc' = [j \in Inputs |-> IF j = i THEN "running"
                               ELSE IF j \in Range(ms) THEN "done" ELSE pc[j]]
    /\ burst' = IF ms = <<>> THEN burst ELSE NoErrors
    /\ cut' = (cut \/ ~Connected)

(* The message is accepted and handed to the agent, which may be taken:    *)
(* then prompt() rejects, and its finally block flushes the bash results.  *)
Send(i) ==
    /\ pc[i] = "send" /\ ~Streaming
    /\ StartRun(i, <<i>>, "poll")
    /\ stage' = [stage EXCEPT ![i] = "main"]
    /\ UNCHANGED <<frontEnd, how, seen, job, queues, last, retry, controls, bash,
                   held, batch, events, overlapped, strays>>

SendFails(i) ==
    /\ pc[i] = "send" /\ Streaming
    /\ FlushPendingBash
    /\ Reject(i, "dropped")
    /\ UNCHANGED <<frontEnd, how, stage, seen, job, run, last, retry, tried,
                   controls, events, history>>

-----------------------------------------------------------------------------
(***************************************************************************)
(* The agent's run.  Queued messages are taken one at a time, steering     *)
(* messages before each request, follow-ups when the run would end.        *)
(***************************************************************************)
RunUnchanged == <<frontEnd, how, stage, seen, job, controls, bash, held, batch,
                  overlapped, cut, strays>>

Ask == run' = [run EXCEPT !.at = "ask", !.era = Era]

Inject(i) ==
    /\ Heard(<<User(i)>>)
    /\ tried' = (tried /\ ~Connected)
    /\ pc' = [pc EXCEPT ![i] = "done"]
    /\ burst' = NoErrors

TakeSteering ==
    /\ steering # <<>>
    /\ Inject(Head(steering))
    /\ steering' = Tail(steering)
    /\ UNCHANGED followUp

TakeFollowUp ==
    /\ followUp # <<>>
    /\ Inject(Head(followUp))
    /\ followUp' = Tail(followUp)
    /\ UNCHANGED steering

Poll ==
    /\ run.at = "poll"
    /\ Ask
    /\ \/ TakeSteering
       \/ steering = <<>> /\ UNCHANGED <<queues, messages, entries, tried, pc, burst>>
    /\ UNCHANGED <<RunUnchanged, last, retry, events>>

(* _handleAgentEvent at the end of an answer. *)
Answered(m) ==
    IF ~Connected THEN UNCHANGED <<last, retry, tried>>
    ELSE /\ last' = m
         /\ retry' = IF m.stop = "error" THEN retry ELSE 0
         /\ tried' = (tried /\ m.stop = "error")

CountErrors(m) ==
    IF m.stop # "error" THEN NoErrors
    ELSE [over |-> burst.over + (IF m.what = "over" THEN 1 ELSE 0),
          retryable |-> burst.retryable + (IF m.what = "retryable" THEN 1 ELSE 0)]

Answer(kind) ==
    /\ run.at = "ask"
    /\ kind \in IF run.aborted THEN Stopped ELSE Finished
    /\ IF kind \in {<<"stop", "ok">>, <<"aborted", "ok">>} THEN UNCHANGED events ELSE Event
    /\ LET m == Message("assistant", Len(entries) + 1, kind[1], kind[2], run.era) IN
       /\ Heard(<<m>>)
       /\ Answered(m)
       /\ burst' = CountErrors(m)
       /\ run' = [run EXCEPT !.call = m.id,
                             !.at = CASE kind[1] = "tool" -> "tools"
                                      [] kind[1] = "stop" -> "turn"
                                      [] OTHER            -> "end"]
    /\ UNCHANGED <<RunUnchanged, queues, pc>>

ToolsDone ==
    /\ run.at = "tools"
    /\ Heard(<<Result(run.call)>>)
    /\ run' = [run EXCEPT !.at = "poll"]
    /\ UNCHANGED <<RunUnchanged, queues, pc, last, retry, tried, events, burst>>

Turn ==
    /\ run.at = "turn"
    /\ \/ TakeSteering /\ Ask
       \/ steering = <<>> /\ TakeFollowUp /\ Ask
       \/ /\ ~HasQueued
          /\ run' = [run EXCEPT !.at = "end"]
          /\ UNCHANGED <<queues, messages, entries, tried, pc, burst>>
    /\ UNCHANGED <<RunUnchanged, last, retry, events>>

(* The listeners of agent_end have returned: the owner of the run goes on. *)
EndRun ==
    /\ run.at = "end"
    /\ pc' = [pc EXCEPT ![run.owner] = "post"]
    /\ run' = NoRun
    /\ UNCHANGED <<RunUnchanged, queues, messages, entries, last, retry, tried,
                   events, burst>>

-----------------------------------------------------------------------------
(***************************************************************************)
(* _handlePostAgentRun: retry, compact, go on with queued messages, or be  *)
(* done.  The answer it judges was noted by the event handler.             *)
(***************************************************************************)
PostUnchanged == <<frontEnd, stage, run, entries, manual, bash, events, history>>
QueuesUnchanged == <<how, queues, held, batch>>

CompactOrResume(i, m) ==
    LET why == Reason(m, TRUE)
        then == IF HasQueued' THEN "continue" ELSE "finish"
    IN  /\ Announce(m)
        /\ IF why # "none" THEN StartCompaction(i, why)
           ELSE /\ pc' = Afterwards(m, [pc EXCEPT ![i] = then])
                /\ UNCHANGED <<job, messages, tried, autoCtl>>

Retryable(m) == m.stop = "error" /\ m.what = "retryable"

(* _isRetryableError and the budget of _prepareRetry. *)
MayRetry(m) == Retryable(m) /\ retry < MaxRetries

Post(i) ==
    /\ pc[i] = "post"
    /\ last' = NoMessage
    /\ \/ /\ last = NoMessage
          /\ pc' = [pc EXCEPT ![i] = "finish"]
          /\ UNCHANGED <<QueuesUnchanged, seen, messages, retry, retryCtl, job,
                         tried, autoCtl>>
       \/ /\ last # NoMessage /\ MayRetry(last)
          /\ seen' = [seen EXCEPT ![i] = last]
          /\ retry' = retry + 1
          /\ messages' = DropAssistant(messages)
          /\ retryCtl' = i
          /\ pc' = [pc EXCEPT ![i] = "sleep"]
          /\ UNCHANGED <<QueuesUnchanged, job, tried, autoCtl>>
       \/ /\ last # NoMessage /\ ~MayRetry(last)
          /\ retry' = IF last.stop = "error" THEN 0 ELSE retry
          /\ UNCHANGED <<seen, retryCtl>>
          /\ CompactOrResume(i, last)
    /\ UNCHANGED <<PostUnchanged, cancelled>>

(* The end of the backoff, or abortRetry during it. *)
WakeRetry(i) ==
    /\ pc[i] = "sleep" /\ i \notin cancelled
    /\ retryCtl' = 0
    /\ pc' = [pc EXCEPT ![i] = "continue"]
    /\ seen' = [seen EXCEPT ![i] = NoMessage]
    /\ UNCHANGED <<PostUnchanged, QueuesUnchanged, job, messages, last, retry,
                   tried, autoCtl, cancelled>>

RetryCancelled(i) ==
    /\ pc[i] = "sleep" /\ i \in cancelled
    /\ retry' = 0
    /\ retryCtl' = 0
    /\ cancelled' = cancelled \ {i}
    /\ CompactOrResume(i, seen[i])
    /\ seen' = [seen EXCEPT ![i] = NoMessage]
    /\ UNCHANGED <<PostUnchanged, last>>

(* The check before the message goes on with the loop after a success      *)
(* only, and otherwise with the message.                                   *)
AutoDone(i, succeeded, willRetry) ==
    LET checking == stage[i] = "check"
        goOn == willRetry \/ ((succeeded \/ ~checking) /\ HasQueued')
        then == IF goOn THEN "continue" ELSE IF checking THEN "send" ELSE "finish"
    IN  /\ FlushHeld(willRetry)
        /\ pc' = AfterFlush([pc EXCEPT ![i] = then], willRetry)
        /\ stage' = IF goOn /\ checking THEN [stage EXCEPT ![i] = "pre"] ELSE stage
        /\ autoCtl' = 0
        /\ cancelled' = cancelled \ {i}
        /\ job' = [job EXCEPT ![i] = NoJob]
        /\ UNCHANGED <<frontEnd, seen, run, last, retry, tried,
                       retryCtl, manual, bash, events, history>>

ReadyToRetry(s) == IF EndsOnAssistant(s) /\ Last(s).stop = "error"
                     THEN TrimTrailingAssistants(Front(s))
                     ELSE TrimTrailingAssistants(s)

(* _runAutoCompaction once the summary is there. *)
AutoCompacted(i) ==
    /\ pc[i] = "compacting" /\ i \notin cancelled
    /\ job[i].keep # NoCut
    /\ entries' = Append(entries, Compacted(job[i].keep))
    /\ messages' = IF job[i].why = "overflow" THEN ReadyToRetry(Context(entries'))
                                              ELSE Context(entries')
    /\ AutoDone(i, TRUE, job[i].why = "overflow")

(* It was cancelled, had nothing to cut, or the request failed. *)
AutoFailed(i) ==
    /\ pc[i] = "compacting"
    /\ AutoDone(i, FALSE, FALSE)
    /\ UNCHANGED <<messages, entries>>

-----------------------------------------------------------------------------
(***************************************************************************)
(* _safeAgentContinue.  The agent refuses when another run is active.      *)
(***************************************************************************)
Answering == EndsOnAssistant(messages) /\ HasQueued
Trimmed == IF EndsOnAssistant(messages) /\ ~HasQueued
             THEN TrimTrailingAssistants(messages) ELSE messages
NothingToContinue == ~Answering /\ (Trimmed = <<>> \/ EndsOnAssistant(Trimmed))

ContinueFails(i) ==
    /\ pc[i] = "continue" /\ ~NothingToContinue /\ Streaming
    /\ messages' = Trimmed \o bash
    /\ entries' = entries \o bash
    /\ bash' = <<>>
    /\ Reject(i, "failed")
    /\ UNCHANGED <<frontEnd, how, stage, seen, job, run, last, retry, tried,
                   controls, events, history>>

(* Agent.continue on an answer: the queued message starts the run. *)
ContinueWithQueued(i) ==
    /\ pc[i] = "continue" /\ Answering /\ ~Streaming
    /\ IF steering # <<>>
         THEN /\ StartRun(i, <<Head(steering)>>, "ask")
              /\ steering' = Tail(steering) /\ UNCHANGED followUp
         ELSE /\ StartRun(i, <<Head(followUp)>>, "poll")
              /\ followUp' = Tail(followUp) /\ UNCHANGED steering
    /\ UNCHANGED <<frontEnd, how, stage, seen, job, last, retry, controls, bash,
                   held, batch, events, overlapped, strays>>

(* A transcript without anything to answer ends the prompt instead. *)
ContinueTranscript(i) ==
    /\ pc[i] = "continue" /\ ~Answering
    /\ messages' = Trimmed
    /\ IF NothingToContinue
         THEN pc' = [pc EXCEPT ![i] = "finish"] /\ UNCHANGED <<run, cut>>
         ELSE /\ ~Streaming
              /\ run' = [owner |-> i, at |-> "poll", aborted |-> FALSE, era |-> Era,
                         call |-> 0]
              /\ pc' = [pc EXCEPT ![i] = "running"]
              /\ cut' = (cut \/ ~Connected)
    /\ UNCHANGED <<frontEnd, how, stage, seen, job, entries, queues, last, retry,
                   tried, controls, bash, held, batch, events, overlapped, burst,
                   strays>>

(* A prompt that leaves the results of bash commands where they are. *)
FinishWithoutFlush(i) ==
    /\ pc[i] = "finish"
    /\ pc' = [pc EXCEPT ![i] = IF stage[i] = "main" THEN "done" ELSE "send"]
    /\ UNCHANGED <<frontEnd, how, stage, seen, job, messages, entries, bash, run,
                   queues, last, retry, tried, controls, held, batch, events, history>>

(* The finally block: before the message the prompt goes on, after it it   *)
(* returns.                                                                *)
Finish(i) ==
    /\ pc[i] = "finish"
    /\ FlushPendingBash
    /\ pc' = [pc EXCEPT ![i] = IF stage[i] = "main" THEN "done" ELSE "send"]
    /\ UNCHANGED <<frontEnd, how, stage, seen, job, run, queues, last, retry,
                   tried, controls, held, batch, events, history>>

-----------------------------------------------------------------------------
(***************************************************************************)
(* What the user does meanwhile.                                           *)
(***************************************************************************)
OthersUnchanged == <<frontEnd, stage, seen, job, last, retry, tried, autoCtl>>

AbortRetry == cancelled' = cancelled \cup ({retryCtl} \ {0})
AbortRun == run' = IF Streaming THEN [run EXCEPT !.aborted = TRUE] ELSE run

(* abort(). *)
Abort ==
    /\ Event
    /\ Streaming \/ retryCtl # 0
    /\ AbortRetry
    /\ AbortRun
    /\ Intervened
    /\ UNCHANGED <<OthersUnchanged, pc, how, messages, entries, queues, retryCtl,
                   manual, bash, held, batch, overlapped, cut, strays>>

(* restoreQueuedMessagesToEditor with abort: the queues go to the editor.  *)
Escape ==
    /\ Event
    /\ frontEnd = "interactive" /\ Streaming
    /\ AbortRun
    /\ steering' = <<>> /\ followUp' = <<>> /\ held' = <<>>
    /\ pc' = [j \in Inputs |-> IF j \in Range(steering \o followUp \o held)
                                 THEN "cleared" ELSE pc[j]]
    /\ UNCHANGED <<OthersUnchanged, how, messages, entries, retryCtl, cancelled,
                   manual, bash, batch, history>>

(* abortCompaction(). *)
AbortCompaction ==
    /\ Event
    /\ IsCompacting
    /\ cancelled' = cancelled \cup ({autoCtl} \ {0}) \cup (IF manual >= 0 THEN {0} ELSE {})
    /\ UNCHANGED <<OthersUnchanged, pc, how, messages, entries, run, queues,
                   retryCtl, manual, bash, held, batch, history>>

(* A result recorded at once, whatever the agent is doing. *)
RecordBashAtOnce ==
    /\ Event
    /\ messages' = Append(messages, Bash(events'))
    /\ entries' = Append(entries, Bash(events'))
    /\ Intervened
    /\ UNCHANGED <<OthersUnchanged, pc, how, run, queues, retryCtl, cancelled,
                   manual, bash, held, batch, overlapped, cut, strays>>

(* recordBashResult. *)
RecordBash ==
    /\ Event
    /\ IF Streaming
         THEN bash' = Append(bash, Bash(events')) /\ UNCHANGED <<messages, entries>>
         ELSE /\ messages' = Append(messages, Bash(events'))
              /\ entries' = Append(entries, Bash(events'))
              /\ UNCHANGED bash
    /\ Intervened
    /\ UNCHANGED <<OthersUnchanged, pc, how, run, queues, retryCtl, cancelled,
                   manual, held, batch, overlapped, cut, strays>>

(***************************************************************************)
(* compact(): stop listening to the agent, abort it and wait; then cut,    *)
(* summarize, and listen again.                                            *)
(***************************************************************************)
CompactStarts ==
    /\ Event
    /\ manual = Off
    /\ manual' = Waiting
    /\ AbortRetry
    /\ AbortRun
    /\ cut' = (cut \/ Streaming)
    /\ Intervened
    /\ UNCHANGED <<OthersUnchanged, pc, how, messages, entries, queues, retryCtl,
                   bash, held, batch, overlapped, strays>>

CompactPrepares ==
    /\ manual = Waiting /\ ~Streaming
    /\ manual' \in SomeCut
    /\ UNCHANGED <<OthersUnchanged, pc, how, messages, entries, run, queues,
                   retryCtl, cancelled, bash, held, batch, events, history>>

CompactEnds(ok) ==
    /\ manual >= 0
    /\ IF ok
         THEN /\ manual # NoCut /\ 0 \notin cancelled
              /\ entries' = Append(entries, Compacted(manual))
              /\ messages' = Context(entries')
         ELSE UNCHANGED <<entries, messages>>
    /\ manual' = Off
    /\ cancelled' = cancelled \ {0}
    /\ FlushHeld(FALSE)
    /\ pc' = AfterFlush(pc, FALSE)
    /\ UNCHANGED <<OthersUnchanged, run, retryCtl, bash, events, history>>

-----------------------------------------------------------------------------
PromptStep(i) ==
    \/ AdmitStreaming(i) \/ AdmitIdle(i) \/ Precheck(i) \/ Send(i) \/ SendFails(i)
    \/ Post(i) \/ WakeRetry(i) \/ RetryCancelled(i)
    \/ AutoCompacted(i) \/ AutoFailed(i)
    \/ ContinueFails(i) \/ ContinueWithQueued(i) \/ ContinueTranscript(i)
    \/ Finish(i)

RunStep == \/ Poll \/ ToolsDone \/ Turn \/ EndRun
           \/ \E kind \in Finished \cup Stopped : Answer(kind)

CompactStep == CompactPrepares \/ \E ok \in BOOLEAN : CompactEnds(ok)

UserStep ==
    \/ \E i \in Inputs, h \in {"none", "steer", "followUp"} :
          Submit(i, h) \/ Hold(i, h) \/ QueueDirectly(i, h)
    \/ Abort \/ Escape \/ AbortCompaction \/ RecordBash \/ CompactStarts

SessionNext == UserStep \/ RunStep \/ CompactStep \/ \E i \in Inputs : PromptStep(i)

SessionSpec == SessionInit /\ [][SessionNext]_sessionVars

-----------------------------------------------------------------------------
(***************************************************************************)
(* Properties.                                                             *)
(***************************************************************************)
Delivered(i) == User(i) \in Range(entries)

\* docs/rpc.md:76: a prompt that was accepted has reached the session: prompt()
\* does not lose it between its preflight and the agent.
AcceptedIsDelivered ==
    \A i \in Inputs : pc[i] \in {"done", "failed", "dropped"} => cut \/ Delivered(i)

\* What the model is sent is well formed: a tool result comes directly after
\* the answer that asked for it, and nothing else comes after such an answer,
\* whatever bash results, queued messages, retries and compactions come in
\* between (recordBashResult: "to avoid breaking tool_use/tool_result
\* ordering"), as long as no two prompts are underway at once.
ToolPairsIntact ==
    Undisturbed => \A k \in 1..Len(messages) :
        /\ messages[k].role = "result" =>
              /\ k > 1
              /\ IsAssistant(messages[k - 1])
              /\ messages[k - 1].id = messages[k].id
        /\ messages[k].stop = "tool" /\ k < Len(messages)
              => messages[k + 1].role = "result"

\* The context the model is sent is the one the session file gives back, in
\* the file's order and with each message as often, but for answers that a
\* retry has dropped: even when prompts overlap (unless the session was not
\* listening to a run).
TranscriptPersisted ==
    cut \/ messages = Keep(Context(entries),
                           {e \in Range(Context(entries)) :
                               IsAssistant(e) => e \in Range(messages)})

\* When everything is at rest nothing waits for a run that nobody starts: no
\* held message, no bash result, no retry count, and no queued message but one
\* that RPC's steer or follow_up queued when no prompt was underway, which
\* waits for the next prompt (steer and followUp ask nothing).
NothingLeftBehind ==
    (~Streaming /\ manual = Off /\ \A i \in Inputs : pc[i] \notin Underway)
        /\ Undisturbed
        => /\ Range(steering \o followUp) \subseteq strays
           /\ held = <<>> /\ bash = <<>> /\ retry = 0

\* Recovery is bounded while the session is left to itself: without a good
\* answer, a new prompt or message, an abort, a bash result or a call of
\* compact() in between, a context overflow is compacted for once and an error
\* retried MaxRetries times, and MaxRetries times again after that compaction.
RecoveryBounded ==
    Undisturbed => /\ burst.over <= 2
                   /\ burst.retryable <= (MaxRetries + 1) * (burst.over + 1)
=============================================================================
