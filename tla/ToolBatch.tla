------------------------------ MODULE ToolBatch ------------------------------
(***************************************************************************)
(* How the agent loop executes the tool calls of one assistant message     *)
(* (packages/agent/src/agent-loop.ts, executeToolCalls and what it calls). *)
(*                                                                         *)
(* A batch is the calls 1 .. size in assistant source order.  plan gives   *)
(* each call the group it runs in: partitionToolCalls cuts the batch into  *)
(* consecutive groups; sequential execution is the plan in which every     *)
(* call is a group of its own.  Calls of one group are prepared one by one *)
(* and then run together; groups run one after another.                    *)
(*                                                                         *)
(* A step runs from one await to the next.  Between two steps the owner of *)
(* the run may abort it, and any awaited event listener may throw.         *)
(***************************************************************************)
EXTENDS Integers, Sequences

CONSTANT MaxCalls       \* bound: the most tool calls one message asks for

ASSUME MaxCallsAssumption == MaxCalls \in Nat \ {0}

VARIABLES
    size,          \* number of tool calls in the message
    plan,          \* group of each call
    sequential,    \* executeToolCallsSequential rather than ...Parallel
    status,        \* what has become of each call
    terminates,    \* result.terminate of each ended call
    next,          \* the call under preparation, or the last one prepared
    cursor,        \* the next call whose result message is emitted
    emitted,       \* calls whose toolResult message was emitted, in order
    stage,         \* where executeToolCalls is
    terminate,     \* ExecutedToolCallBatch.terminate
    aborted        \* signal.aborted of the run

batchVars == <<size, plan, sequential, status, terminates, next, cursor,
               emitted, stage, terminate>>

Status == {"waiting", "started", "prepared", "running", "ended"}
Stage == {"idle", "prepare", "check", "run", "done", "failed"}

(***************************************************************************)
(* partitionToolCalls returns consecutive groups of the batch.             *)
(***************************************************************************)
Plans(n) == {g \in [1..n -> 1..n] :
                /\ g[1] = 1
                /\ \A i, j \in 1..n : i <= j => g[i] <= g[j]}

Calls == 1..size

BatchTypeOK ==
    /\ size \in 1..MaxCalls
    /\ plan \in Plans(size)
    /\ sequential \in BOOLEAN
    /\ status \in [Calls -> Status]
    /\ terminates \in [Calls -> BOOLEAN]
    /\ next \in Calls
    /\ cursor \in 1..(size + 1)
    /\ emitted \in Seq(Calls)
    /\ stage \in Stage
    /\ terminate \in BOOLEAN
    /\ aborted \in BOOLEAN

Group == {i \in 1..next : plan[i] = plan[next]}

LastOfGroup == \A i \in Calls : i > next => plan[i] # plan[next]

(* Waiting for the first tool to end, not for all of them. *)
NoneRunningRace == \E i \in Calls : status[i] = "ended"

NoneRunning == \A i \in Calls : status[i] # "running"

(***************************************************************************)
(* shouldTerminateToolBatch over a set of finalized calls.                 *)
(***************************************************************************)
ShouldTerminateToolBatch(S) == S # {} /\ \A i \in S : terminates[i]

(***************************************************************************)
(* executeToolCalls: the first call is started without a look at the       *)
(* abort signal.                                                           *)
(***************************************************************************)
BeginBatch(n, g, seq) ==
    /\ seq => g = [i \in 1..n |-> i]
    /\ size' = n
    /\ plan' = g
    /\ sequential' = seq
    /\ status' = [i \in 1..n |-> IF i = 1 THEN "started" ELSE "waiting"]
    /\ terminates' = [i \in 1..n |-> FALSE]
    /\ next' = 1
    /\ cursor' = 1
    /\ emitted' = <<>>
    /\ stage' = "prepare"
    /\ terminate' = FALSE

(***************************************************************************)
(* prepareToolCall yields an immediate result: unknown tool, invalid       *)
(* arguments, blocked by beforeToolCall (which may ask to terminate), or   *)
(* aborted.  tool_execution_end follows at once.                           *)
(***************************************************************************)
PrepareImmediate(t) ==
    /\ stage = "prepare"
    /\ aborted => ~t
    /\ status' = [status EXCEPT ![next] = "ended"]
    /\ terminates' = [terminates EXCEPT ![next] = t]
    /\ stage' = "check"
    /\ UNCHANGED <<size, plan, sequential, next, cursor, emitted, terminate,
                   aborted>>

(***************************************************************************)
(* prepareToolCall lets the tool run; it looks at the signal last.         *)
(***************************************************************************)
PrepareRunnable ==
    /\ stage = "prepare"
    /\ ~aborted
    /\ status' = [status EXCEPT ![next] = "prepared"]
    /\ stage' = "check"
    /\ UNCHANGED <<size, plan, sequential, terminates, next, cursor, emitted,
                   terminate, aborted>>

(* A preparation loop that does not stop at the end of its group. *)
StartNextCallPastGroup ==
    /\ stage = "check"
    /\ ~aborted
    /\ next' = next + 1
    /\ status' = [status EXCEPT ![next + 1] = "started"]
    /\ stage' = "prepare"
    /\ UNCHANGED <<size, plan, sequential, terminates, cursor, emitted,
                   terminate, aborted>>

(***************************************************************************)
(* The preparation loop goes on to the next call of the group.             *)
(***************************************************************************)
StartNextCall ==
    /\ stage = "check"
    /\ ~aborted
    /\ ~LastOfGroup
    /\ next' = next + 1
    /\ status' = [status EXCEPT ![next + 1] = "started"]
    /\ stage' = "prepare"
    /\ UNCHANGED <<size, plan, sequential, terminates, cursor, emitted,
                   terminate, aborted>>

(* A group that is only run when all its calls are prepared. *)
RunGroupWhenComplete ==
    /\ stage = "check"
    /\ LastOfGroup
    /\ status' = [i \in Calls |-> IF status[i] = "prepared" THEN "running"
                                                            ELSE status[i]]
    /\ stage' = "run"
    /\ UNCHANGED <<size, plan, sequential, terminates, next, cursor, emitted,
                   terminate, aborted>>

(***************************************************************************)
(* The preparation loop is over, or broken off by an abort: Promise.all    *)
(* starts every prepared call, also after an abort.                        *)
(***************************************************************************)
RunGroup ==
    /\ stage = "check"
    /\ aborted \/ LastOfGroup
    /\ status' = [i \in Calls |-> IF status[i] = "prepared" THEN "running"
                                                            ELSE status[i]]
    /\ stage' = "run"
    /\ UNCHANGED <<size, plan, sequential, terminates, next, cursor, emitted,
                   terminate, aborted>>

(***************************************************************************)
(* executePreparedToolCall and finalizeExecutedToolCall of one call, up to *)
(* its tool_execution_end.  t is result.terminate after afterToolCall.     *)
(***************************************************************************)
FinishTool(i, t) ==
    /\ stage = "run"
    /\ i \in Calls
    /\ status[i] = "running"
    /\ status' = [status EXCEPT ![i] = "ended"]
    /\ terminates' = [terminates EXCEPT ![i] = t]
    /\ UNCHANGED <<size, plan, sequential, next, cursor, emitted, stage,
                   terminate, aborted>>

(* Results in the order the tools end, each as soon as it is there. *)
EmitResultOnEnd ==
    /\ stage = "run"
    /\ \E i \in Calls :
          /\ status[i] = "ended"
          /\ \A k \in 1..Len(emitted) : emitted[k] # i
          /\ emitted' = Append(emitted, i)
    /\ cursor' = cursor + 1
    /\ UNCHANGED <<size, plan, sequential, status, terminates, next, stage,
                   terminate, aborted>>

(***************************************************************************)
(* Once Promise.all has resolved: emitToolResultMessage, in source order.  *)
(***************************************************************************)
EmitResult ==
    /\ stage = "run"
    /\ NoneRunning
    /\ cursor <= next
    /\ emitted' = Append(emitted, cursor)
    /\ cursor' = cursor + 1
    /\ UNCHANGED <<size, plan, sequential, status, terminates, next, stage,
                   terminate, aborted>>

(***************************************************************************)
(* What executeToolCalls decides when a group's results are out: go on, or *)
(* return.  A batch that runs as one group, or sequentially, terminates    *)
(* when all its results do; in a batch of several groups one terminating   *)
(* group, or an abort, terminates the batch.                               *)
(***************************************************************************)
Grouped == ~sequential /\ plan[size] # 1

StopsHere == \/ next = size
             \/ aborted
             \/ Grouped /\ ShouldTerminateToolBatch(Group)

(* A batch of groups that reports only an abort. *)
BatchTerminateOnAbort == IF Grouped THEN aborted
                                    ELSE ShouldTerminateToolBatch(1..next)

BatchTerminate == IF Grouped THEN aborted \/ ShouldTerminateToolBatch(Group)
                             ELSE ShouldTerminateToolBatch(1..next)

GroupDone == stage = "run" /\ NoneRunning /\ cursor = next + 1

NextGroup ==
    /\ GroupDone
    /\ ~StopsHere
    /\ next' = next + 1
    /\ status' = [status EXCEPT ![next + 1] = "started"]
    /\ stage' = "prepare"
    /\ UNCHANGED <<size, plan, sequential, terminates, cursor, emitted,
                   terminate, aborted>>

FinishBatch ==
    /\ GroupDone
    /\ StopsHere
    /\ terminate' = BatchTerminate
    /\ stage' = "done"
    /\ UNCHANGED <<size, plan, sequential, status, terminates, next, cursor,
                   emitted, aborted>>

(***************************************************************************)
(* A listener throws: at tool_execution_start, at the tool_execution_end   *)
(* of an immediate result, of an executed tool, or at a result message     *)
(* (message_start, before the message counts; message_end, after).  The    *)
(* rejection leaves executeToolCalls; tools that are running go on.        *)
(***************************************************************************)
ThrowInPreparation(st) ==
    /\ stage = "prepare"
    /\ st \in {"started", "ended"}
    /\ status' = [status EXCEPT ![next] = st]
    /\ stage' = "failed"
    /\ UNCHANGED <<size, plan, sequential, terminates, next, cursor, emitted,
                   terminate, aborted>>

ThrowAtToolEnd(i) ==
    /\ stage = "run"
    /\ i \in Calls
    /\ status[i] = "running"
    /\ status' = [status EXCEPT ![i] = "ended"]
    /\ stage' = "failed"
    /\ UNCHANGED <<size, plan, sequential, terminates, next, cursor, emitted,
                   terminate, aborted>>

ThrowAtResult(counts) ==
    /\ stage = "run"
    /\ NoneRunning
    /\ cursor <= next
    /\ emitted' = IF counts THEN Append(emitted, cursor) ELSE emitted
    /\ cursor' = IF counts THEN cursor + 1 ELSE cursor
    /\ stage' = "failed"
    /\ UNCHANGED <<size, plan, sequential, status, terminates, next,
                   terminate, aborted>>

Throw == \/ \E st \in {"started", "ended"} : ThrowInPreparation(st)
         \/ \E i \in Calls : ThrowAtToolEnd(i)
         \/ \E counts \in BOOLEAN : ThrowAtResult(counts)

(***************************************************************************)
(* A tool still running after the batch has failed ends unobserved.        *)
(***************************************************************************)
OrphanEnds(i) ==
    /\ stage = "failed"
    /\ i \in Calls
    /\ status[i] = "running"
    /\ status' = [status EXCEPT ![i] = "ended"]
    /\ UNCHANGED <<size, plan, sequential, terminates, next, cursor, emitted,
                   stage, terminate, aborted>>

Abort ==
    /\ stage \notin {"done", "failed"}
    /\ ~aborted
    /\ aborted' = TRUE
    /\ UNCHANGED batchVars

(***************************************************************************)
(* One batch on its own: any message and plan, then its execution.  In the *)
(* idle state the batch variables hold no batch yet.                       *)
(***************************************************************************)
BatchInit ==
    /\ size = 1
    /\ plan = [i \in 1..1 |-> 1]
    /\ sequential = FALSE
    /\ status = [i \in 1..1 |-> "waiting"]
    /\ terminates = [i \in 1..1 |-> FALSE]
    /\ next = 1
    /\ cursor = 1
    /\ emitted = <<>>
    /\ stage = "idle"
    /\ terminate = FALSE

(* executeToolCalls has returned or thrown: its batch is gone. *)
ForgetBatch ==
    /\ size' = 1
    /\ plan' = [i \in 1..1 |-> 1]
    /\ sequential' = FALSE
    /\ status' = [i \in 1..1 |-> "waiting"]
    /\ terminates' = [i \in 1..1 |-> FALSE]
    /\ next' = 1
    /\ cursor' = 1
    /\ emitted' = <<>>
    /\ stage' = "idle"
    /\ terminate' = FALSE

Begin ==
    /\ stage = "idle"
    /\ \E n \in 1..MaxCalls, seq \in BOOLEAN :
          \E g \in Plans(n) : BeginBatch(n, g, seq)
    /\ UNCHANGED aborted

BatchProgress ==
    \/ \E t \in BOOLEAN : PrepareImmediate(t)
    \/ PrepareRunnable
    \/ StartNextCall
    \/ RunGroup
    \/ \E i \in Calls, t \in BOOLEAN : FinishTool(i, t)
    \/ EmitResult
    \/ NextGroup
    \/ FinishBatch
    \/ \E i \in Calls : OrphanEnds(i)

BatchNext == Begin \/ BatchProgress \/ Throw \/ Abort

allBatchVars == <<batchVars, aborted>>

OneBatchInit == BatchInit /\ aborted = FALSE

BatchSpec == OneBatchInit /\ [][BatchNext]_allBatchVars
                          /\ WF_allBatchVars(BatchProgress)

-----------------------------------------------------------------------------
(***************************************************************************)
(* Properties of executeToolCalls.                                         *)
(***************************************************************************)

\* Result messages leave the batch in assistant source order, without a gap
\* and without a duplicate, whatever order the tools finish in and wherever
\* an abort or a throwing listener cuts the batch off.
ResultsInSourceOrder == \A k \in 1..Len(emitted) : emitted[k] = k

\* Groups run one after another (executeToolCalls): while any call of a later
\* group has been started, every call of an earlier group has ended and its
\* result message is out.
GroupBarrier ==
    \A i, j \in Calls :
        plan[i] < plan[j] /\ status[j] # "waiting"
            => status[i] = "ended" /\ i <= Len(emitted)

\* A batch that returns normally leaves nothing behind: every call that was
\* started has ended and is answered by a result message, and no call runs.
StartedAreAnswered ==
    stage = "done" =>
        \A i \in Calls : status[i] # "waiting"
                            => status[i] = "ended" /\ i <= Len(emitted)

\* The next request to the model is well-formed: unless the run was aborted or
\* the batch asks to terminate, every tool call of the message has a result.
NoCallUnanswered ==
    stage = "done" /\ ~aborted /\ ~terminate => Len(emitted) = size

=============================================================================
