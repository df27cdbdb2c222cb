---------------------------- MODULE ToolTurnProofs ----------------------------
(***************************************************************************)
(* Proofs for ToolBatch, ToolSchedule and ToolTurn, for any number of      *)
(* calls.  Whatever the plan, executeToolCalls keeps the order of its      *)
(* groups and of its results.  Whatever the batch, no group of the plan    *)
(* holds a call that depends on another one's write, and a mutating        *)
(* command is a group of its own.  The composition steps as its two        *)
(* components do, so their invariants hold of it; that the groups of the   *)
(* plan are in source order makes them a plan that executeToolCalls can    *)
(* run, and links what the planner keeps apart with what runs at the same  *)
(* time.                                                                   *)
(***************************************************************************)
EXTENDS ToolTurn, SequenceTheorems, TLAPS

-----------------------------------------------------------------------------
(***************************************************************************)
(* Execution.  In the inductive invariant, calls up to next are started,   *)
(* later ones wait; results are out exactly for the calls before cursor,   *)
(* all of them ended; the calls of earlier groups are all before cursor;   *)
(* only the stage "run" of a batch that has not failed has running tools.  *)
(***************************************************************************)
Frontier ==
    /\ cursor <= next + 1
    /\ \A i \in Calls : i > next => status[i] = "waiting"
    /\ stage # "idle" => \A i \in Calls : i <= next => status[i] # "waiting"

Answered ==
    /\ Len(emitted) = cursor - 1
    /\ \A k \in 1..Len(emitted) : emitted[k] = k
    /\ \A i \in Calls : i < cursor => status[i] = "ended"

EarlierGroupsOut ==
    \A i \in Calls : i <= next /\ plan[i] # plan[next] => i < cursor

StageOK ==
    /\ stage = "idle" => next = 1 /\ cursor = 1
    /\ stage = "prepare" => status[next] = "started"
    /\ stage \in {"prepare", "check"} => cursor <= next
    /\ stage = "prepare" =>
         \A i \in Calls : i < next => status[i] \in {"prepared", "ended"}
    /\ stage = "check" =>
         \A i \in Calls : i <= next => status[i] \in {"prepared", "ended"}
    /\ stage \in {"run", "done"} =>
         \A i \in Calls : i <= next => status[i] \in {"running", "ended"}
    /\ stage = "done" => /\ cursor = next + 1
                         /\ ~aborted /\ ~terminate => next = size

BatchInv == /\ BatchTypeOK
            /\ Frontier
            /\ Answered
            /\ EarlierGroupsOut
            /\ StageOK

\* Initially there is no batch and the invariant holds.
LEMMA BatchInitInv == OneBatchInit => BatchInv
<1> SUFFICES ASSUME BatchInit, aborted = FALSE PROVE BatchInv
  BY DEF OneBatchInit
<1> USE MaxCallsAssumption DEF BatchInit, Calls, Stage, Status
<1>1. sequential \in BOOLEAN /\ terminate \in BOOLEAN /\ aborted \in BOOLEAN
  OBVIOUS
<1>2. plan \in Plans(size) /\ emitted \in Seq(Calls)
  BY DEF Plans
<1>3. BatchTypeOK
  BY <1>1, <1>2 DEF BatchTypeOK
<1>4. Frontier /\ Answered /\ EarlierGroupsOut /\ StageOK
  BY DEF Frontier, Answered, EarlierGroupsOut, StageOK
<1> QED
  BY <1>3, <1>4 DEF BatchInv

\* Every step of a batch preserves the invariant.
LEMMA BatchStepInv == BatchInv /\ [BatchNext]_allBatchVars => BatchInv'
<1> SUFFICES ASSUME BatchInv, [BatchNext]_allBatchVars PROVE BatchInv'
  OBVIOUS
<1> USE MaxCallsAssumption DEF BatchInv, BatchTypeOK, Frontier, Answered,
        EarlierGroupsOut, StageOK, Calls, Stage, Status
<1>1. CASE Begin
  <2>1. PICK n \in 1..MaxCalls, seq \in BOOLEAN :
           \E g \in Plans(n) : BeginBatch(n, g, seq)
    BY <1>1 DEF Begin
  <2>2. PICK g \in Plans(n) : BeginBatch(n, g, seq)
    BY <2>1
  <2>3. BatchTypeOK'
    <3>1. terminate' \in BOOLEAN /\ aborted' \in BOOLEAN /\ sequential' \in BOOLEAN
      BY <1>1, <2>2, Zenon DEF Begin, BeginBatch
    <3>2. plan' \in Plans(size')
      BY <2>2 DEF BeginBatch
    <3> QED
      BY <2>2, <3>1, <3>2 DEF BeginBatch
  <2>4. (Frontier /\ Answered)' 
    BY <2>2 DEF BeginBatch
  <2>5. (EarlierGroupsOut /\ StageOK)'
    BY <2>2 DEF BeginBatch
  <2> QED
    BY <2>3, <2>4, <2>5
<1>2. ASSUME NEW t \in BOOLEAN, PrepareImmediate(t) PROVE BatchInv'
  BY <1>2 DEF PrepareImmediate
<1>3. CASE PrepareRunnable
  BY <1>3 DEF PrepareRunnable
<1>4. CASE StartNextCall
  <2>1. PICK k \in Calls : k > next /\ plan[k] = plan[next]
    BY <1>4 DEF StartNextCall, LastOfGroup
  <2>2. next + 1 \in Calls /\ plan[next + 1] = plan[next]
    BY <2>1 DEF Plans
  <2>3. BatchTypeOK'
    BY <1>4, <2>2 DEF StartNextCall
  <2>4. (Frontier /\ Answered /\ StageOK)'
    BY <1>4, <2>2 DEF StartNextCall
  <2>5. EarlierGroupsOut'
    BY <1>4, <2>2 DEF StartNextCall, Plans
  <2> QED
    BY <2>3, <2>4, <2>5
<1>5. CASE RunGroup
  BY <1>5 DEF RunGroup
<1>6. ASSUME NEW i \in Calls, NEW t \in BOOLEAN, FinishTool(i, t)
      PROVE  BatchInv'
  BY <1>6 DEF FinishTool
<1>7. CASE EmitResult
  BY <1>7 DEF EmitResult, NoneRunning
<1>8. CASE NextGroup
  BY <1>8 DEF NextGroup, GroupDone, StopsHere, NoneRunning
<1>9. CASE FinishBatch
  BY <1>9 DEF FinishBatch, GroupDone, StopsHere, BatchTerminate,
              ShouldTerminateToolBatch, Grouped, Group
<1>10. ASSUME NEW st \in {"started", "ended"}, ThrowInPreparation(st)
       PROVE  BatchInv'
  BY <1>10 DEF ThrowInPreparation
<1>11. ASSUME NEW i \in Calls, ThrowAtToolEnd(i) PROVE BatchInv'
  BY <1>11 DEF ThrowAtToolEnd
<1>12. ASSUME NEW counts \in BOOLEAN, ThrowAtResult(counts) PROVE BatchInv'
  <2>1. CASE counts
    BY <1>12, <2>1 DEF ThrowAtResult, NoneRunning
  <2>2. CASE ~counts
    BY <1>12, <2>2 DEF ThrowAtResult
  <2> QED
    BY <2>1, <2>2
<1>13. ASSUME NEW i \in Calls, OrphanEnds(i) PROVE BatchInv'
  BY <1>13 DEF OrphanEnds
<1>14. CASE Abort
  BY <1>14 DEF Abort, batchVars
<1>15. CASE UNCHANGED allBatchVars
  BY <1>15 DEF allBatchVars, batchVars, Plans
<1> QED
  BY <1>1, <1>2, <1>3, <1>4, <1>5, <1>6, <1>7, <1>8, <1>9, <1>10, <1>11,
     <1>12, <1>13, <1>14, <1>15 DEF BatchNext, BatchProgress, Throw

\* The inductive invariant holds in every reachable state.
THEOREM BatchInvariant == BatchSpec => []BatchInv
BY BatchInitInv, BatchStepInv, PTL DEF BatchSpec

\* The types of the batch variables (BatchTypeOK) hold in every state.
THEOREM BatchTypeCorrect == BatchSpec => []BatchTypeOK
BY BatchInvariant, PTL DEF BatchInv

\* emitToolResultMessage: results in assistant source order, no gap, no
\* duplicate, for every batch, plan and interleaving.
THEOREM ResultsOrdered == BatchSpec => []ResultsInSourceOrder
<1>1. BatchInv => ResultsInSourceOrder
  BY DEF BatchInv, Answered, ResultsInSourceOrder
<1> QED
  BY <1>1, BatchInvariant, PTL

\* A call of a later group starts only when the earlier groups are all out.
LEMMA BatchKeepsGroups == BatchInv => GroupBarrier
<1> SUFFICES ASSUME BatchInv, NEW i \in Calls, NEW j \in Calls,
                    plan[i] < plan[j], status[j] # "waiting"
             PROVE  status[i] = "ended" /\ i <= Len(emitted)
  BY DEF GroupBarrier
<1>1. /\ size \in Nat /\ next \in 1..size /\ cursor \in Nat
      /\ \A k \in Calls : plan[k] \in Nat
      /\ \A k, m \in Calls : k <= m => plan[k] <= plan[m]
  <2>1. size \in Nat /\ next \in 1..size /\ cursor \in Nat /\ plan \in Plans(size)
    BY MaxCallsAssumption DEF BatchInv, BatchTypeOK, Calls
  <2>2. plan \in [1..size -> 1..size]
    BY <2>1 DEF Plans
  <2>3. \A k, m \in 1..size : k <= m => plan[k] <= plan[m]
    BY <2>1 DEF Plans
  <2>4. \A k \in 1..size : plan[k] \in Nat
    BY <2>1, <2>2
  <2> QED
    BY <2>1, <2>3, <2>4, Zenon DEF Calls
<1>2. j <= next
  BY <1>1 DEF BatchInv, Frontier, Calls
<1>3. plan[j] <= plan[next] /\ i <= j
  BY <1>1, <1>2 DEF Calls
<1>4. i < cursor
  BY <1>1, <1>2, <1>3 DEF BatchInv, EarlierGroupsOut, Calls
<1> QED
  BY <1>1, <1>4 DEF BatchInv, Answered, Calls

\* executeToolCalls runs the groups of every plan one after another.
THEOREM GroupsRunInTurn == BatchSpec => []GroupBarrier
BY BatchKeepsGroups, BatchInvariant, PTL

\* A batch that returns normally has ended and answered all it started.
THEOREM BatchLeavesNothing == BatchSpec => []StartedAreAnswered
<1>1. BatchInv => StartedAreAnswered
  BY DEF BatchInv, BatchTypeOK, Frontier, Answered, StageOK,
         StartedAreAnswered, Calls
<1> QED
  BY <1>1, BatchInvariant, PTL

\* Unless aborted or terminating, a batch answers every call of its message.
THEOREM BatchAnswersAll == BatchSpec => []NoCallUnanswered
<1>1. BatchInv => NoCallUnanswered
  BY DEF BatchInv, BatchTypeOK, Frontier, Answered, StageOK,
         NoCallUnanswered, Calls
<1> QED
  BY <1>1, BatchInvariant, PTL

-----------------------------------------------------------------------------
(***************************************************************************)
(* The plan.  The inductive invariant: written covers every write of the   *)
(* open group.                                                             *)
(***************************************************************************)
PlannerTypes ==
    /\ calls \in Seq(Call)
    /\ position \in 0..Len(calls)
    /\ groups \in Seq(Seq(1..Len(calls)))
    /\ open \in Seq(1..Len(calls))

WrittenCoversOpen ==
    \A k \in 1..Len(open) : Kind(open[k]) = "write" => Target(open[k]) \in written

PlanInv ==
    /\ PlannerTypes
    /\ WrittenCoversOpen
    /\ WritesSeenLater
    /\ BarriersAlone

\* planToolGroups starts with no group and nothing written.
LEMMA PlanInitInv == ScheduleInit => PlanInv
<1> SUFFICES ASSUME ScheduleInit PROVE PlanInv
    OBVIOUS
<1>1. calls \in Seq(Call)
    BY SeqDef, ScheduleAssumption DEF ScheduleInit, BoundedSeq, SeqOf
<1>2. PlannerTypes
    BY <1>1 DEF ScheduleInit, PlannerTypes
<1>3. WrittenCoversOpen /\ WritesSeenLater /\ BarriersAlone
    BY DEF ScheduleInit, WrittenCoversOpen, WritesSeenLater, NoLaterTouch, BarriersAlone
<1> QED BY <1>2, <1>3 DEF PlanInv

\* close() keeps what holds of the groups and of the open group.
LEMMA ClosedGroups ==
    ASSUME PlanInv
    PROVE  /\ Closed \in Seq(Seq(1..Len(calls)))
           /\ \A k \in 1..Len(Closed) : NoLaterTouch(Closed[k])
           /\ \A k \in 1..Len(Closed) :
                 (\E m \in 1..Len(Closed[k]) : Kind(Closed[k][m]) = "barrier")
                     => Len(Closed[k]) = 1
<1>1. CASE open = <<>>
    BY <1>1 DEF Closed, PlanInv, PlannerTypes, WritesSeenLater, BarriersAlone
<1>2. CASE open # <<>>
  <2>1. Closed = Append(groups, open)
    BY <1>2 DEF Closed
  <2>2. Closed \in Seq(Seq(1..Len(calls))) /\ Len(Closed) = Len(groups) + 1
    BY <2>1 DEF PlanInv, PlannerTypes
  <2>3. \A k \in 1..Len(Closed) : \/ k \in 1..Len(groups) /\ Closed[k] = groups[k]
                                  \/ Closed[k] = open
    <3>1. /\ groups \in Seq(Seq(1..Len(calls))) /\ open \in Seq(1..Len(calls))
      BY DEF PlanInv, PlannerTypes
    <3>2. /\ \A k \in 1..Len(groups) : Append(groups, open)[k] = groups[k]
          /\ Append(groups, open)[Len(groups) + 1] = open
          /\ Len(groups) \in Nat
      BY <3>1, AppendProperties, LenProperties
    <3>3. \A k \in 1..Len(Closed) : k \in 1..Len(groups) \/ k = Len(groups) + 1
      BY <2>2, <3>2
    <3> QED BY <2>1, <3>2, <3>3
  <2>4. \A k \in 1..Len(Closed) : NoLaterTouch(Closed[k])
    BY <2>3, Zenon DEF PlanInv, WritesSeenLater
  <2>5. \A k \in 1..Len(Closed) :
           (\E m \in 1..Len(Closed[k]) : Kind(Closed[k][m]) = "barrier")
               => Len(Closed[k]) = 1
    BY <2>3, Zenon DEF PlanInv, BarriersAlone
  <2> QED BY <2>2, <2>4, <2>5
<1> QED BY <1>1, <1>2

\* Every turn of the planner's loop preserves the invariant.  Kind and Target
\* depend on the batch only, which a step leaves alone.
LEMMA PlanStepInv == PlanInv /\ [ScheduleNext]_scheduleVars => PlanInv'
<1> SUFFICES ASSUME PlanInv, [ScheduleNext]_scheduleVars PROVE PlanInv'
    OBVIOUS
<1>1. CASE Plan
  <2> DEFINE i == position + 1
  <2>1. i \in 1..Len(calls) /\ position' = i /\ calls' = calls
    BY <1>1 DEF Plan, PlanInv, PlannerTypes
  <2>2. \A j : Kind(j)' = Kind(j) /\ Target(j)' = Target(j)
    BY <2>1 DEF Kind, Target, Named
  <2>3. \A g : NoLaterTouch(g)' = NoLaterTouch(g)
    BY <2>2 DEF NoLaterTouch
  <2>4. CASE PlanBarrier(i)
    <3>1. PlannerTypes'
      BY <2>1, <2>4, ClosedGroups DEF PlanBarrier, PlanInv, PlannerTypes
    <3>2. WrittenCoversOpen'
      BY <2>4 DEF PlanBarrier, WrittenCoversOpen
    <3>3. \A k \in 1..Len(groups') : \/ k \in 1..Len(Closed) /\ groups'[k] = Closed[k]
                                     \/ groups'[k] = <<i>>
      BY <2>1, <2>4, ClosedGroups DEF PlanBarrier
    <3>4. NoLaterTouch(<<i>>) /\ NoLaterTouch(<<>>)
      BY DEF NoLaterTouch
    <3>5. WritesSeenLater'
      BY <2>3, <2>4, <3>3, <3>4, ClosedGroups, Zenon DEF PlanBarrier, WritesSeenLater
    <3>6. Len(<<i>>) = 1
      OBVIOUS
    <3>7. BarriersAlone'
      <4>1. \A k \in 1..Len(groups') :
               (\E m \in 1..Len(groups'[k]) : Kind(groups'[k][m]) = "barrier")
                   => Len(groups'[k]) = 1
        BY <3>3, <3>6, ClosedGroups, Zenon
      <4>2. open' = <<>>
        BY <2>4 DEF PlanBarrier
      <4> QED BY <2>2, <4>1, <4>2 DEF BarriersAlone
    <3> QED BY <3>1, <3>2, <3>5, <3>7 DEF PlanInv
  <2>5. CASE PlanConflicting(i)
    <3>1. groups' = Closed /\ open' = <<i>> /\ written' = Writes(i) /\ Kind(i) # "barrier"
      BY <2>5 DEF PlanConflicting
    <3>2. PlannerTypes'
      BY <2>1, <3>1, ClosedGroups DEF PlanInv, PlannerTypes
    <3>3. WrittenCoversOpen'
      BY <2>2, <3>1 DEF WrittenCoversOpen, Writes
    <3>4. NoLaterTouch(<<i>>)
      BY DEF NoLaterTouch
    <3>5. WritesSeenLater'
      BY <2>3, <3>1, <3>4, ClosedGroups DEF WritesSeenLater
    <3>6. BarriersAlone'
      BY <2>2, <3>1, ClosedGroups DEF BarriersAlone
    <3> QED BY <3>2, <3>3, <3>5, <3>6 DEF PlanInv
  <2>6. CASE PlanJoining(i)
    <3>1. /\ groups' = groups /\ open' = Append(open, i)
          /\ written' = written \cup Writes(i)
          /\ Kind(i) # "barrier" /\ ~Conflicts(i)
      BY <2>6 DEF PlanJoining
    <3>2. PlannerTypes' /\ Len(open') = Len(open) + 1
      BY <2>1, <3>1 DEF PlanInv, PlannerTypes
    <3>3. \A k \in 1..Len(open') : \/ k \in 1..Len(open) /\ open'[k] = open[k]
                                   \/ k = Len(open) + 1 /\ open'[k] = i
      BY <2>1, <3>1 DEF PlanInv, PlannerTypes
    <3>4. WrittenCoversOpen'
      BY <2>2, <3>1, <3>3 DEF PlanInv, WrittenCoversOpen, Writes
    <3>5. NoLaterTouch(open')
      \* an earlier write of the group is in written, which i does not touch
      <4> SUFFICES ASSUME NEW k \in 1..Len(open'), NEW m \in 1..Len(open'),
                          k < m, Kind(open'[k]) = "write",
                          Kind(open'[m]) \in {"read", "write"},
                          Target(open'[m]) = Target(open'[k])
                   PROVE  FALSE
        BY DEF NoLaterTouch
      <4>0. Len(open) \in Nat
        BY DEF PlanInv, PlannerTypes
      <4>1. k \in 1..Len(open) /\ open'[k] = open[k]
        <5>1. k # Len(open) + 1
          BY <3>2, <4>0
        <5> QED BY <3>3, <5>1
      <4>2. Target(open[k]) \in written
        BY <4>1 DEF PlanInv, WrittenCoversOpen
      <4>3. CASE m \in 1..Len(open) /\ open'[m] = open[m]
        BY <4>1, <4>3 DEF PlanInv, WritesSeenLater, NoLaterTouch
      <4>4. CASE open'[m] = i
        BY <3>1, <4>1, <4>2, <4>4 DEF Conflicts
      <4> QED BY <3>3, <4>3, <4>4
    <3>6. WritesSeenLater'
      BY <2>3, <3>1, <3>5 DEF PlanInv, WritesSeenLater
    <3>7. BarriersAlone'
      BY <2>2, <3>1, <3>3 DEF PlanInv, BarriersAlone
    <3> QED BY <3>2, <3>4, <3>6, <3>7 DEF PlanInv
  <2> QED BY <1>1, <2>4, <2>5, <2>6 DEF Plan
<1>2. CASE Return
  <2>1. calls' = calls /\ groups' = Closed /\ open' = <<>> /\ position' = position
    BY <1>2 DEF Return
  <2>2. \A j : Kind(j)' = Kind(j) /\ Target(j)' = Target(j)
    BY <2>1 DEF Kind, Target, Named
  <2>3. \A g : NoLaterTouch(g)' = NoLaterTouch(g)
    BY <2>2 DEF NoLaterTouch
  <2>4. PlannerTypes' /\ WrittenCoversOpen'
    BY <2>1, ClosedGroups DEF PlanInv, PlannerTypes, WrittenCoversOpen
  <2>5. NoLaterTouch(<<>>)
    BY DEF NoLaterTouch
  <2>6. WritesSeenLater'
    BY <2>1, <2>3, <2>5, ClosedGroups DEF WritesSeenLater
  <2>7. BarriersAlone'
    BY <2>1, <2>2, ClosedGroups DEF BarriersAlone
  <2> QED BY <2>4, <2>6, <2>7 DEF PlanInv
<1>3. CASE UNCHANGED scheduleVars
  <2>1. UNCHANGED <<calls, position, groups, open, written>>
    BY <1>3 DEF scheduleVars
  <2>2. \A j : Kind(j)' = Kind(j) /\ Target(j)' = Target(j)
    BY <2>1 DEF Kind, Target, Named
  <2>3. \A g : NoLaterTouch(g)' = NoLaterTouch(g)
    BY <2>2 DEF NoLaterTouch
  <2>4. PlannerTypes' /\ WrittenCoversOpen'
    BY <2>1, <2>2 DEF PlanInv, PlannerTypes, WrittenCoversOpen
  <2>5. WritesSeenLater' /\ BarriersAlone'
    BY <2>1, <2>2, <2>3 DEF PlanInv, WritesSeenLater, BarriersAlone
  <2> QED BY <2>4, <2>5 DEF PlanInv
<1> QED BY <1>1, <1>2, <1>3 DEF ScheduleNext

\* The planner's invariant holds at every turn of its loop, for every batch.
THEOREM PlanInvariant == ScheduleSpec => []PlanInv
BY PlanInitInv, PlanStepInv, PTL DEF ScheduleSpec

\* No call of a group depends on a write of the same group: a call that reads
\* or writes a path after a write to it is in a later group, for every batch.
THEOREM LaterCallsSeeWrites == ScheduleSpec => []WritesSeenLater
BY PlanInvariant, PTL DEF PlanInv

\* A mutating command never shares its group, for every batch.
THEOREM MutatingCommandsAlone == ScheduleSpec => []BarriersAlone
BY PlanInvariant, PTL DEF PlanInv

-----------------------------------------------------------------------------
(***************************************************************************)
(* The order of the plan.  The groups and the open group hold the calls    *)
(* looked at so far, in source order; no group is empty, so that a call's  *)
(* position is at least the number of its group.                           *)
(***************************************************************************)
Within(g) == \A k, m \in 1..Len(g) : k < m => g[k] < g[m]

Precedes(g, h) == \A k \in 1..Len(g), m \in 1..Len(h) : g[k] < h[m]

Holds(g, i) == \E k \in 1..Len(g) : g[k] = i

GroupsInOrder ==
    /\ Len(groups) <= position
    /\ \A a \in 1..Len(groups) :
          /\ groups[a] # <<>> /\ Within(groups[a])
          /\ \A k \in 1..Len(groups[a]) : groups[a][k] \in a..position
    /\ \A a, b \in 1..Len(groups) : a < b => Precedes(groups[a], groups[b])

OpenInOrder ==
    /\ Within(open)
    /\ \A k \in 1..Len(open) : open[k] \in (Len(groups) + 1)..position
    /\ \A a \in 1..Len(groups) : Precedes(groups[a], open)

AllPlanned ==
    \A i \in 1..position :
        Holds(open, i) \/ \E a \in 1..Len(groups) : Holds(groups[a], i)

OrderInv == GroupsInOrder /\ OpenInOrder /\ AllPlanned

\* close() leaves the groups in order and holding every call looked at.
LEMMA ClosedInOrder ==
    ASSUME PlannerTypes, OrderInv
    PROVE  /\ Closed \in Seq(Seq(1..Len(calls)))
           /\ Len(Closed) <= position
           /\ \A a \in 1..Len(Closed) :
                /\ Closed[a] # <<>> /\ Within(Closed[a])
                /\ \A k \in 1..Len(Closed[a]) : Closed[a][k] \in a..position
           /\ \A a, b \in 1..Len(Closed) : a < b => Precedes(Closed[a], Closed[b])
           /\ \A i \in 1..position : \E a \in 1..Len(Closed) : Holds(Closed[a], i)
<1>1. CASE open = <<>>
  BY <1>1 DEF Closed, PlannerTypes, OrderInv, GroupsInOrder, OpenInOrder,
              AllPlanned, Holds
<1>2. CASE open # <<>>
  <2>0. Len(groups) \in Nat /\ position \in Nat
    BY DEF PlannerTypes
  <2>1. Closed = Append(groups, open)
    BY <1>2 DEF Closed
  <2>2. Closed \in Seq(Seq(1..Len(calls))) /\ Len(Closed) = Len(groups) + 1
    BY <2>1 DEF PlannerTypes
  <2>3. /\ \A a \in 1..Len(groups) : Closed[a] = groups[a]
        /\ Closed[Len(groups) + 1] = open
    BY <2>1 DEF PlannerTypes
  <2>4. \A a \in 1..Len(Closed) : a \in 1..Len(groups) \/ a = Len(groups) + 1
    BY <2>0, <2>2
  <2>5. Len(Closed) <= position
    <3>1. 1 \in 1..Len(open)
      BY <1>2 DEF PlannerTypes
    <3>2. open[1] \in (Len(groups) + 1)..position
      BY <3>1 DEF OrderInv, OpenInOrder
    <3> QED
      BY <2>0, <2>2, <3>2
  <2>6. \A a \in 1..Len(Closed) :
          /\ Closed[a] # <<>> /\ Within(Closed[a])
          /\ \A k \in 1..Len(Closed[a]) : Closed[a][k] \in a..position
    BY <1>2, <2>3, <2>4, Zenon DEF OrderInv, GroupsInOrder, OpenInOrder
  <2>7. ASSUME NEW a \in 1..Len(Closed), NEW b \in 1..Len(Closed), a < b
        PROVE  Precedes(Closed[a], Closed[b])
    <3>1. a \in 1..Len(groups)
      BY <2>0, <2>2, <2>7
    <3>2. CASE b \in 1..Len(groups)
      BY <2>3, <2>7, <3>1, <3>2 DEF OrderInv, GroupsInOrder
    <3>3. CASE b = Len(groups) + 1
      BY <2>3, <3>1, <3>3 DEF OrderInv, OpenInOrder
    <3> QED
      BY <2>4, <3>2, <3>3
  <2>8. \A i \in 1..position : \E a \in 1..Len(Closed) : Holds(Closed[a], i)
    <3> SUFFICES ASSUME NEW i \in 1..position
                 PROVE  \E a \in 1..Len(Closed) : Holds(Closed[a], i)
      OBVIOUS
    <3>1. CASE Holds(open, i)
      <4>1. Len(groups) + 1 \in 1..Len(Closed)
        BY <2>0, <2>2
      <4> QED
        BY <2>3, <3>1, <4>1
    <3>2. ASSUME NEW a \in 1..Len(groups), Holds(groups[a], i)
          PROVE  \E b \in 1..Len(Closed) : Holds(Closed[b], i)
      <4>1. a \in 1..Len(Closed) /\ Closed[a] = groups[a]
        BY <2>0, <2>2, <2>3
      <4> QED
        BY <3>2, <4>1
    <3> QED
      BY <3>1, <3>2 DEF OrderInv, AllPlanned
  <2> QED
    BY <2>2, <2>5, <2>6, <2>7, <2>8
<1> QED
  BY <1>1, <1>2

\* planToolGroups starts with nothing planned.
LEMMA OrderInit == ScheduleInit => OrderInv
BY DEF ScheduleInit, OrderInv, GroupsInOrder, OpenInOrder, AllPlanned, Within

\* Every turn of the planner's loop keeps the plan in order.
LEMMA OrderStep ==
    ASSUME PlannerTypes, OrderInv, [ScheduleNext]_scheduleVars
    PROVE  OrderInv'
<1>0. Len(groups) \in Nat /\ position \in Nat /\ Len(Closed) \in Nat
  BY ClosedInOrder DEF PlannerTypes
<1>1. CASE Plan
  <2> DEFINE i == position + 1
  <2>1. i \in 1..Len(calls) /\ position' = i
    BY <1>1 DEF Plan, PlannerTypes
  <2>2. Within(<<i>>) /\ \A k \in 1..Len(<<i>>) : <<i>>[k] = i
    BY DEF Within
  <2>3. CASE PlanBarrier(i)
    <3>1. groups' = Append(Closed, <<i>>) /\ open' = <<>>
      BY <2>3 DEF PlanBarrier
    <3>2. /\ Len(groups') = Len(Closed) + 1
          /\ \A a \in 1..Len(Closed) : groups'[a] = Closed[a]
          /\ groups'[Len(Closed) + 1] = <<i>>
      BY <2>1, <3>1, ClosedInOrder
    <3>3. \A a \in 1..Len(groups') : a \in 1..Len(Closed) \/ a = Len(Closed) + 1
      BY <1>0, <3>2
    <3>4. \A a \in 1..Len(Closed) : \A k \in 1..Len(Closed[a]) :
             Closed[a][k] \in a..position' /\ Closed[a][k] < i
      <4> SUFFICES ASSUME NEW a \in 1..Len(Closed), NEW k \in 1..Len(Closed[a])
                   PROVE  Closed[a][k] \in a..position' /\ Closed[a][k] < i
        OBVIOUS
      <4>1. Closed[a][k] \in a..position
        BY ClosedInOrder
      <4> QED
        BY <1>0, <2>1, <4>1
    <3>5. \A a \in 1..Len(Closed) : Precedes(Closed[a], <<i>>)
      BY <3>4, <2>2 DEF Precedes
    <3>6. GroupsInOrder'
      <4>1. Len(groups') <= position'
        BY <1>0, <2>1, <3>2, ClosedInOrder
      <4>2. \A k \in 1..Len(<<i>>) : <<i>>[k] \in (Len(Closed) + 1)..position'
        BY <1>0, <2>1, ClosedInOrder
      <4>3. <<i>> # <<>>
        OBVIOUS
      <4>4. \A a \in 1..Len(groups') :
              /\ groups'[a] # <<>> /\ Within(groups'[a])
              /\ \A k \in 1..Len(groups'[a]) : groups'[a][k] \in a..position'
        BY <2>2, <3>2, <3>3, <3>4, <4>2, <4>3, ClosedInOrder, Zenon
      <4>5. \A a, b \in 1..Len(groups') :
               a < b => Precedes(groups'[a], groups'[b])
        <5> SUFFICES ASSUME NEW a \in 1..Len(groups'), NEW b \in 1..Len(groups'), a < b
                     PROVE  Precedes(groups'[a], groups'[b])
          OBVIOUS
        <5>1. a \in 1..Len(Closed)
          BY <1>0, <3>2
        <5> QED
          BY <3>2, <3>3, <3>5, <5>1, ClosedInOrder
      <4> QED
        BY <4>1, <4>4, <4>5 DEF GroupsInOrder, Within, Precedes
    <3>7. OpenInOrder'
      BY <3>1 DEF OpenInOrder, Within, Precedes
    <3>8. AllPlanned'
      <4> SUFFICES ASSUME NEW j \in 1..position'
                   PROVE  \E a \in 1..Len(groups') : Holds(groups'[a], j)
        BY DEF AllPlanned, Holds
      <4>1. CASE j \in 1..position
        BY <1>0, <3>2, <4>1, ClosedInOrder
      <4>2. CASE j = i
        BY <1>0, <2>2, <3>2, <4>2 DEF Holds
      <4> QED
        BY <1>0, <2>1, <4>1, <4>2
    <3> QED
      BY <3>6, <3>7, <3>8 DEF OrderInv
  <2>4. CASE PlanConflicting(i)
    <3>1. groups' = Closed /\ open' = <<i>>
      BY <2>4 DEF PlanConflicting
    <3>2. GroupsInOrder'
      <4>1. \A a \in 1..Len(Closed) : a..position \subseteq a..position'
        BY <1>0, <2>1
      <4>2. Len(Closed) <= position'
        BY <1>0, <2>1, ClosedInOrder
      <4>3. \A a \in 1..Len(Closed) :
              /\ Closed[a] # <<>> /\ Within(Closed[a])
              /\ \A k \in 1..Len(Closed[a]) : Closed[a][k] \in a..position'
        BY <4>1, ClosedInOrder, Zenon
      <4>4. \A a, b \in 1..Len(Closed) : a < b => Precedes(Closed[a], Closed[b])
        BY ClosedInOrder
      <4> QED
        BY <3>1, <4>2, <4>3, <4>4 DEF GroupsInOrder, Within, Precedes
    <3>3. OpenInOrder'
      <4>1. \A a \in 1..Len(Closed) : \A k \in 1..Len(Closed[a]) : Closed[a][k] < i
        <5> SUFFICES ASSUME NEW a \in 1..Len(Closed), NEW k \in 1..Len(Closed[a])
                     PROVE  Closed[a][k] < i
          OBVIOUS
        <5>1. Closed[a][k] \in a..position
          BY ClosedInOrder
        <5> QED
          BY <1>0, <5>1
      <4>2. \A a \in 1..Len(Closed) : Precedes(Closed[a], <<i>>)
        BY <2>2, <4>1 DEF Precedes
      <4>3. i \in (Len(Closed) + 1)..position'
        BY <1>0, <2>1, ClosedInOrder
      <4> QED
        BY <2>2, <3>1, <4>2, <4>3 DEF OpenInOrder, Within, Precedes
    <3>4. AllPlanned'
      <4> SUFFICES ASSUME NEW j \in 1..position'
                   PROVE  \/ Holds(open', j)
                          \/ \E a \in 1..Len(groups') : Holds(groups'[a], j)
        BY DEF AllPlanned, Holds
      <4>1. CASE j \in 1..position
        BY <3>1, <4>1, ClosedInOrder
      <4>2. CASE j = i
        BY <2>2, <3>1, <4>2 DEF Holds
      <4> QED
        BY <1>0, <2>1, <4>1, <4>2
    <3> QED
      BY <3>2, <3>3, <3>4 DEF OrderInv
  <2>5. CASE PlanJoining(i)
    <3>1. groups' = groups /\ open' = Append(open, i)
      BY <2>5 DEF PlanJoining
    <3>2. /\ Len(open') = Len(open) + 1 /\ Len(open) \in Nat
          /\ \A k \in 1..Len(open) : open'[k] = open[k]
          /\ open'[Len(open) + 1] = i
      BY <2>1, <3>1 DEF PlannerTypes
    <3>3. \A k \in 1..Len(open') : k \in 1..Len(open) \/ k = Len(open) + 1
      BY <3>2
    <3>4. GroupsInOrder'
      <4>1. \A a \in 1..Len(groups) : a..position \subseteq a..position'
        BY <1>0, <2>1
      <4>2. Len(groups) <= position'
        BY <1>0, <2>1 DEF OrderInv, GroupsInOrder
      <4> QED
        BY <3>1, <4>1, <4>2 DEF OrderInv, GroupsInOrder, Within, Precedes
    <3>5. OpenInOrder'
      <4>1. \A k \in 1..Len(open) : open[k] \in (Len(groups) + 1)..position
        BY DEF OrderInv, OpenInOrder
      <4>2. \A k \in 1..Len(open') : open'[k] \in (Len(groups') + 1)..position'
        BY <1>0, <2>1, <3>1, <3>2, <3>3, <4>1 DEF OrderInv, GroupsInOrder
      <4>3. \A k, m \in 1..Len(open') : k < m => open'[k] < open'[m]
        BY <1>0, <3>2, <3>3, <4>1 DEF OrderInv, OpenInOrder, Within
      <4>4. \A a \in 1..Len(groups) : \A k \in 1..Len(groups[a]) : groups[a][k] < i
        BY <1>0 DEF OrderInv, GroupsInOrder
      <4>5. \A a \in 1..Len(groups') : \A k \in 1..Len(groups[a]), m \in 1..Len(open') :
               groups'[a][k] < open'[m]
        BY <3>1, <3>2, <3>3, <4>4 DEF OrderInv, OpenInOrder, Precedes
      <4> QED
        BY <3>1, <4>2, <4>3, <4>5 DEF OpenInOrder, Within, Precedes
    <3>6. AllPlanned'
      <4> SUFFICES ASSUME NEW j \in 1..position'
                   PROVE  Holds(open', j) \/ \E a \in 1..Len(groups') : Holds(groups'[a], j)
        BY DEF AllPlanned, Holds
      <4>1. CASE j \in 1..position
        <5>1. Holds(open, j) => Holds(open', j)
          BY <3>2 DEF Holds
        <5> QED
          BY <3>1, <4>1, <5>1 DEF OrderInv, AllPlanned
      <4>2. CASE j = i
        BY <3>2, <4>2 DEF Holds
      <4> QED
        BY <1>0, <2>1, <4>1, <4>2
    <3> QED
      BY <3>4, <3>5, <3>6 DEF OrderInv
  <2> QED
    BY <1>1, <2>3, <2>4, <2>5 DEF Plan
<1>2. CASE Return
  <2>1. groups' = Closed /\ open' = <<>> /\ position' = position
    BY <1>2 DEF Return
  <2> QED
    BY <2>1, ClosedInOrder DEF OrderInv, GroupsInOrder, OpenInOrder, AllPlanned,
                               Within, Precedes, Holds
<1>3. CASE UNCHANGED scheduleVars
  BY <1>3 DEF scheduleVars, OrderInv, GroupsInOrder, OpenInOrder, AllPlanned, Within,
              Precedes, Holds
<1> QED
  BY <1>1, <1>2, <1>3 DEF ScheduleNext

-----------------------------------------------------------------------------
\* The groups of the finished plan number the calls the way partitionToolCalls
\* must: each call in one group, from group 1 on, never going back.
LEMMA GroupsMakeAPlan ==
    ASSUME PlannerTypes, OrderInv, Planned, Len(calls) > 0
    PROVE  /\ \A i \in 1..Len(calls) :
                 GroupOf(i) \in 1..Len(groups) /\ Holds(groups[GroupOf(i)], i)
           /\ [i \in 1..Len(calls) |-> GroupOf(i)] \in Plans(Len(calls))
<1>0. Len(calls) \in Nat /\ Len(groups) \in Nat /\ position = Len(calls)
  BY DEF PlannerTypes, Planned
<1>1. \A i \in 1..Len(calls) : \E a \in 1..Len(groups) : Holds(groups[a], i)
  BY DEF Planned, OrderInv, AllPlanned, Holds
<1>2. \A i \in 1..Len(calls) :
         GroupOf(i) \in 1..Len(groups) /\ Holds(groups[GroupOf(i)], i)
  BY <1>1 DEF GroupOf, Holds
<1>3. \A i \in 1..Len(calls) : GroupOf(i) \in 1..i
  <2> SUFFICES ASSUME NEW i \in 1..Len(calls) PROVE GroupOf(i) \in 1..i
    OBVIOUS
  <2>1. i \in GroupOf(i)..position
    BY <1>2 DEF Holds, OrderInv, GroupsInOrder
  <2> QED
    BY <1>0, <1>2, <2>1
<1>4. \A i, j \in 1..Len(calls) : i <= j => GroupOf(i) <= GroupOf(j)
  <2> SUFFICES ASSUME NEW i \in 1..Len(calls), NEW j \in 1..Len(calls), i <= j,
                      GroupOf(j) < GroupOf(i)
               PROVE  FALSE
    BY <1>0, <1>2
  <2>1. Precedes(groups[GroupOf(j)], groups[GroupOf(i)])
    BY <1>2 DEF OrderInv, GroupsInOrder
  <2>2. j < i
    BY <1>2, <2>1 DEF Precedes, Holds
  <2> QED
    BY <1>0, <2>2
<1>5. [i \in 1..Len(calls) |-> GroupOf(i)] \in Plans(Len(calls))
  <2>1. GroupOf(1) = 1
    BY <1>0, <1>3
  <2>2. \A i \in 1..Len(calls) : GroupOf(i) \in 1..Len(calls)
    BY <1>0, <1>3
  <2> QED
    BY <1>0, <1>4, <2>1, <2>2 DEF Plans
<1> QED
  BY <1>2, <1>5

(***************************************************************************)
(* The inductive invariant of the composition: those of the components,    *)
(* and the batch that is executed is the planned one.                      *)
(***************************************************************************)
ExecutesThePlan ==
    stage # "idle" =>
        /\ size = Len(calls)
        /\ sequential => plan = [i \in 1..Len(calls) |-> i]
        /\ ~sequential => /\ Planned
                          /\ plan = [i \in 1..Len(calls) |-> GroupOf(i)]

TurnInv ==
    /\ PlanInv
    /\ OrderInv
    /\ BatchInv
    /\ Len(calls) \in 1..MaxCalls
    /\ ExecutesThePlan

\* A batch begins with calls of the message, nothing planned, nothing started.
LEMMA TurnInitInv == TurnInit => TurnInv
<1> SUFFICES ASSUME TurnInit PROVE TurnInv
  OBVIOUS
<1>1. PlanInv /\ OrderInv /\ BatchInv
  BY PlanInitInv, OrderInit, BatchInitInv DEF TurnInit
<1>2. Len(calls) \in 1..MaxCalls
  <2>1. calls \in Seq(Call) /\ calls # <<>>
    BY <1>1 DEF PlanInv, PlannerTypes, TurnInit
  <2>2. \E n \in 0..MaxBatch : calls \in [1..n -> Call]
    BY ScheduleAssumption DEF TurnInit, ScheduleInit, BoundedSeq, SeqOf
  <2> QED
    BY <2>1, <2>2, ScheduleAssumption, TurnAssumption, MaxCallsAssumption
<1>3. ExecutesThePlan
  BY DEF ExecutesThePlan, TurnInit, OneBatchInit, BatchInit
<1> QED
  BY <1>1, <1>2, <1>3 DEF TurnInv

\* Every step of the composition is a step of the planner and a step of the
\* batch, or leaves one of them alone.
LEMMA TurnSimulates ==
    ASSUME TurnInv, [TurnNext]_turnVars
    PROVE  [ScheduleNext]_scheduleVars /\ [BatchNext]_allBatchVars
<1>1. CASE PlanStep
  BY <1>1 DEF PlanStep
<1>2. CASE Execute
  <2>1. UNCHANGED scheduleVars /\ UNCHANGED aborted /\ stage = "idle"
    BY <1>2 DEF Execute
  <2>2. \E seq \in BOOLEAN : \E g \in Plans(Len(calls)) : BeginBatch(Len(calls), g, seq)
    <3>1. CASE BeginBatch(Len(calls), [i \in 1..Len(calls) |-> i], TRUE)
      <4>1. [i \in 1..Len(calls) |-> i] \in Plans(Len(calls))
        BY MaxCallsAssumption DEF TurnInv, Plans
      <4> QED
        BY <3>1, <4>1
    <3>2. CASE /\ Planned
               /\ BeginBatch(Len(calls), [i \in 1..Len(calls) |-> GroupOf(i)], FALSE)
      <4>1. Len(calls) > 0
        BY DEF TurnInv
      <4>2. [i \in 1..Len(calls) |-> GroupOf(i)] \in Plans(Len(calls))
        BY <3>2, <4>1, GroupsMakeAPlan DEF TurnInv, PlanInv
      <4> QED
        BY <3>2, <4>2
    <3> QED
      BY <1>2, <3>1, <3>2 DEF Execute
  <2>3. Begin
    BY <2>1, <2>2 DEF Begin, TurnInv
  <2> QED
    BY <2>1, <2>3 DEF BatchNext
<1>3. CASE Executing
  BY <1>3 DEF Executing, BatchNext
<1>4. CASE UNCHANGED turnVars
  BY <1>4 DEF turnVars
<1> QED
  BY <1>1, <1>2, <1>3, <1>4 DEF TurnNext

\* Every step of the composition preserves its invariant.
LEMMA TurnStepInv == TurnInv /\ [TurnNext]_turnVars => TurnInv'
<1> SUFFICES ASSUME TurnInv, [TurnNext]_turnVars PROVE TurnInv'
  OBVIOUS
<1>1. PlanInv' /\ OrderInv' /\ BatchInv'
  BY TurnSimulates, PlanStepInv, OrderStep, BatchStepInv DEF TurnInv, PlanInv
<1>2. calls' = calls
  BY DEF TurnNext, PlanStep, ScheduleNext, Plan, Return, Execute, Executing, turnVars, scheduleVars
<1>3. ExecutesThePlan'
  <2>1. CASE PlanStep
    BY <2>1 DEF PlanStep, allBatchVars, batchVars, ExecutesThePlan
  <2>2. CASE Execute
    <3>1. UNCHANGED <<calls, position, groups, open>>
      BY <2>2 DEF Execute, scheduleVars
    <3>2. \A i : GroupOf(i)' = GroupOf(i)
      BY <3>1 DEF GroupOf
    <3> QED
      BY <2>2, <3>1, <3>2 DEF Execute, BeginBatch, ExecutesThePlan, Planned
  <2>3. ASSUME UNCHANGED scheduleVars, UNCHANGED <<size, plan, sequential>>, stage # "idle"
        PROVE  ExecutesThePlan'
    <3>1. UNCHANGED <<calls, position, groups, open>>
      BY <2>3 DEF scheduleVars
    <3>2. \A i : GroupOf(i)' = GroupOf(i)
      BY <3>1 DEF GroupOf
    <3> QED
      BY <2>3, <3>1, <3>2 DEF TurnInv, ExecutesThePlan, Planned
  <2>4. CASE Executing
    <3>1. UNCHANGED <<size, plan, sequential>>
      BY <2>4 DEF Executing, BatchProgress, Throw, Abort, batchVars, PrepareImmediate,
         PrepareRunnable, StartNextCall, RunGroup, FinishTool, EmitResult, NextGroup,
         FinishBatch, OrphanEnds, ThrowInPreparation, ThrowAtToolEnd, ThrowAtResult
    <3> QED
      BY <2>3, <2>4, <3>1 DEF Executing
  <2>5. CASE UNCHANGED turnVars
    <3>1. CASE stage # "idle"
      BY <2>3, <2>5, <3>1 DEF turnVars, allBatchVars, batchVars
    <3>2. CASE stage = "idle"
      BY <2>5, <3>2 DEF turnVars, allBatchVars, batchVars, ExecutesThePlan
    <3> QED
      BY <3>1, <3>2
  <2> QED
    BY <2>1, <2>2, <2>4, <2>5 DEF TurnNext
<1> QED
  BY <1>1, <1>2, <1>3 DEF TurnInv

\* The inductive invariant of the composition holds in every reachable state.
THEOREM TurnInvariant == TurnSpec => []TurnInv
BY TurnInitInv, TurnStepInv, PTL DEF TurnSpec

-----------------------------------------------------------------------------
\* The composition implements the planner and, with the plan it makes, the
\* batch executor, as they are specified on their own (partitionToolCalls is
\* called by executeToolCalls before the first call): what is proved of each
\* holds of the two together.
THEOREM TurnRefines ==
    TurnSpec => ScheduleSpec /\ OneBatchInit /\ [][BatchNext]_allBatchVars
<1>1. TurnInit => ScheduleInit /\ OneBatchInit
  BY DEF TurnInit
<1>2. TurnInv /\ [TurnNext]_turnVars => [ScheduleNext]_scheduleVars /\ [BatchNext]_allBatchVars
  BY TurnSimulates
<1> QED
  BY <1>1, <1>2, TurnInvariant, PTL DEF TurnSpec, ScheduleSpec

\* Two calls of one group of the batch are members of one group of the plan,
\* in the order of the message.
LEMMA SameGroup ==
    ASSUME TurnInv, stage # "idle",
           NEW i \in Calls, NEW j \in Calls, i < j, plan[i] = plan[j]
    PROVE  \E a \in 1..Len(groups) : \E k, m \in 1..Len(groups[a]) :
              k < m /\ groups[a][k] = i /\ groups[a][m] = j
<1>0. Len(calls) \in Nat \ {0} /\ i \in 1..Len(calls) /\ j \in 1..Len(calls)
  BY MaxCallsAssumption DEF Calls, TurnInv, ExecutesThePlan
<1>1. ~sequential
  <2>1. sequential => plan[i] = i /\ plan[j] = j
    BY <1>0 DEF TurnInv, ExecutesThePlan
  <2>2. i # j
    BY <1>0
  <2> QED
    BY <2>1, <2>2
<1>2. Planned /\ plan[i] = GroupOf(i) /\ plan[j] = GroupOf(j)
  BY <1>0, <1>1 DEF TurnInv, ExecutesThePlan
<1> DEFINE a == GroupOf(i)
<1>3. a \in 1..Len(groups) /\ Holds(groups[a], i) /\ Holds(groups[a], j)
  <2>1. PlannerTypes /\ OrderInv /\ Planned /\ Len(calls) > 0
    BY <1>0, <1>2 DEF TurnInv, PlanInv
  <2>2. GroupOf(j) = a
    BY <1>2
  <2> QED
    BY <1>0, <2>1, <2>2, GroupsMakeAPlan
<1>4. PICK k \in 1..Len(groups[a]), m \in 1..Len(groups[a]) :
         groups[a][k] = i /\ groups[a][m] = j
  BY <1>3 DEF Holds
<1>5. Within(groups[a])
  BY <1>3 DEF TurnInv, OrderInv, GroupsInOrder
<1>6. Len(groups[a]) \in Nat
  BY <1>3 DEF TurnInv, PlanInv, PlannerTypes
<1>7. k < m
  <2>1. ~(m < k) /\ m # k
    BY <1>0, <1>4, <1>5 DEF Within
  <2> QED
    BY <1>6, <2>1
<1> QED
  BY <1>3, <1>4, <1>7

\* A call that touches what an earlier call writes is not started before that
\* call has ended, for every message, every number of calls, every interleaving
\* of tool ends, aborts and throwing listeners (planToolGroups with
\* executeToolCalls).
THEOREM WritesEndBeforeLaterCalls == TurnSpec => []WritesEndFirst
<1>1. TurnInv => WritesEndFirst
  <2> SUFFICES ASSUME TurnInv, stage # "idle",
                      NEW i \in Calls, NEW j \in Calls, i < j, status[j] # "waiting",
                      Kind(i) = "write", Kind(j) \in {"read", "write"},
                      Target(i) = Target(j)
               PROVE  status[i] = "ended"
    BY DEF WritesEndFirst
  <2>1. plan[i] # plan[j]
    <3> SUFFICES ASSUME plan[i] = plan[j] PROVE FALSE
      OBVIOUS
    <3>1. PICK a \in 1..Len(groups) : \E k, m \in 1..Len(groups[a]) :
             k < m /\ groups[a][k] = i /\ groups[a][m] = j
      BY SameGroup
    <3>2. NoLaterTouch(groups[a])
      BY DEF TurnInv, PlanInv, WritesSeenLater
    <3> QED
      BY <3>1, <3>2 DEF NoLaterTouch
  <2>2. GroupBarrier
    BY BatchKeepsGroups DEF TurnInv
  <2>3. plan[i] < plan[j]
    BY <2>1 DEF TurnInv, BatchInv, BatchTypeOK, Plans, Calls
  <2> QED
    BY <2>2, <2>3 DEF GroupBarrier
<1> QED
  BY <1>1, TurnInvariant, PTL

\* While a command that may change anything runs, no other tool does, for every
\* message and every interleaving (bashMutates, planToolGroups with
\* executeToolCalls).
THEOREM MutatingCommandsRunAlone == TurnSpec => []CommandsRunAlone
<1>1. TurnInv => CommandsRunAlone
  <2> SUFFICES ASSUME TurnInv, stage # "idle",
                      NEW i \in Calls, NEW j \in Calls, i # j,
                      Kind(i) = "barrier", status[i] = "running", status[j] = "running"
               PROVE  FALSE
    BY DEF CommandsRunAlone
  <2>1. plan[i] = plan[j]
    BY DEF TurnInv, BatchInv, BatchTypeOK, Frontier, Answered, EarlierGroupsOut, Calls
  <2>2. PICK a \in 1..Len(groups) : \E k, m \in 1..Len(groups[a]) :
           k # m /\ groups[a][k] = i
    <3>1. i \in Int /\ j \in Int
      BY DEF Calls, TurnInv, BatchInv, BatchTypeOK
    <3>2. CASE i < j
      <4>1. PICK a \in 1..Len(groups) : \E k, m \in 1..Len(groups[a]) :
               k < m /\ groups[a][k] = i /\ groups[a][m] = j
        BY <2>1, <3>2, SameGroup
      <4> QED
        BY <4>1
    <3>3. CASE j < i
      <4>1. PICK a \in 1..Len(groups) : \E k, m \in 1..Len(groups[a]) :
               k < m /\ groups[a][k] = j /\ groups[a][m] = i
        BY <2>1, <3>3, SameGroup
      <4> QED
        BY <4>1
    <3> QED
      BY <3>1, <3>2, <3>3
  <2>3. Len(groups[a]) = 1
    BY <2>2 DEF TurnInv, PlanInv, BarriersAlone
  <2> QED
    BY <2>2, <2>3
<1> QED
  BY <1>1, TurnInvariant, PTL
=============================================================================
