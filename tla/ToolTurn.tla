------------------------------- MODULE ToolTurn -------------------------------
(***************************************************************************)
(* A batch of tool calls from the plan to the last result: planToolGroups  *)
(* (ToolSchedule), as agent.partitionToolCalls of packages/coding-agent/   *)
(* src/core/agent-session.ts, decides the groups that executeToolCalls     *)
(* (ToolBatch) runs.  Planning takes no await and goes before the first    *)
(* call; a batch that is executed sequentially is not planned.             *)
(***************************************************************************)
EXTENDS ToolBatch, ToolSchedule

(* The two bounds are of the same batch. *)
ASSUME TurnAssumption == MaxBatch <= MaxCalls

(***************************************************************************)
(* The calls of the batch: one of every kind the planner tells apart.  The *)
(* path of a call other than read, edit or write is not looked at.         *)
(***************************************************************************)
CallKinds ==
    [tool : {"read", "write"}, path : {<<p>> : p \in Paths}]
      \cup [tool : {"grep", "write", "mutating bash", "other"}, path : {NoPath}]

TurnInit ==
    /\ ScheduleInit
    /\ calls # <<>> /\ \A k \in 1..Len(calls) : calls[k] \in CallKinds
    /\ OneBatchInit

PlanStep ==
    /\ stage = "idle" /\ ~aborted
    /\ ScheduleNext
    /\ UNCHANGED allBatchVars

Planned == position = Len(calls) /\ open = <<>>

(* Every call joins the group that is first. *)
GroupOfFirst(i) == 1
GroupOf(i) == CHOOSE g \in 1..Len(groups) :
                  \E k \in 1..Len(groups[g]) : groups[g][k] = i

Execute ==
    /\ stage = "idle"
    /\ \/ /\ Planned
          /\ BeginBatch(Len(calls), [i \in 1..Len(calls) |-> GroupOf(i)], FALSE)
       \/ /\ position = 0
          /\ BeginBatch(Len(calls), [i \in 1..Len(calls) |-> i], TRUE)
    /\ UNCHANGED <<aborted, scheduleVars>>

Executing == (BatchProgress \/ Throw \/ Abort) /\ stage # "idle" /\ UNCHANGED scheduleVars

TurnNext == PlanStep \/ Execute \/ Executing

turnVars == <<scheduleVars, allBatchVars>>

TurnSpec ==
    /\ TurnInit /\ [][TurnNext]_turnVars
    /\ WF_turnVars(PlanStep) /\ WF_turnVars(Execute)
    /\ WF_turnVars(BatchProgress /\ UNCHANGED scheduleVars)

-----------------------------------------------------------------------------

\* A call that reads or writes what an earlier call of the message writes is
\* not even started before that call has ended, whatever the two are grouped
\* with, in whatever order the tools end and wherever an abort or a throwing
\* listener comes in (planToolGroups with executeToolCalls).
WritesEndFirst ==
    \A i, j \in Calls :
        /\ stage # "idle" /\ i < j /\ status[j] # "waiting"
        /\ Kind(i) = "write" /\ Kind(j) \in {"read", "write"}
        /\ Target(i) = Target(j)
        => status[i] = "ended"

\* While a command that may change anything runs, no other tool does
\* (bashMutates, planToolGroups with executeToolCalls).
CommandsRunAlone ==
    \A i, j \in Calls :
        stage # "idle" /\ i # j /\ Kind(i) = "barrier" /\ status[i] = "running"
            => status[j] # "running"

\* Every batch is planned, executed and ends, by returning or by the rejection
\* of a listener, and the tools it started end too (tools and hooks settle).
TurnEnds == <>[](stage \in {"done", "failed"} /\ NoneRunning)
=============================================================================
