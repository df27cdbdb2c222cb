----------------------------- MODULE ToolSchedule -----------------------------
(***************************************************************************)
(* The plan of a batch of tool calls (packages/coding-agent/src/core/      *)
(* algebra/process-schedule.ts, planToolGroups): the groups that           *)
(* executeToolCalls of the agent loop runs one after another, the calls of *)
(* one group together (partitionToolCalls in ToolBatch).                   *)
(*                                                                         *)
(* A call is the tool it names and the path of its arguments, if any; of a *)
(* bash command only matters whether bashMutates holds of it.  The groups  *)
(* hold positions in the batch.  A step is one turn of the planner's loop. *)
(***************************************************************************)
EXTENDS Integers, Sequences, SequencesExt

CONSTANTS
    Paths,      \* paths that calls name
    MaxBatch    \* bound: calls in a batch

ASSUME ScheduleAssumption == MaxBatch \in Nat

VARIABLES
    calls,     \* the batch
    position,  \* calls looked at so far
    groups,    \* groups that are closed
    open,      \* the group under construction
    written    \* what the open group writes

scheduleVars == <<calls, position, groups, open, written>>

ReadTools == {"read", "grep"}            \* "find" and "ls" are as "grep"
WriteTools == {"write"}                  \* "edit" is as "write"
Tools == ReadTools \cup WriteTools \cup {"mutating bash", "bash", "other"}
NoPath == <<>>
Call == [tool : Tools, path : {<<p>> : p \in Paths} \cup {NoPath}]

(***************************************************************************)
(* classifyCall.  Of the reading tools only "read" counts for its path; a  *)
(* write without a path writes something of its own, named by the call id. *)
(***************************************************************************)
Kind(i) == CASE calls[i].tool \in ReadTools     -> "read"
             [] calls[i].tool \in WriteTools    -> "write"
             [] calls[i].tool = "mutating bash" -> "barrier"
             [] OTHER                           -> "join"

Named(i) == calls[i].tool \in WriteTools \cup {"read"} /\ calls[i].path # NoPath

Target(i) == CASE Named(i)          -> calls[i].path
               [] Kind(i) = "write" -> <<"call", i>>
               [] OTHER             -> NoPath

ScheduleInit ==
    /\ calls \in BoundedSeq(Call, MaxBatch)
    /\ position = 0
    /\ groups = <<>>
    /\ open = <<>>
    /\ written = {}

(* close(): the open group, if it has a member, is done. *)
Closed == IF open = <<>> THEN groups ELSE Append(groups, open)

(* A planner that looks only for a second write. *)
ConflictsOnWrite(i) == Kind(i) = "write" /\ Target(i) \in written

Conflicts(i) == Kind(i) \in {"read", "write"} /\ Target(i) \in written

Writes(i) == IF Kind(i) = "write" THEN {Target(i)} ELSE {}

(* A barrier that does not close the group before it. *)
PlanBarrierInside(i) ==
    /\ Kind(i) = "barrier"
    /\ open' = Append(open, i)
    /\ UNCHANGED <<groups, written>>

PlanBarrier(i) ==
    /\ Kind(i) = "barrier"
    /\ groups' = Append(Closed, <<i>>)
    /\ open' = <<>>
    /\ written' = IF open = <<>> THEN written ELSE {}

PlanConflicting(i) ==
    /\ Kind(i) # "barrier"
    /\ Conflicts(i)
    /\ groups' = Closed
    /\ open' = <<i>>
    /\ written' = Writes(i)

PlanJoining(i) ==
    /\ Kind(i) # "barrier"
    /\ ~Conflicts(i)
    /\ open' = Append(open, i)
    /\ written' = written \cup Writes(i)
    /\ UNCHANGED groups

Plan ==
    /\ position < Len(calls)
    /\ position' = position + 1
    /\ PlanBarrier(position + 1) \/ PlanConflicting(position + 1)
          \/ PlanJoining(position + 1)
    /\ UNCHANGED calls

(* The last close(): the groups are returned. *)
Return ==
    /\ position = Len(calls)
    /\ open # <<>>
    /\ groups' = Closed
    /\ open' = <<>>
    /\ written' = {}
    /\ UNCHANGED <<calls, position>>

ScheduleNext == Plan \/ Return

ScheduleSpec == ScheduleInit /\ [][ScheduleNext]_scheduleVars

-----------------------------------------------------------------------------
(***************************************************************************)
(* Properties.                                                             *)
(***************************************************************************)
(* No call of g reads or writes what a call before it in g writes. *)
NoLaterTouch(g) ==
    \A k, m \in 1..Len(g) :
        k < m /\ Kind(g[k]) = "write" => ~(Kind(g[m]) \in {"read", "write"}
                                           /\ Target(g[m]) = Target(g[k]))

\* Calls of one group run together, so none of them may depend on another's
\* write: no member of a group reads or writes the path that a member before
\* it writes.
WritesSeenLater ==
    /\ \A k \in 1..Len(groups) : NoLaterTouch(groups[k])
    /\ NoLaterTouch(open)

\* A command that may change anything (bashMutates) runs with no other call.
BarriersAlone ==
    /\ \A k \in 1..Len(groups) :
          (\E m \in 1..Len(groups[k]) : Kind(groups[k][m]) = "barrier")
              => Len(groups[k]) = 1
    /\ \A m \in 1..Len(open) : Kind(open[m]) # "barrier"

=============================================================================
