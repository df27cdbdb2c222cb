-------------------------- MODULE AgentHarnessProofs --------------------------
(***************************************************************************)
(* Proofs about the agent harness and its session file.                    *)
(*                                                                         *)
(* AgentHarness, for any number of runs, turns, writes and queued messages *)
(* and however operations overlap: the phase says what is going on, a      *)
(* session write is kept once and in order, and no message is saved twice  *)
(* or out of order, but for the writes and runs that the history variables *)
(* name.                                                                   *)
(*                                                                         *)
(* HarnessSession: for any number of callers, of lines, of failed appends  *)
(* and of crashes, the lines of the file make a tree, and a session        *)
(* without a write under way has in memory what it has in a file that      *)
(* opens, but for an append rejected with its line in the file.            *)
(***************************************************************************)
EXTENDS AgentHarness, HarnessSession, FiniteSetTheorems, SequenceTheorems, TLAPS

-----------------------------------------------------------------------------
(***************************************************************************)
(* The phase.  A run holds it from its start to its agent_end, or to its   *)
(* return when it rejects.  Whoever holds it gives it up by setting it to  *)
(* idle.  As long as no late failure has met another operation there is    *)
(* one holder at a time; after that every run in progress is mixed, until  *)
(* all of them have ended.                                                 *)
(***************************************************************************)
PhaseTypeOK ==
    /\ phase \in {"idle", "turn", "structural"}
    /\ pc \in [Runs -> Locations]
    /\ recovering \in [Runs -> BOOLEAN]
    /\ rejected \in [Runs -> BOOLEAN]
    /\ DOMAIN writing = Runs
    /\ compacting \in Nat
    /\ late \subseteq Runs /\ mixed \subseteq Runs /\ disturbed \in BOOLEAN

Holding(r) == pc[r] \in BeforeAgentEnd \/ (pc[r] = "finally" /\ rejected[r])

RunShape(r) ==
    /\ rejected[r] => pc[r] = "finally"
    /\ writing[r] # NoWrite => pc[r] \in FlushPoints
    /\ recovering[r] => pc[r] \in {"failure", "turnEnd", "agentEnd", "settling", "finally"}
    /\ r \in late => recovering[r] /\ r \in mixed

SomeoneHolds ==
    /\ phase = "turn" => \E r \in Runs : Holding(r)
    /\ phase = "structural" => compacting > 0

OneHolder ==
    /\ \A r \in Runs \ late : Holding(r) => phase = "turn"
    /\ \A q, r \in Runs \ late : Holding(q) /\ Holding(r) => q = r
    /\ compacting > 0 => phase = "structural" /\ compacting = 1
    /\ \A r \in late : compacting = 0 /\ \A q \in Runs : InProgress(q) => q = r

PhaseInv ==
    /\ PhaseTypeOK
    /\ \A r \in Runs : RunShape(r)
    /\ SomeoneHolds
    /\ ~disturbed => OneHolder
    /\ disturbed => \A r \in Runs : InProgress(r) => r \in mixed

LEMMA PhaseInit == Init => PhaseInv
<1> SUFFICES ASSUME Init PROVE PhaseInv
  OBVIOUS
<1>1. PhaseTypeOK
  BY DEF Init, PhaseTypeOK, Locations
<1>2. \A r \in Runs : RunShape(r) /\ ~Holding(r) /\ ~InProgress(r)
  BY DEF Init, RunShape, Holding, InProgress, BeforeAgentEnd
<1> QED BY <1>1, <1>2 DEF Init, PhaseInv, SomeoneHolds, OneHolder

(* A run moves on by itself and neither takes the phase nor gives it up.   *)
LEMMA RunMovesOn ==
    ASSUME PhaseInv, NEW r \in Runs, InProgress(r), PhaseTypeOK',
           \A q \in Runs : q # r => /\ pc'[q] = pc[q]
                                    /\ recovering'[q] = recovering[q]
                                    /\ rejected'[q] = rejected[q]
                                    /\ writing'[q] = writing[q],
           UNCHANGED <<phase, compacting, late, disturbed, mixed>>,
           InProgress(r)', RunShape(r)', Holding(r)' <=> Holding(r)
    PROVE  PhaseInv'
<1> USE DEF PhaseInv
<1>1. \A q \in Runs : /\ Holding(q)' <=> Holding(q)
                      /\ InProgress(q)' <=> InProgress(q)
  BY DEF Holding, InProgress
<1>2. \A q \in Runs : RunShape(q)'
  BY DEF RunShape
<1>3. SomeoneHolds'
  BY <1>1 DEF SomeoneHolds
<1>4. ~disturbed => OneHolder'
  BY <1>1 DEF OneHolder, PhaseTypeOK
<1> QED BY <1>1, <1>2, <1>3, <1>4

LEMMA RunKeepsPhase ==
    ASSUME PhaseInv, NEW r \in Runs, InProgress(r),
           NEW to \in Locations \ {"unused", "returned"},
           pc' = [pc EXCEPT ![r] = to],
           UNCHANGED <<phase, recovering, rejected, compacting, late, disturbed, mixed>>,
           writing' = writing, writing[r] # NoWrite => to \in FlushPoints,
           to \in BeforeAgentEnd <=> pc[r] \in BeforeAgentEnd,
           pc[r] # "finally",
           recovering[r] => to \in {"failure", "turnEnd", "agentEnd", "settling", "finally"}
    PROVE  PhaseInv'
<1> USE DEF PhaseInv
<1>1. pc'[r] = to /\ PhaseTypeOK' /\ \A q \in Runs : q # r => pc'[q] = pc[q]
  BY DEF PhaseTypeOK
<1>2. RunShape(r) /\ ~rejected[r]
  BY DEF RunShape
<1>3. RunShape(r)'
  BY <1>1, <1>2 DEF RunShape
<1>4. InProgress(r)' /\ (Holding(r)' <=> Holding(r))
  BY <1>1, <1>2 DEF Holding, InProgress
<1> QED BY <1>1, <1>3, <1>4, RunMovesOn

(* A return: the run that holds the phase gives it up, one that does not   *)
(* hold it leaves it alone, or fails late.                                 *)
LEMMA ReturnKeepsPhase ==
    ASSUME PhaseInv, NEW r \in Runs, NEW error \in BOOLEAN, Return(r, error)
    PROVE  PhaseInv'
<1> USE DEF PhaseInv
<1>1. /\ pc[r] = "finally" /\ pc'[r] = "returned" /\ PhaseTypeOK'
      /\ phase' = IF error \/ rejected[r] THEN "idle" ELSE phase
      /\ writing'[r] = NoWrite /\ ~recovering'[r] /\ ~rejected'[r]
      /\ late' = late \ {r} /\ UNCHANGED compacting
      /\ disturbed' = (OthersInProgress(r) /\ (disturbed \/ (error /\ ~rejected[r])))
      /\ mixed' = IF disturbed' THEN mixed \cup RunsInProgress ELSE mixed
      /\ \A q \in Runs : q # r => /\ pc'[q] = pc[q] /\ recovering'[q] = recovering[q]
                                   /\ rejected'[q] = rejected[q] /\ writing'[q] = writing[q]
  BY DEF Return, PhaseAfter, Mixing, RunsInProgress, PhaseTypeOK, Locations, counts
<1>2. \A q \in Runs : q # r => /\ Holding(q)' <=> Holding(q)
                               /\ InProgress(q)' <=> InProgress(q)
  BY <1>1 DEF Holding, InProgress
<1>3. ~Holding(r)' /\ ~InProgress(r)' /\ InProgress(r) /\ (Holding(r) <=> rejected[r])
  BY <1>1 DEF Holding, InProgress, BeforeAgentEnd
<1>4. \A q \in Runs : RunShape(q)'
  BY <1>1 DEF RunShape
<1>5. SomeoneHolds'
  BY <1>1, <1>2, <1>3 DEF SomeoneHolds
<1>6. ASSUME ~disturbed' PROVE OneHolder'
  <2>1. CASE ~OthersInProgress(r)
    <3>1. compacting = 0 /\ \A q \in Runs : q # r => ~InProgress(q)
      BY <2>1 DEF OthersInProgress, RunsInProgress, PhaseTypeOK
    <3>2. \A q \in Runs : ~InProgress(q)' /\ ~Holding(q)'
      BY <3>1, <1>2, <1>3 DEF Holding, InProgress, BeforeAgentEnd
    <3>3. late' = {}
      BY <3>1, <1>1 DEF RunShape, InProgress, PhaseTypeOK
    <3> QED BY <3>1, <3>2, <3>3, <1>1 DEF OneHolder
  <2>2. CASE OthersInProgress(r)
    <3>1. ~disturbed /\ ~(error /\ ~rejected[r]) /\ OneHolder
      BY <1>6, <1>1, <2>2
    <3>2. r \notin late
      BY <3>1, <2>2 DEF OneHolder, OthersInProgress, RunsInProgress
    <3>3. late' = late
      BY <3>2, <1>1
    <3>4. CASE rejected[r]
      <4>1. phase = "turn" /\ compacting = 0
        BY <3>1, <3>2, <3>4, <1>3 DEF OneHolder, PhaseTypeOK
      <4>2. \A q \in Runs \ late : ~Holding(q)'
        BY <3>1, <3>2, <3>4, <1>2, <1>3 DEF OneHolder
      <4> QED BY <4>1, <4>2, <3>1, <3>3, <1>1, <1>2, <1>3 DEF OneHolder
    <3>5. CASE ~rejected[r]
      <4>1. phase' = phase
        BY <3>1, <3>5, <1>1
      <4> QED BY <4>1, <3>1, <3>3, <1>1, <1>2, <1>3 DEF OneHolder
    <3> QED BY <3>4, <3>5
  <2> QED BY <2>1, <2>2
<1>7. ASSUME disturbed', NEW q \in Runs, InProgress(q)' PROVE q \in mixed'
  BY <1>7, <1>1, <1>2, <1>3 DEF RunsInProgress
<1> QED BY <1>1, <1>4, <1>5, <1>6, <1>7

LEMMA RunStepKeepsPhase ==
    ASSUME PhaseInv, NEW r \in Runs, RunStep(r)
    PROVE  PhaseInv'
<1> USE DEF PhaseInv
<1>0. /\ pc \in [Runs -> Locations] /\ RunShape(r)
      /\ recovering \in [Runs -> BOOLEAN]
  BY DEF PhaseTypeOK
<1>1. CASE TakeNextTurnMessages(r) \/ StartLoop(r)
  BY <1>0, <1>1, RunKeepsPhase
     DEF TakeNextTurnMessages, StartLoop, InProgress, Locations, RunShape,
         BeforeAgentEnd, FlushPoints, counts, history, phaseHistory
<1>3. CASE InitialSteeringPoll(r) \/ Answer(r)
  BY <1>0, <1>3, RunKeepsPhase
     DEF InitialSteeringPoll, Answer, InProgress, Locations, RunShape,
         BeforeAgentEnd, FlushPoints, counts, history, phaseHistory
<1>5. CASE TurnEnd(r)
  BY <1>0, <1>5, RunKeepsPhase
     DEF TurnEnd, Flushed, InProgress, Locations, RunShape, BeforeAgentEnd,
         FlushPoints, counts, history, phaseHistory
<1>6. CASE PollSteering(r) \/ PollFollowUps(r) \/ EndLoop(r)
  BY <1>0, <1>6, RunKeepsPhase
     DEF PollSteering, PollFollowUps, EndLoop, Flushed, InProgress, Locations,
         RunShape, BeforeAgentEnd, FlushPoints, counts, history, phaseHistory
<1>7. CASE Settled(r) \/ EmitRunFailure(r)
  BY <1>0, <1>7, RunKeepsPhase
     DEF Settled, EmitRunFailure, InProgress, Locations, RunShape,
         BeforeAgentEnd, FlushPoints, counts, history, phaseHistory
<1>8. CASE SaveMessage(r)
  BY <1>8 DEF SaveMessage, PhaseTypeOK, RunShape, SomeoneHolds, OneHolder, Holding,
              InProgress, counts, history, phaseHistory
<1>9. CASE FlushPeek(r) \/ FlushAppend(r)
  <2>1. /\ UNCHANGED <<phase, pc, recovering, rejected, compacting, late, disturbed, mixed>>
        /\ DOMAIN writing' = Runs
        /\ \A q \in Runs : writing'[q] # NoWrite => pc[q] \in FlushPoints
    BY <1>9 DEF FlushPeek, FlushAppend, PhaseTypeOK, RunShape, counts, history, phaseHistory
  <2> QED BY <2>1 DEF PhaseTypeOK, RunShape, SomeoneHolds, OneHolder, Holding, InProgress
<1>10. CASE AgentEnd(r)
  <2>1. /\ pc[r] = "agentEnd" /\ pc'[r] = "settling" /\ phase' = "idle"
        /\ writing[r] = NoWrite /\ PhaseTypeOK'
        /\ UNCHANGED <<recovering, rejected, writing, compacting, late, disturbed, mixed>>
        /\ \A q \in Runs : q # r => pc'[q] = pc[q]
    BY <1>10 DEF AgentEnd, Flushed, PhaseTypeOK, Locations, counts, history, phaseHistory
  <2>2. Holding(r) /\ InProgress(r) /\ InProgress(r)' /\ ~Holding(r)'
    BY <2>1, <1>0 DEF Holding, InProgress, BeforeAgentEnd
  <2>3. \A q \in Runs : q # r => /\ Holding(q)' <=> Holding(q)
                                 /\ InProgress(q)' <=> InProgress(q)
    BY <2>1 DEF Holding, InProgress
  <2>4. \A q \in Runs : RunShape(q)'
    BY <2>1, <1>0 DEF RunShape
  <2>5. SomeoneHolds'
    BY <2>1 DEF SomeoneHolds
  <2>6. ASSUME ~disturbed PROVE OneHolder'
    <3>1. OneHolder
      BY <2>6
    <3>2. compacting = 0
      BY <3>1, <2>2 DEF OneHolder, PhaseTypeOK
    <3>3. \A q \in Runs \ late : ~Holding(q)'
      <4> SUFFICES ASSUME NEW q \in Runs \ late, Holding(q)'
                   PROVE  FALSE
        OBVIOUS
      <4>1. q # r /\ Holding(q)
        BY <2>2, <2>3
      <4>2. InProgress(q)
        BY <4>1 DEF Holding, InProgress, BeforeAgentEnd
      <4> QED BY <4>1, <4>2, <3>1, <2>2 DEF OneHolder
    <3>4. \A q \in Runs : InProgress(q)' <=> InProgress(q)
      BY <2>2, <2>3
    <3> QED BY <3>1, <3>2, <3>3, <3>4, <2>1 DEF OneHolder
  <2> QED BY <2>1, <2>2, <2>3, <2>4, <2>5, <2>6
<1>11. CASE Return(r, FALSE)
  BY <1>11, ReturnKeepsPhase
<1> QED
  BY <1>1, <1>3, <1>5, <1>6, <1>7, <1>8, <1>9, <1>10, <1>11 DEF RunStep

LEMMA RunFaultKeepsPhase ==
    ASSUME PhaseInv, NEW r \in Runs, RunFault(r)
    PROVE  PhaseInv'
<1> USE DEF PhaseInv
<1>0. RunShape(r) /\ recovering[r] \in BOOLEAN
  BY DEF PhaseTypeOK
<1>1. CASE StartFails(r)
  <2>1. /\ pc[r] \in {"starting", "hook"} /\ pc'[r] = "returned" /\ phase' = "idle"
        /\ PhaseTypeOK' /\ disturbed' = (disturbed /\ OthersInProgress(r))
        /\ UNCHANGED <<recovering, rejected, writing, compacting, late, mixed>>
        /\ \A q \in Runs : q # r => pc'[q] = pc[q]
    BY <1>1 DEF StartFails, PhaseTypeOK, Locations, counts
  <2>2. \A q \in Runs : q # r => /\ Holding(q)' <=> Holding(q)
                                 /\ InProgress(q)' <=> InProgress(q)
    BY <2>1 DEF Holding, InProgress
  <2>3. /\ ~Holding(r)' /\ ~InProgress(r)' /\ InProgress(r) /\ Holding(r)
        /\ r \notin late /\ writing[r] = NoWrite /\ ~rejected[r] /\ ~recovering[r]
    BY <2>1, <1>0 DEF Holding, InProgress, BeforeAgentEnd, RunShape, FlushPoints
  <2>4. \A q \in Runs : RunShape(q)'
    BY <2>1, <2>3 DEF RunShape
  <2>5. SomeoneHolds'
    BY <2>1 DEF SomeoneHolds
  <2>6. ASSUME ~disturbed' PROVE OneHolder'
    <3>1. CASE disturbed
      <4>0. ~OthersInProgress(r)
        BY <3>1, <2>1, <2>6
      <4>1. compacting = 0 /\ \A q \in Runs : q # r => ~InProgress(q)
        BY <4>0 DEF OthersInProgress, RunsInProgress, PhaseTypeOK
      <4>2. \A q \in Runs : ~InProgress(q)' /\ ~Holding(q)'
        BY <4>1, <2>2, <2>3 DEF Holding, InProgress, BeforeAgentEnd
      <4>3. late = {}
        BY <4>1, <2>3 DEF RunShape, InProgress, PhaseTypeOK
      <4> QED BY <4>1, <4>2, <4>3, <2>1 DEF OneHolder
    <3>2. CASE ~disturbed
      <4>1. OneHolder
        BY <3>2
      <4>2. phase = "turn" /\ compacting = 0 /\ \A q \in Runs \ late : ~Holding(q)'
        BY <4>1, <2>2, <2>3 DEF OneHolder, PhaseTypeOK
      <4> QED BY <4>1, <4>2, <2>1, <2>2, <2>3 DEF OneHolder
    <3> QED BY <3>1, <3>2 DEF PhaseTypeOK
  <2>7. ASSUME disturbed', NEW q \in Runs, InProgress(q)' PROVE q \in mixed'
    BY <2>7, <2>1, <2>2, <2>3
  <2> QED BY <2>1, <2>4, <2>5, <2>6, <2>7
<1>2. CASE Throws(r)
  <2>1. /\ InProgress(r) /\ pc[r] # "finally"
        /\ pc' = [pc EXCEPT ![r] = IF recovering[r] THEN "finally" ELSE "failure"]
        /\ rejected' = [rejected EXCEPT ![r] = recovering[r]]
        /\ recovering' = [recovering EXCEPT ![r] = TRUE]
        /\ writing' = [writing EXCEPT ![r] = NoWrite]
        /\ UNCHANGED <<phase, compacting>>
    BY <1>2 DEF Throws, InProgress, counts
  <2>2. /\ pc'[r] = IF recovering[r] THEN "finally" ELSE "failure"
        /\ rejected'[r] = recovering[r] /\ recovering'[r] /\ writing'[r] = NoWrite
        /\ \A q \in Runs : q # r => /\ pc'[q] = pc[q] /\ recovering'[q] = recovering[q]
                                     /\ rejected'[q] = rejected[q] /\ writing'[q] = writing[q]
    BY <2>1 DEF PhaseTypeOK
  <2>3. Holding(r)' /\ InProgress(r)'
    BY <2>2 DEF Holding, InProgress, BeforeAgentEnd
  <2>4. \A q \in Runs : q # r => /\ Holding(q)' <=> Holding(q)
                                 /\ InProgress(q)' <=> InProgress(q)
    BY <2>2 DEF Holding, InProgress
  <2>5. CASE pc[r] # "settling"
    <3>1. UNCHANGED <<late, disturbed, mixed>>
      BY <2>5, <1>2 DEF Throws, phaseHistory
    <3>2. PhaseTypeOK'
      BY <2>1, <3>1 DEF PhaseTypeOK, Locations
    <3>3. Holding(r)
      BY <2>5, <1>2 DEF Throws, Holding, BeforeAgentEnd
    <3>4. RunShape(r)'
      BY <2>2, <3>1, <1>0 DEF RunShape
    <3> QED BY <2>1, <2>2, <2>3, <3>1, <3>2, <3>3, <3>4, RunMovesOn
  <2>6. CASE pc[r] = "settling"
    <3>1. /\ late' = late \cup {r} /\ disturbed' = (disturbed \/ OthersInProgress(r))
          /\ mixed' = (IF disturbed' THEN mixed \cup RunsInProgress ELSE mixed)
                          \cup StartedSince(r)
      BY <2>6, <1>2 DEF Throws, Mixing
    <3>2. PhaseTypeOK' /\ r \in mixed'
      <4>1. r \in StartedSince(r)
        BY <2>6 DEF StartedSince, Runs
      <4> QED BY <4>1, <2>1, <3>1 DEF PhaseTypeOK, Locations, RunsInProgress, StartedSince
    <3>3. \A q \in Runs : RunShape(q)'
      BY <2>2, <3>1, <3>2 DEF RunShape
    <3>4. SomeoneHolds'
      BY <2>1, <2>3, <2>4 DEF SomeoneHolds
    <3>5. ASSUME ~disturbed' PROVE OneHolder'
      <4>0. ~disturbed /\ ~OthersInProgress(r)
        BY <3>1, <3>5
      <4>1. /\ ~disturbed /\ compacting = 0 /\ OneHolder
            /\ \A q \in Runs : q # r => ~InProgress(q)
        BY <4>0 DEF OthersInProgress, RunsInProgress, PhaseTypeOK
      <4>2. \A q \in Runs : q # r => ~InProgress(q)' /\ ~Holding(q)'
        BY <4>1, <2>4 DEF Holding, InProgress, BeforeAgentEnd
      <4>3. late' = {r}
        BY <4>1, <3>1 DEF RunShape, InProgress, PhaseTypeOK
      <4> QED BY <4>1, <4>2, <4>3, <2>1 DEF OneHolder
    <3>6. ASSUME disturbed', NEW q \in Runs, InProgress(q)' PROVE q \in mixed'
      BY <3>6, <3>1, <3>2, <2>4 DEF RunsInProgress
    <3> QED BY <3>2, <3>3, <3>4, <3>5, <3>6
  <2> QED BY <2>5, <2>6
<1>3. CASE Return(r, TRUE)
  BY <1>3, ReturnKeepsPhase
<1> QED BY <1>1, <1>2, <1>3 DEF RunFault

(* Nobody holds the phase when it is idle, unless a late run is about.     *)
LEMMA IdleIsFree ==
    ASSUME PhaseInv, phase = "idle", ~disturbed, late = {}
    PROVE  compacting = 0 /\ \A q \in Runs : ~Holding(q)
BY DEF PhaseInv, OneHolder, PhaseTypeOK

LEMMA PhaseStep ==
    ASSUME PhaseInv, [Next]_vars
    PROVE  PhaseInv'
<1> USE DEF PhaseInv
<1>1. ASSUME NEW r \in Runs, Prompt(r)
      PROVE  PhaseInv'
  <2>1. /\ pc[r] = "unused" /\ pc' = [pc EXCEPT ![r] = "starting"]
        /\ phase = "idle" /\ phase' = "turn"
        /\ UNCHANGED <<recovering, rejected, writing, compacting, late>>
        /\ disturbed' = (disturbed \/ late # {})
        /\ mixed' = IF disturbed' THEN mixed \cup RunsInProgress \cup {r} ELSE mixed
    BY <1>1 DEF Prompt, MayStart, Mixing, counts
  <2>2. pc'[r] = "starting" /\ \A q \in Runs : q # r => pc'[q] = pc[q]
    BY <2>1 DEF PhaseTypeOK
  <2>3. PhaseTypeOK'
    BY <2>1 DEF PhaseTypeOK, Locations, RunsInProgress
  <2>4. \A q \in Runs : RunShape(q)'
    BY <2>1, <2>2 DEF RunShape, FlushPoints
  <2>5. /\ Holding(r)' /\ SomeoneHolds'
        /\ \A q \in Runs : q # r => /\ Holding(q)' <=> Holding(q)
                                    /\ InProgress(q)' <=> InProgress(q)
    BY <2>1, <2>2 DEF SomeoneHolds, Holding, InProgress, BeforeAgentEnd
  <2>6. ASSUME ~disturbed' PROVE OneHolder'
    <3>1. ~disturbed /\ late = {}
      BY <2>1, <2>6
    <3>2. compacting = 0 /\ \A q \in Runs : q # r => ~Holding(q)'
      BY <3>1, <2>1, <2>5, IdleIsFree
    <3> QED BY <3>1, <3>2, <2>1 DEF OneHolder
  <2>7. ASSUME disturbed', NEW q \in Runs, InProgress(q)' PROVE q \in mixed'
    BY <2>7, <2>1, <2>5 DEF RunsInProgress
  <2> QED BY <2>3, <2>4, <2>5, <2>6, <2>7
<1>2. CASE StructuralBegin
  <2>1. /\ phase = "idle" /\ phase' = "structural" /\ compacting' = compacting + 1
        /\ UNCHANGED <<pc, recovering, rejected, writing, late>>
        /\ disturbed' = (disturbed \/ late # {})
        /\ mixed' = IF disturbed' THEN mixed \cup RunsInProgress ELSE mixed
    BY <1>2 DEF StructuralBegin, MayStart, Mixing, perRun
  <2>2. PhaseTypeOK'
    BY <2>1 DEF PhaseTypeOK, RunsInProgress
  <2>3. \A q \in Runs : /\ RunShape(q)' /\ (Holding(q)' <=> Holding(q))
                        /\ InProgress(q)' <=> InProgress(q)
    BY <2>1 DEF RunShape, Holding, InProgress
  <2>4. SomeoneHolds'
    BY <2>1 DEF SomeoneHolds, PhaseTypeOK
  <2>5. ASSUME ~disturbed' PROVE OneHolder'
    <3>1. ~disturbed /\ late = {}
      BY <2>1, <2>5
    <3>2. compacting = 0 /\ \A q \in Runs : ~Holding(q)'
      BY <3>1, <2>1, <2>3, IdleIsFree
    <3> QED BY <3>1, <3>2, <2>1 DEF OneHolder
  <2>6. ASSUME disturbed', NEW q \in Runs, InProgress(q)' PROVE q \in mixed'
    BY <2>6, <2>1, <2>3 DEF RunsInProgress
  <2> QED BY <2>2, <2>3, <2>4, <2>5, <2>6
<1>3. CASE StructuralStep
  <2>1. /\ compacting > 0 /\ compacting' = compacting - 1 /\ phase' = "idle"
        /\ UNCHANGED <<pc, recovering, rejected, writing, late, mixed>>
        /\ disturbed' = (disturbed /\ (compacting > 1 \/ RunsInProgress # {}))
    BY <1>3 DEF StructuralStep, StructuralEnd, perRun
  <2>2. PhaseTypeOK' /\ SomeoneHolds'
    BY <2>1 DEF PhaseTypeOK, SomeoneHolds
  <2>3. \A q \in Runs : /\ RunShape(q)' /\ (Holding(q)' <=> Holding(q))
                        /\ InProgress(q)' <=> InProgress(q)
    BY <2>1 DEF RunShape, Holding, InProgress
  <2>4. ASSUME ~disturbed' PROVE OneHolder'
    <3>1. CASE disturbed
      <4>0. ~(compacting > 1) /\ RunsInProgress = {}
        BY <3>1, <2>1, <2>4
      <4>1. compacting' = 0 /\ \A q \in Runs : ~InProgress(q)
        BY <4>0, <2>1 DEF RunsInProgress, PhaseTypeOK
      <4>2. late = {} /\ \A q \in Runs : ~Holding(q)'
        BY <4>1, <2>3 DEF Holding, RunShape, InProgress, BeforeAgentEnd, PhaseTypeOK
      <4> QED BY <4>1, <4>2, <2>1 DEF OneHolder
    <3>2. CASE ~disturbed
      <4>1. OneHolder
        BY <3>2
      <4>2. compacting' = 0 /\ late = {} /\ phase = "structural"
        BY <4>1, <2>1 DEF OneHolder, PhaseTypeOK
      <4>3. \A q \in Runs : ~Holding(q)'
        BY <4>1, <4>2, <2>3 DEF OneHolder
      <4> QED BY <4>2, <4>3, <2>1 DEF OneHolder
    <3> QED BY <3>1, <3>2 DEF PhaseTypeOK
  <2>5. ASSUME disturbed', NEW q \in Runs, InProgress(q)' PROVE q \in mixed'
    BY <2>5, <2>1, <2>3
  <2> QED BY <2>2, <2>3, <2>4, <2>5
<1>4. ASSUME UNCHANGED <<phase, pc, recovering, rejected, writing, compacting,
                         late, disturbed, mixed>>
      PROVE  PhaseInv'
  BY <1>4 DEF PhaseTypeOK, RunShape, SomeoneHolds, OneHolder, Holding, InProgress
<1>5. CASE RequestWrite \/ Steer \/ FollowUp \/ NextTurn \/ Abort
  BY <1>4, <1>5 DEF RequestWrite, Steer, FollowUp, NextTurn, Abort, perRun, history,
                    phaseHistory
<1>6. CASE UNCHANGED vars
  BY <1>4, <1>6 DEF vars, perRun, counts, history, phaseHistory
<1> QED
  BY <1>1, <1>2, <1>3, <1>5, <1>6, RunStepKeepsPhase, RunFaultKeepsPhase
     DEF Next, Application

LEMMA PhaseInvariant == Spec => []PhaseInv
<1>1. PhaseInv /\ [Next]_vars => PhaseInv'
  BY PhaseStep
<1> QED BY <1>1, PhaseInit, PTL DEF Spec

(* PhaseHeld, for any number of runs and operations, however they overlap: *)
(* as long as a run is before its agent_end the phase is "turn", also when *)
(* it was started while earlier runs unwind, unless one of those fails     *)
(* after its agent_end (AgentHarness.executeTurn, handleAgentEvent).       *)
THEOREM RunsHoldThePhase == Spec => []PhaseHeld
<1>1. PhaseInv => PhaseHeld
  <2> SUFFICES ASSUME PhaseInv PROVE PhaseHeld
    OBVIOUS
  <2>1. ASSUME NEW r \in Runs \ mixed, pc[r] \in BeforeAgentEnd
        PROVE  phase = "turn"
    <3>1. InProgress(r) /\ Holding(r) /\ r \notin late
      BY <2>1 DEF PhaseInv, RunShape, InProgress, Holding, BeforeAgentEnd
    <3> QED BY <3>1 DEF PhaseInv, OneHolder
  <2> QED BY <2>1 DEF PhaseHeld, PhaseInv, OneHolder
<1> QED BY <1>1, PhaseInvariant, PTL

(* PhaseReleased, likewise: no operation ends, by any path of errors and   *)
(* whatever it overlaps, and leaves the harness busy (prompt, executeTurn, *)
(* emitRunFailure, compact, navigateTree).                                 *)
THEOREM ReturnedRunsReleaseThePhase == Spec => []PhaseReleased
<1>1. PhaseInv => PhaseReleased
  <2>1. \A r \in Runs : Holding(r) => InProgress(r)
    BY DEF Holding, InProgress, BeforeAgentEnd
  <2> QED BY <2>1 DEF PhaseInv, SomeoneHolds, PhaseReleased
<1> QED BY <1>1, PhaseInvariant, PTL

-----------------------------------------------------------------------------
(***************************************************************************)
(* What the session and the queues hold.                                   *)
(***************************************************************************)
Entries == Writes \cup Messages \cup {[kind |-> "summary"]}

DataTypeOK ==
    /\ session \in Seq(Entries)
    /\ pendingSessionWrites \in Seq(Writes)
    /\ steerQueue \in Seq(QueuedMessages)
    /\ followUpQueue \in Seq(QueuedMessages)
    /\ nextTurnQueue \in Seq(QueuedMessages)
    /\ inFlight \in [Runs -> Seq(Messages)]
    /\ writing \in [Runs -> Writes \cup {NoWrite}]
    /\ turns \in [Runs -> Nat]
    /\ writes \in 0..MaxWrites
    /\ queued \in 0..MaxQueued

(* A drain takes the oldest message.                                       *)
LEMMA DrainOne ==
    ASSUME NEW S, NEW q \in Seq(S)
    PROVE  /\ Drained(q, "one-at-a-time") \in Seq(S)
           /\ Left(q, "one-at-a-time") \in Seq(S)
           /\ q = << >> => /\ Drained(q, "one-at-a-time") = << >>
                          /\ Left(q, "one-at-a-time") = << >>
           /\ q # << >> => /\ Drained(q, "one-at-a-time") = <<q[1]>>
                          /\ Left(q, "one-at-a-time") = Tail(q)
<1>1. CASE q = << >>
  BY <1>1 DEF Drained, Left
<1>2. CASE q # << >>
  <2>1. q[1] \in S /\ Head(q) = q[1] /\ Tail(q) \in Seq(S) /\ <<q[1]>> \in Seq(S)
    BY <1>2
  <2> QED BY <1>2, <2>1 DEF Drained, Left
<1> QED BY <1>1, <1>2

LEMMA DataInit == Init => DataTypeOK
<1> SUFFICES ASSUME Init PROVE DataTypeOK
  OBVIOUS
<1>1. /\ writes \in 0..MaxWrites /\ queued \in 0..MaxQueued
  BY HarnessAssumption DEF Init
<1> QED BY <1>1 DEF Init, DataTypeOK

LEMMA DataStep ==
    ASSUME DataTypeOK, [Next]_vars
    PROVE  DataTypeOK'
<1> USE DEF DataTypeOK
<1>1. ASSUME NEW r \in Runs, TakeNextTurnMessages(r)
      PROVE  DataTypeOK'
  <2>1. nextTurnQueue \in Seq(Messages) /\ RunMessage(r, 0) \in Messages
    <3>1. QueuedMessages \subseteq Messages
      BY DEF Messages
    <3>2. nextTurnQueue \in Seq(Messages)
      BY <3>1, SeqMonotonic
    <3> QED BY <3>2 DEF Messages, RunMessages, RunMessage
  <2>2. nextTurnQueue \o <<RunMessage(r, 0)>> \in Seq(Messages)
    BY <2>1
  <2> QED BY <2>2, <1>1 DEF TakeNextTurnMessages, counts
<1>2. ASSUME NEW r \in Runs, SaveMessage(r)
      PROVE  DataTypeOK'
  <2>1. Head(inFlight[r]) \in Messages /\ Tail(inFlight[r]) \in Seq(Messages)
    BY <1>2 DEF SaveMessage
  <2>2. session' \in Seq(Entries)
    BY <1>2, <2>1 DEF SaveMessage, Entries
  <2> QED BY <1>2, <2>1, <2>2 DEF SaveMessage, queues, counts
<1>3. ASSUME NEW r \in Runs, InitialSteeringPoll(r) \/ PollSteering(r) \/ PollFollowUps(r)
      PROVE  DataTypeOK'
  <2>1. ASSUME NEW q \in Seq(QueuedMessages)
        PROVE  /\ Drained(q, "one-at-a-time") \in Seq(Messages)
               /\ Left(q, "one-at-a-time") \in Seq(QueuedMessages)
    <3>1. QueuedMessages \subseteq Messages
      BY DEF Messages
    <3> QED BY <3>1, DrainOne, SeqMonotonic
  <2>2. /\ steerQueue' \in Seq(QueuedMessages) /\ followUpQueue' \in Seq(QueuedMessages)
        /\ inFlight' \in [Runs -> Seq(Messages)]
    BY <1>3, <2>1 DEF InitialSteeringPoll, PollSteering, PollFollowUps
  <2> QED BY <1>3, <2>2 DEF InitialSteeringPoll, PollSteering, PollFollowUps, counts
<1>4. ASSUME NEW r \in Runs, Answer(r) \/ EmitRunFailure(r)
      PROVE  DataTypeOK'
  <2>1. /\ RunMessage(r, turns[r] + 1) \in Entries
        /\ session' = Append(session, RunMessage(r, turns[r] + 1))
        /\ turns' = [turns EXCEPT ![r] = @ + 1]
    <3>1. turns[r] + 1 \in Nat
      BY DEF DataTypeOK
    <3>2. RunMessage(r, turns[r] + 1) \in Entries
      BY <3>1 DEF Entries, Messages, RunMessages, RunMessage
    <3> QED BY <3>2, <1>4 DEF Answer, EmitRunFailure
  <2>2. session' \in Seq(Entries) /\ turns' \in [Runs -> Nat]
    BY <2>1
  <2> QED BY <1>4, <2>2 DEF Answer, EmitRunFailure, queues, counts
<1>5. ASSUME NEW r \in Runs, FlushPeek(r)
      PROVE  DataTypeOK'
  <2>1. Head(pendingSessionWrites) \in Writes
    BY <1>5 DEF FlushPeek
  <2> QED BY <1>5, <2>1 DEF FlushPeek, queues, counts
<1>6. ASSUME NEW r \in Runs, FlushAppend(r)
      PROVE  DataTypeOK'
  <2>1. writing[r] \in Entries
    BY <1>6 DEF FlushAppend, Entries
  <2>2. /\ session' \in Seq(Entries) /\ pendingSessionWrites' \in Seq(Writes)
        /\ writing' \in [Runs -> Writes \cup {NoWrite}]
    BY <1>6, <2>1 DEF FlushAppend
  <2> QED BY <1>6, <2>2 DEF FlushAppend, queues, counts
<1>7. ASSUME NEW r \in Runs,
             \/ StartLoop(r) \/ TurnEnd(r) \/ EndLoop(r) \/ AgentEnd(r) \/ Settled(r)
             \/ StartFails(r) \/ Throws(r)
      PROVE  DataTypeOK'
  <2>1. /\ UNCHANGED <<session, pendingSessionWrites, steerQueue, followUpQueue,
                      nextTurnQueue, turns, writes, queued>>
        /\ inFlight' = inFlight \/ inFlight' = [inFlight EXCEPT ![r] = << >>]
        /\ writing' = writing \/ writing' = [writing EXCEPT ![r] = NoWrite]
    BY <1>7 DEF StartLoop, TurnEnd, EndLoop, AgentEnd, Settled, StartFails, Throws,
                queues, counts
  <2>2. inFlight' \in [Runs -> Seq(Messages)]
    <3>1. << >> \in Seq(Messages)
      BY EmptySeq
    <3> QED BY <2>1, <3>1
  <2> QED BY <2>1, <2>2
<1>8. ASSUME NEW r \in Runs, NEW error \in BOOLEAN, Return(r, error)
      PROVE  DataTypeOK'
  BY <1>8 DEF Return, queues, counts
<1>9. CASE StructuralStep
  <2>1. session' \in Seq(Entries)
    BY <1>9 DEF StructuralStep, StructuralEnd, Entries
  <2> QED BY <1>9, <2>1 DEF StructuralStep, StructuralEnd, queues, perRun
<1>10. CASE RequestWrite
  <2>1. writes' \in 0..MaxWrites /\ writes + 1 \in 1..MaxWrites
    BY <1>10, HarnessAssumption DEF RequestWrite
  <2>2. \A busy \in BOOLEAN : Write(writes + 1, busy) \in Writes
    BY <2>1 DEF Write, Writes
  <2>3. /\ Append(session, Write(writes + 1, FALSE)) \in Seq(Entries)
        /\ Append(pendingSessionWrites, Write(writes + 1, TRUE)) \in Seq(Writes)
    <3>1. Write(writes + 1, FALSE) \in Entries /\ Write(writes + 1, TRUE) \in Writes
      BY <2>2 DEF Entries
    <3>2. \A S, e : \A q \in Seq(S) : e \in S => Append(q, e) \in Seq(S)
      OBVIOUS
    <3> QED BY <3>1, <3>2, Zenon
  <2> QED BY <1>10, <2>1, <2>3 DEF RequestWrite, queues, perRun
<1>11. CASE Steer \/ FollowUp \/ NextTurn
  <2>1. queued' \in 0..MaxQueued /\ Queued(queued + 1) \in QueuedMessages
    BY <1>11, HarnessAssumption DEF Steer, FollowUp, NextTurn, Enqueue, Queued, QueuedMessages
  <2>2. /\ Append(steerQueue, Queued(queued + 1)) \in Seq(QueuedMessages)
        /\ Append(followUpQueue, Queued(queued + 1)) \in Seq(QueuedMessages)
        /\ Append(nextTurnQueue, Queued(queued + 1)) \in Seq(QueuedMessages)
    BY <2>1
  <2> QED BY <1>11, <2>1, <2>2 DEF Steer, FollowUp, NextTurn, Enqueue, perRun
<1>12. CASE (\E r \in Runs : Prompt(r)) \/ StructuralBegin \/ Abort
  <2>1. /\ UNCHANGED <<session, pendingSessionWrites, nextTurnQueue, inFlight,
                      writing, turns, writes, queued>>
        /\ steerQueue' = steerQueue \/ steerQueue' = << >>
        /\ followUpQueue' = followUpQueue \/ followUpQueue' = << >>
    BY <1>12 DEF Prompt, StructuralBegin, Abort, queues, perRun, counts
  <2>2. << >> \in Seq(QueuedMessages)
    BY EmptySeq
  <2> QED BY <2>1, <2>2
<1>13. CASE UNCHANGED vars
  BY <1>13 DEF vars, queues, perRun, counts
<1> QED
  BY <1>1, <1>2, <1>3, <1>4, <1>5, <1>6, <1>7, <1>8, <1>9, <1>10, <1>11, <1>12, <1>13
     DEF Next, RunStep, RunFault, Application

-----------------------------------------------------------------------------
(***************************************************************************)
(* Session writes: in the session s or pending in p, once each, numbered   *)
(* 1..n, but for the exposed ones, X.  What is pending was asked for while *)
(* busy, is in order, and came after every busy write of the session.      *)
(***************************************************************************)
PendingInOrder(p, n) ==
    /\ \A i \in 1..Len(p) : p[i].busy /\ p[i].id \in 1..n
    /\ \A i, j \in 1..Len(p) : i < j => p[i].id < p[j].id

Sheltered(w, v, X) == w.id \notin X \/ v.id \notin X

SavedInOrder(s, n, X) ==
    /\ \A i \in 1..Len(s) : s[i].kind = "write" => s[i].id \in 1..n
    /\ \A i, j \in 1..Len(s) :
          i < j /\ s[i].kind = "write" /\ s[j].kind = "write" /\ Sheltered(s[i], s[j], X)
            => s[i].id # s[j].id /\ (s[i].busy /\ s[j].busy => s[i].id < s[j].id)

SavedBeforePending(s, p, X) ==
    \A i \in 1..Len(s), j \in 1..Len(p) :
        s[i].kind = "write" /\ Sheltered(s[i], p[j], X)
            => s[i].id # p[j].id /\ (s[i].busy => s[i].id < p[j].id)

NoneLost(s, p, n, X) ==
    \A id \in (1..n) \ X :
        \/ \E i \in 1..Len(s) : s[i].kind = "write" /\ s[i].id = id
        \/ \E i \in 1..Len(p) : p[i].id = id

WritesKept(s, p, n, X) ==
    /\ PendingInOrder(p, n)
    /\ SavedInOrder(s, n, X)
    /\ SavedBeforePending(s, p, X)
    /\ NoneLost(s, p, n, X)

(* A flush that is alone appends the oldest pending write.  While flushes  *)
(* are crowded all that is pending is exposed, and so is what they append, *)
(* which comes after every busy write that is not.                         *)
AloneInv ==
    \A r \in Runs : writing[r] # NoWrite =>
        /\ pendingSessionWrites # << >> /\ writing[r] = pendingSessionWrites[1]
        /\ \A q \in Runs : writing[q] # NoWrite => q = r

ExposedWrite(w, s, n, X) ==
    /\ w.busy /\ w.id \in 1..n /\ w.id \in X
    /\ \A i \in 1..Len(s) :
          s[i].kind = "write" /\ s[i].id \notin X /\ s[i].busy => s[i].id < w.id

CrowdedInv ==
    /\ \A i \in 1..Len(pendingSessionWrites) : pendingSessionWrites[i].id \in exposed
    /\ \A r \in Runs : writing[r] # NoWrite =>
          ExposedWrite(writing[r], session, writes, exposed)

WritesInv ==
    /\ WritesKept(session, pendingSessionWrites, writes, exposed)
    /\ IF crowded THEN CrowdedInv ELSE AloneInv

LEMMA Appended ==
    ASSUME NEW S, NEW s \in Seq(S), NEW e
    PROVE  /\ Len(Append(s, e)) = Len(s) + 1
           /\ Len(s) \in Nat
           /\ \A i \in 1..Len(s) : Append(s, e)[i] = s[i]
           /\ Append(s, e)[Len(s) + 1] = e
OBVIOUS

LEMMA OtherEntry ==
    ASSUME NEW s \in Seq(Entries), NEW p \in Seq(Writes), NEW n \in Nat, NEW X,
           WritesKept(s, p, n, X), NEW e, e.kind # "write"
    PROVE  WritesKept(Append(s, e), p, n, X)
<1> DEFINE t == Append(s, e)
<1>1. /\ Len(t) = Len(s) + 1 /\ Len(s) \in Nat
      /\ \A i \in 1..Len(s) : t[i] = s[i]
      /\ t[Len(s) + 1] = e
  BY Appended
<1> HIDE DEF t
<1> USE DEF WritesKept
<1>2. \A i \in 1..Len(t) : t[i].kind = "write" => i \in 1..Len(s) /\ t[i] = s[i]
  BY <1>1
<1>3. SavedInOrder(t, n, X)
  BY <1>2 DEF SavedInOrder
<1>4. SavedBeforePending(t, p, X)
  BY <1>2 DEF SavedBeforePending
<1>5. NoneLost(t, p, n, X)
  <2>1. \A i \in 1..Len(s) : i \in 1..Len(t) /\ t[i] = s[i]
    BY <1>1
  <2> QED BY <2>1 DEF NoneLost
<1> QED BY <1>3, <1>4, <1>5 DEF t

LEMMA FlushedEntry ==
    ASSUME NEW s \in Seq(Entries), NEW p \in Seq(Writes), NEW n \in Nat, NEW X,
           WritesKept(s, p, n, X), p # << >>
    PROVE  WritesKept(Append(s, p[1]), Tail(p), n, X)
<1> DEFINE t == Append(s, p[1])
           u == Tail(p)
<1>1. /\ Len(t) = Len(s) + 1 /\ Len(s) \in Nat
      /\ \A i \in 1..Len(s) : t[i] = s[i]
      /\ t[Len(s) + 1] = p[1]
  BY Appended
<1>2. /\ Len(p) \in Nat /\ Len(p) >= 1 /\ Len(u) = Len(p) - 1
      /\ \A i \in 1..Len(u) : u[i] = p[i + 1] /\ i + 1 \in 1..Len(p) /\ i + 1 > 1
  OBVIOUS
<1>3. p[1] \in Writes /\ p[1].kind = "write" /\ 1 \in 1..Len(p)
  <2>1. 1 \in 1..Len(p)
    BY <1>2
  <2>2. p[1] \in Writes
    BY <2>1, ElementOfSeq
  <2> QED BY <2>1, <2>2 DEF Writes
<1> HIDE DEF t, u
<1> USE DEF WritesKept
<1>4. \A i \in 1..Len(t) : (i \in 1..Len(s) /\ t[i] = s[i]) \/ (i = Len(s) + 1 /\ t[i] = p[1])
  BY <1>1
<1>5. PendingInOrder(u, n)
  <2>1. \A i \in 1..Len(u) : u[i].busy /\ u[i].id \in 1..n
    BY <1>2 DEF PendingInOrder
  <2>2. ASSUME NEW i \in 1..Len(u), NEW j \in 1..Len(u), i < j
        PROVE  u[i].id < u[j].id
    <3>1. /\ u[i] = p[i + 1] /\ i + 1 \in 1..Len(p)
          /\ u[j] = p[j + 1] /\ j + 1 \in 1..Len(p) /\ i + 1 < j + 1
      BY <2>2, <1>2
    <3> QED BY <3>1 DEF PendingInOrder
  <2> QED BY <2>1, <2>2 DEF PendingInOrder
<1>6. SavedInOrder(t, n, X)
  <2>1. \A i \in 1..Len(t) : t[i].kind = "write" => t[i].id \in 1..n
    BY <1>3, <1>4 DEF SavedInOrder, PendingInOrder
  <2>2. ASSUME NEW i \in 1..Len(t), NEW j \in 1..Len(t), i < j,
               t[i].kind = "write", t[j].kind = "write", Sheltered(t[i], t[j], X)
        PROVE  t[i].id # t[j].id /\ (t[i].busy /\ t[j].busy => t[i].id < t[j].id)
    <3>1. i \in 1..Len(s) /\ t[i] = s[i]
      BY <2>2, <1>1, <1>4
    <3>2. CASE j \in 1..Len(s)
      BY <3>1, <3>2, <2>2, <1>1 DEF SavedInOrder
    <3>3. CASE t[j] = p[1]
      BY <3>1, <3>3, <2>2, <1>3 DEF SavedBeforePending
    <3> QED BY <3>2, <3>3, <1>4
  <2> QED BY <2>1, <2>2 DEF SavedInOrder
<1>7. SavedBeforePending(t, u, X)
  <2> SUFFICES ASSUME NEW i \in 1..Len(t), NEW j \in 1..Len(u), t[i].kind = "write",
                      Sheltered(t[i], u[j], X)
               PROVE  t[i].id # u[j].id /\ (t[i].busy => t[i].id < u[j].id)
    BY DEF SavedBeforePending
  <2>1. u[j] = p[j + 1] /\ j + 1 \in 1..Len(p) /\ j + 1 > 1
    BY <1>2
  <2>2. CASE i \in 1..Len(s)
    BY <2>1, <2>2, <1>1 DEF SavedBeforePending
  <2>3. CASE t[i] = p[1]
    <3>1. p[1].id < p[j + 1].id /\ p[1].id \in Nat /\ p[j + 1].id \in Nat
      <4>1. 1 \in 1..Len(p)
        BY <2>1, <1>2
      <4>2. p[1].id < p[j + 1].id
        BY <2>1, <4>1, <1>3 DEF PendingInOrder
      <4>3. p[1].id \in 1..n /\ p[j + 1].id \in 1..n
        BY <2>1, <4>1, <1>3 DEF PendingInOrder
      <4>4. 1..n \subseteq Nat
        OBVIOUS
      <4> QED BY <4>2, <4>3, <4>4, Zenon
    <3> QED BY <3>1, <2>1, <2>3
  <2> QED BY <2>2, <2>3, <1>4
<1>8. NoneLost(t, u, n, X)
  <2> SUFFICES ASSUME NEW id \in (1..n) \ X
               PROVE  \/ \E i \in 1..Len(t) : t[i].kind = "write" /\ t[i].id = id
                      \/ \E i \in 1..Len(u) : u[i].id = id
    BY DEF NoneLost
  <2>1. CASE \E i \in 1..Len(s) : s[i].kind = "write" /\ s[i].id = id
    <3>1. \A i \in 1..Len(s) : i \in 1..Len(t) /\ t[i] = s[i]
      BY <1>1
    <3> QED BY <2>1, <3>1
  <2>2. ASSUME NEW i \in 1..Len(p), p[i].id = id
        PROVE  \/ \E k \in 1..Len(t) : t[k].kind = "write" /\ t[k].id = id
               \/ \E k \in 1..Len(u) : u[k].id = id
    <3>1. CASE i = 1
      <4>1. Len(s) + 1 \in 1..Len(t)
        BY <1>1
      <4> QED BY <4>1, <3>1, <2>2, <1>1, <1>3
    <3>2. CASE i # 1
      <4>1. i - 1 \in 1..Len(u) /\ u[i - 1] = p[i]
        BY <3>2, <1>2
      <4> QED BY <4>1, <2>2
    <3> QED BY <3>1, <3>2
  <2> QED BY <2>1, <2>2 DEF NoneLost
<1> QED BY <1>5, <1>6, <1>7, <1>8 DEF t, u

LEMMA NewWrite ==
    ASSUME NEW s \in Seq(Entries), NEW p \in Seq(Writes), NEW n \in Nat, NEW X,
           WritesKept(s, p, n, X)
    PROVE  /\ WritesKept(Append(s, Write(n + 1, FALSE)), p, n + 1, X)
           /\ WritesKept(s, Append(p, Write(n + 1, TRUE)), n + 1, X)
<1> DEFINE w == Write(n + 1, FALSE)
           v == Write(n + 1, TRUE)
           t == Append(s, w)
           u == Append(p, v)
<1>1. /\ w.kind = "write" /\ w.id = n + 1 /\ ~w.busy
      /\ v.kind = "write" /\ v.id = n + 1 /\ v.busy
  BY DEF Write
<1> HIDE DEF w, v
<1>2. /\ Len(t) = Len(s) + 1 /\ Len(s) \in Nat
      /\ \A i \in 1..Len(s) : t[i] = s[i] /\ i \in 1..Len(t)
      /\ t[Len(s) + 1] = w
  BY Appended
<1>3. /\ Len(u) = Len(p) + 1 /\ Len(p) \in Nat
      /\ \A i \in 1..Len(p) : u[i] = p[i] /\ i \in 1..Len(u)
      /\ u[Len(p) + 1] = v
  BY Appended
<1> HIDE DEF t, u
<1>4. \A i \in 1..Len(t) : \/ i \in 1..Len(s) /\ t[i] = s[i]
                           \/ i = Len(s) + 1 /\ t[i] = w
  BY <1>2
<1>5. \A i \in 1..Len(u) : \/ i \in 1..Len(p) /\ u[i] = p[i]
                           \/ i = Len(p) + 1 /\ u[i] = v
  BY <1>3
<1> USE DEF WritesKept
<1>6. WritesKept(t, p, n + 1, X)
  <2>1. PendingInOrder(p, n + 1)
    BY DEF PendingInOrder
  <2>2. SavedInOrder(t, n + 1, X)
    <3>1. \A i \in 1..Len(t) : t[i].kind = "write" => t[i].id \in 1..(n + 1)
      <4>1. n + 1 \in 1..(n + 1) /\ \A x \in 1..n : x \in 1..(n + 1)
        OBVIOUS
      <4> QED BY <4>1, <1>1, <1>4 DEF SavedInOrder
    <3>2. ASSUME NEW i \in 1..Len(t), NEW j \in 1..Len(t), i < j,
                 t[i].kind = "write", t[j].kind = "write", Sheltered(t[i], t[j], X)
          PROVE  t[i].id # t[j].id /\ (t[i].busy /\ t[j].busy => t[i].id < t[j].id)
      <4>1. i \in 1..Len(s) /\ t[i] = s[i]
        BY <3>2, <1>2, <1>4
      <4>2. CASE j \in 1..Len(s)
        BY <4>1, <4>2, <3>2, <1>2 DEF SavedInOrder
      <4>3. CASE t[j] = w
        <5>1. t[i].id \in 1..n /\ t[j].id = n + 1
          BY <4>1, <4>3, <3>2, <1>1 DEF SavedInOrder
        <5>2. t[i].id < t[j].id /\ t[i].id # t[j].id
          BY <5>1
        <5> QED BY <5>2
      <4> QED BY <4>2, <4>3, <1>4
    <3> QED BY <3>1, <3>2 DEF SavedInOrder
  <2>3. SavedBeforePending(t, p, X)
    <3> SUFFICES ASSUME NEW i \in 1..Len(t), NEW j \in 1..Len(p), t[i].kind = "write",
                      Sheltered(t[i], p[j], X)
                 PROVE  t[i].id # p[j].id /\ (t[i].busy => t[i].id < p[j].id)
      BY DEF SavedBeforePending
    <3>1. CASE i \in 1..Len(s)
      BY <3>1, <1>2 DEF SavedBeforePending
    <3>2. CASE t[i] = w
      <4>1. t[i].id = n + 1 /\ ~t[i].busy /\ p[j].id \in 1..n
        BY <3>2, <1>1 DEF PendingInOrder
      <4>2. t[i].id # p[j].id
        BY <4>1
      <4> QED BY <4>1, <4>2
    <3> QED BY <3>1, <3>2, <1>4
  <2>4. NoneLost(t, p, n + 1, X)
    <3> SUFFICES ASSUME NEW id \in (1..(n + 1)) \ X
                 PROVE  \/ \E i \in 1..Len(t) : t[i].kind = "write" /\ t[i].id = id
                        \/ \E i \in 1..Len(p) : p[i].id = id
      BY DEF NoneLost
    <3>1. CASE id = n + 1
      <4>1. Len(s) + 1 \in 1..Len(t)
        BY <1>2
      <4> QED BY <4>1, <3>1, <1>2, <1>1
    <3>2. CASE id \in 1..n
      BY <3>2, <1>2 DEF NoneLost
    <3> QED BY <3>1, <3>2
  <2> QED BY <2>1, <2>2, <2>3, <2>4
<1>7. WritesKept(s, u, n + 1, X)
  <2>1. PendingInOrder(u, n + 1)
    <3>1. \A i \in 1..Len(u) : u[i].busy
      BY <1>1, <1>5 DEF PendingInOrder
    <3>2. \A i \in 1..Len(u) : u[i].id \in 1..(n + 1)
      <4>1. n + 1 \in 1..(n + 1) /\ \A x \in 1..n : x \in 1..(n + 1)
        OBVIOUS
      <4> QED BY <4>1, <1>1, <1>5 DEF PendingInOrder
    <3>3. ASSUME NEW i \in 1..Len(u), NEW j \in 1..Len(u), i < j
          PROVE  u[i].id < u[j].id
      <4>1. i \in 1..Len(p) /\ u[i] = p[i] /\ p[i].id \in 1..n
        BY <3>3, <1>3, <1>5 DEF PendingInOrder
      <4>2. CASE j \in 1..Len(p)
        BY <4>1, <4>2, <3>3, <1>3 DEF PendingInOrder
      <4>3. CASE u[j] = v
        BY <4>1, <4>3, <1>1
      <4> QED BY <4>2, <4>3, <1>5
    <3> QED BY <3>1, <3>2, <3>3 DEF PendingInOrder
  <2>2. SavedInOrder(s, n + 1, X)
    <3>1. \A i \in 1..Len(s) : s[i].kind = "write" => s[i].id \in 1..(n + 1)
      BY DEF SavedInOrder
    <3> QED BY <3>1 DEF SavedInOrder
  <2>3. SavedBeforePending(s, u, X)
    <3> SUFFICES ASSUME NEW i \in 1..Len(s), NEW j \in 1..Len(u), s[i].kind = "write",
                      Sheltered(s[i], u[j], X)
                 PROVE  s[i].id # u[j].id /\ (s[i].busy => s[i].id < u[j].id)
      BY DEF SavedBeforePending
    <3>1. CASE j \in 1..Len(p)
      BY <3>1, <1>3 DEF SavedBeforePending
    <3>2. CASE u[j] = v
      <4>1. u[j].id = n + 1 /\ s[i].id \in 1..n
        BY <3>2, <1>1 DEF SavedInOrder
      <4>2. s[i].id # u[j].id /\ s[i].id < u[j].id
        BY <4>1
      <4> QED BY <4>2
    <3> QED BY <3>1, <3>2, <1>5
  <2>4. NoneLost(s, u, n + 1, X)
    <3> SUFFICES ASSUME NEW id \in (1..(n + 1)) \ X
                 PROVE  \/ \E i \in 1..Len(s) : s[i].kind = "write" /\ s[i].id = id
                        \/ \E i \in 1..Len(u) : u[i].id = id
      BY DEF NoneLost
    <3>1. CASE id = n + 1
      <4>1. Len(p) + 1 \in 1..Len(u)
        BY <1>3
      <4> QED BY <4>1, <3>1, <1>3, <1>1
    <3>2. CASE id \in 1..n
      BY <3>2, <1>3 DEF NoneLost
    <3> QED BY <3>1, <3>2
  <2> QED BY <2>1, <2>2, <2>3, <2>4
<1> QED BY <1>6, <1>7 DEF t, u, w, v

(* More writes may become exposed.                                         *)
LEMMA MoreExposed ==
    ASSUME NEW s, NEW p, NEW n, NEW X, NEW Y, X \subseteq Y, WritesKept(s, p, n, X)
    PROVE  WritesKept(s, p, n, Y)
BY DEF WritesKept, SavedInOrder, SavedBeforePending, NoneLost, Sheltered

(* A crowded flush appends an exposed write and shifts, whatever is first. *)
LEMMA CrowdedEntry ==
    ASSUME NEW s \in Seq(Entries), NEW p \in Seq(Writes), NEW n \in Nat, NEW X,
           WritesKept(s, p, n, X), \A i \in 1..Len(p) : p[i].id \in X,
           NEW w \in Writes, ExposedWrite(w, s, n, X),
           NEW u, u = IF p = << >> THEN << >> ELSE Tail(p)
    PROVE  /\ WritesKept(Append(s, w), u, n, X)
           /\ \A i \in 1..Len(u) : u[i].id \in X
           /\ \A v : ExposedWrite(v, s, n, X) => ExposedWrite(v, Append(s, w), n, X)
<1> DEFINE t == Append(s, w)
<1>1. /\ Len(t) = Len(s) + 1 /\ Len(s) \in Nat
      /\ \A i \in 1..Len(s) : t[i] = s[i] /\ i \in 1..Len(t)
      /\ t[Len(s) + 1] = w
  BY Appended
<1>2. \A i \in 1..Len(u) : u[i] = p[i + 1] /\ i + 1 \in 1..Len(p)
  OBVIOUS
<1>3. w.kind = "write"
  BY DEF Writes
<1> HIDE DEF t
<1>4. \A i \in 1..Len(t) : (i \in 1..Len(s) /\ t[i] = s[i]) \/ (i = Len(s) + 1 /\ t[i] = w)
  BY <1>1
<1> USE DEF WritesKept
<1>5. PendingInOrder(u, n)
  <2>1. \A i \in 1..Len(u) : u[i].busy /\ u[i].id \in 1..n
    BY <1>2 DEF PendingInOrder
  <2>2. ASSUME NEW i \in 1..Len(u), NEW j \in 1..Len(u), i < j
        PROVE  u[i].id < u[j].id
    <3>1. /\ u[i] = p[i + 1] /\ i + 1 \in 1..Len(p)
          /\ u[j] = p[j + 1] /\ j + 1 \in 1..Len(p)
      BY <1>2
    <3>2. i + 1 < j + 1
      BY <2>2, <1>2
    <3> QED BY <3>1, <3>2 DEF PendingInOrder
  <2> QED BY <2>1, <2>2 DEF PendingInOrder
<1>6. SavedInOrder(t, n, X)
  <2>1. \A i \in 1..Len(t) : t[i].kind = "write" => t[i].id \in 1..n
    BY <1>4 DEF SavedInOrder, ExposedWrite
  <2>2. ASSUME NEW i \in 1..Len(t), NEW j \in 1..Len(t), i < j,
               t[i].kind = "write", t[j].kind = "write", Sheltered(t[i], t[j], X)
        PROVE  t[i].id # t[j].id /\ (t[i].busy /\ t[j].busy => t[i].id < t[j].id)
    <3>1. i \in 1..Len(s) /\ t[i] = s[i]
      BY <2>2, <1>1, <1>4
    <3>2. CASE j \in 1..Len(s)
      BY <3>1, <3>2, <2>2, <1>1 DEF SavedInOrder
    <3>3. CASE t[j] = w
      <4>1. s[i].id \notin X /\ w.id \in X
        BY <3>1, <3>3, <2>2 DEF Sheltered, ExposedWrite
      <4> QED BY <4>1, <3>1, <3>3, <2>2 DEF ExposedWrite
    <3> QED BY <3>2, <3>3, <1>4
  <2> QED BY <2>1, <2>2 DEF SavedInOrder
<1>7. SavedBeforePending(t, u, X)
  <2> SUFFICES ASSUME NEW i \in 1..Len(t), NEW j \in 1..Len(u), t[i].kind = "write",
                      Sheltered(t[i], u[j], X)
               PROVE  t[i].id # u[j].id /\ (t[i].busy => t[i].id < u[j].id)
    BY DEF SavedBeforePending
  <2>1. u[j] = p[j + 1] /\ j + 1 \in 1..Len(p) /\ u[j].id \in X
    BY <1>2
  <2>2. i \in 1..Len(s) /\ t[i] = s[i]
    BY <2>1, <1>4 DEF Sheltered, ExposedWrite
  <2> QED BY <2>1, <2>2 DEF SavedBeforePending
<1>8. NoneLost(t, u, n, X)
  BY <1>1 DEF NoneLost
<1>9. ASSUME NEW v, ExposedWrite(v, s, n, X) PROVE ExposedWrite(v, t, n, X)
  BY <1>9, <1>4 DEF ExposedWrite
<1> QED BY <1>2, <1>5, <1>6, <1>7, <1>8, <1>9 DEF t

LEMMA WritesInit == Init => WritesInv
BY DEF Init, WritesInv, WritesKept, PendingInOrder, SavedInOrder,
       SavedBeforePending, NoneLost, AloneInv, NoWrite

(* A step after which fewer flushes are appending what they did.           *)
LEMMA FewerFlushes ==
    ASSUME WritesInv, DataTypeOK, UNCHANGED <<session, pendingSessionWrites, writes, exposed>>,
           \/ UNCHANGED <<writing, crowded>>
           \/ \E r \in Runs :
                /\ writing' = [writing EXCEPT ![r] = NoWrite]
                /\ crowded' = (crowded /\ \E q \in Runs \ {r} : writing[q] # NoWrite)
    PROVE  WritesInv'
<1>1. CASE UNCHANGED <<writing, crowded>>
  BY <1>1 DEF WritesInv, AloneInv, CrowdedInv
<1>2. ASSUME NEW r \in Runs, writing' = [writing EXCEPT ![r] = NoWrite],
             crowded' = (crowded /\ \E q \in Runs \ {r} : writing[q] # NoWrite)
      PROVE  WritesInv'
  <2>1. writing'[r] = NoWrite /\ \A q \in Runs : q # r => writing'[q] = writing[q]
    BY <1>2 DEF DataTypeOK
  <2>2. CASE crowded'
    BY <2>1, <2>2, <1>2 DEF WritesInv, CrowdedInv
  <2>3. CASE ~crowded'
    BY <2>1, <2>3, <1>2 DEF WritesInv, AloneInv
  <2> QED BY <2>2, <2>3
<1> QED BY <1>1, <1>2

LEMMA WritesStep ==
    ASSUME DataTypeOK, WritesInv, [Next]_vars
    PROVE  WritesInv'
<1>0. /\ session \in Seq(Entries) /\ pendingSessionWrites \in Seq(Writes)
      /\ writes \in Nat /\ writing \in [Runs -> Writes \cup {NoWrite}]
      /\ inFlight \in [Runs -> Seq(Messages)]
  BY HarnessAssumption DEF DataTypeOK
<1>a. NoWrite \notin Writes
  BY DEF NoWrite, Writes
<1>1. ASSUME UNCHANGED <<session, pendingSessionWrites, writes, exposed, writing, crowded>>
      PROVE  WritesInv'
  BY <1>1, FewerFlushes
<1>2. ASSUME NEW e, e.kind # "write", session' = Append(session, e),
             UNCHANGED <<pendingSessionWrites, writes, writing, exposed, crowded>>
      PROVE  WritesInv'
  <2>1. WritesKept(session', pendingSessionWrites, writes, exposed)
    BY <1>0, <1>2, OtherEntry DEF WritesInv
  <2>2. \A i \in 1..Len(session') : session'[i].kind = "write" =>
            i \in 1..Len(session) /\ session'[i] = session[i]
    BY <1>0, <1>2, Appended
  <2>3. CrowdedInv => CrowdedInv'
    BY <1>2, <2>2 DEF CrowdedInv, ExposedWrite
  <2>4. AloneInv => AloneInv'
    BY <1>2 DEF AloneInv
  <2> QED BY <1>2, <2>1, <2>3, <2>4 DEF WritesInv
<1>3. ASSUME NEW r \in Runs, SaveMessage(r)
      PROVE  WritesInv'
  <2>1. Head(inFlight[r]) \in Messages
    BY <1>0, <1>3 DEF SaveMessage
  <2>2. Head(inFlight[r]).kind # "write"
    BY <2>1 DEF Messages, QueuedMessages, RunMessages
  <2> QED BY <1>2, <1>3, <2>2 DEF SaveMessage, counts, history, flushHistory
<1>4. ASSUME NEW r \in Runs, Answer(r) \/ EmitRunFailure(r)
      PROVE  WritesInv'
  <2>1. RunMessage(r, turns[r] + 1).kind # "write"
    BY DEF RunMessage
  <2> QED BY <1>2, <1>4, <2>1 DEF Answer, EmitRunFailure, counts, history, flushHistory
<1>5. ASSUME NEW r \in Runs, FlushPeek(r)
      PROVE  WritesInv'
  <2>1. /\ UNCHANGED <<session, pendingSessionWrites, writes>>
        /\ pendingSessionWrites # << >> /\ writing[r] = NoWrite
        /\ writing' = [writing EXCEPT ![r] = pendingSessionWrites[1]]
        /\ crowded' = (crowded \/ \E q \in Runs : writing[q] # NoWrite)
        /\ exposed' = IF crowded' THEN exposed \cup PendingIds ELSE exposed
    BY <1>0, <1>5 DEF FlushPeek, counts
  <2>2. /\ writing'[r] = pendingSessionWrites[1]
        /\ \A q \in Runs : q # r => writing'[q] = writing[q]
    BY <2>1, <1>0
  <2>3. WritesKept(session, pendingSessionWrites, writes, exposed')
    BY <2>1, MoreExposed DEF WritesInv
  <2>4. CASE ~crowded'
    <3>1. ~crowded /\ \A q \in Runs : writing[q] = NoWrite
      BY <2>1, <2>4
    <3>2. AloneInv'
      BY <3>1, <2>1, <2>2 DEF AloneInv
    <3> QED BY <3>2, <2>1, <2>3, <2>4 DEF WritesInv
  <2>5. CASE crowded'
    <3>1. \A i \in 1..Len(pendingSessionWrites) : pendingSessionWrites[i].id \in PendingIds
      BY <1>0 DEF PendingIds, Range
    <3>2. \A i \in 1..Len(pendingSessionWrites) : pendingSessionWrites[i].id \in exposed'
      BY <3>1, <2>1, <2>5
    <3>3. 1 \in 1..Len(pendingSessionWrites)
      BY <2>1, <1>0
    <3>4. ExposedWrite(pendingSessionWrites[1], session, writes, exposed')
      <4> DEFINE w == pendingSessionWrites[1]
      <4>1. w.busy /\ w.id \in 1..writes /\ w.id \in exposed'
        BY <3>2, <3>3, <2>3 DEF WritesKept, PendingInOrder
      <4>2. \A i \in 1..Len(session) :
               session[i].kind = "write" /\ session[i].id \notin exposed' /\ session[i].busy
                   => session[i].id < w.id
        BY <3>3, <2>3 DEF WritesKept, SavedBeforePending, Sheltered
      <4> QED BY <4>1, <4>2 DEF ExposedWrite
    <3>5. ASSUME NEW q \in Runs, q # r, writing[q] # NoWrite
          PROVE  ExposedWrite(writing[q], session, writes, exposed')
      <4>1. CASE crowded
        BY <4>1, <3>5, <2>1, <2>5 DEF WritesInv, CrowdedInv, ExposedWrite
      <4>2. CASE ~crowded
        BY <4>2, <3>4, <3>5 DEF WritesInv, AloneInv
      <4> QED BY <4>1, <4>2
    <3>6. CrowdedInv'
      <4>1. \A i \in 1..Len(pendingSessionWrites') : pendingSessionWrites'[i].id \in exposed'
        BY <3>2, <2>1
      <4>2. ASSUME NEW q \in Runs, writing'[q] # NoWrite
            PROVE  ExposedWrite(writing'[q], session', writes', exposed')
        BY <4>2, <3>4, <3>5, <2>1, <2>2
      <4> QED BY <4>1, <4>2 DEF CrowdedInv
    <3> QED BY <3>6, <2>1, <2>3, <2>5 DEF WritesInv
  <2> QED BY <2>4, <2>5
<1>6. ASSUME NEW r \in Runs, FlushAppend(r)
      PROVE  WritesInv'
  <2>1. /\ writing[r] # NoWrite /\ writing[r] \in Writes
        /\ session' = Append(session, writing[r])
        /\ pendingSessionWrites' =
              IF pendingSessionWrites = << >> THEN << >> ELSE Tail(pendingSessionWrites)
        /\ writing' = [writing EXCEPT ![r] = NoWrite] /\ UNCHANGED <<writes, exposed>>
        /\ crowded' = (crowded /\ \E q \in Runs \ {r} : writing[q] # NoWrite)
    BY <1>0, <1>6 DEF FlushAppend, counts
  <2>2. writing'[r] = NoWrite /\ \A q \in Runs : q # r => writing'[q] = writing[q]
    BY <2>1, <1>0
  <2>3. CASE crowded
    <3>1. /\ WritesKept(session', pendingSessionWrites', writes, exposed)
          /\ \A i \in 1..Len(pendingSessionWrites') : pendingSessionWrites'[i].id \in exposed
          /\ \A v : ExposedWrite(v, session, writes, exposed)
                        => ExposedWrite(v, session', writes, exposed)
      <4>1. /\ \A i \in 1..Len(pendingSessionWrites) : pendingSessionWrites[i].id \in exposed
            /\ ExposedWrite(writing[r], session, writes, exposed)
            /\ WritesKept(session, pendingSessionWrites, writes, exposed)
        BY <2>1, <2>3 DEF WritesInv, CrowdedInv
      <4>2. PICK u : u = IF pendingSessionWrites = << >> THEN << >> ELSE Tail(pendingSessionWrites)
        OBVIOUS
      <4>3. /\ WritesKept(Append(session, writing[r]), u, writes, exposed)
            /\ \A i \in 1..Len(u) : u[i].id \in exposed
            /\ \A v : ExposedWrite(v, session, writes, exposed)
                          => ExposedWrite(v, Append(session, writing[r]), writes, exposed)
        BY <4>1, <4>2, <2>1, <1>0, CrowdedEntry
      <4> QED BY <4>2, <4>3, <2>1
    <3>2. crowded' => CrowdedInv'
      BY <3>1, <2>1, <2>2, <2>3 DEF WritesInv, CrowdedInv
    <3>3. ~crowded' => AloneInv'
      BY <2>1, <2>2, <2>3 DEF AloneInv
    <3> QED BY <3>1, <3>2, <3>3, <2>1 DEF WritesInv
  <2>4. CASE ~crowded
    <3>1. /\ pendingSessionWrites # << >> /\ writing[r] = pendingSessionWrites[1]
          /\ \A q \in Runs : writing[q] # NoWrite => q = r
          /\ WritesKept(session, pendingSessionWrites, writes, exposed)
      BY <2>1, <2>4 DEF WritesInv, AloneInv
    <3>2. WritesKept(session', pendingSessionWrites', writes', exposed')
      BY <3>1, <2>1, <1>0, FlushedEntry
    <3>3. AloneInv'
      BY <3>1, <2>2 DEF AloneInv
    <3> QED BY <3>2, <3>3, <2>1, <2>4 DEF WritesInv
  <2> QED BY <2>3, <2>4
<1>7. ASSUME NEW r \in Runs,
             \/ StartLoop(r) \/ TurnEnd(r) \/ EndLoop(r) \/ AgentEnd(r) \/ Settled(r)
             \/ StartFails(r) \/ TakeNextTurnMessages(r) \/ InitialSteeringPoll(r)
             \/ PollSteering(r) \/ PollFollowUps(r) \/ Prompt(r)
      PROVE  WritesInv'
  BY <1>1, <1>7 DEF StartLoop, TurnEnd, EndLoop, AgentEnd, Settled, StartFails,
              TakeNextTurnMessages, InitialSteeringPoll, PollSteering, PollFollowUps,
              Prompt, counts, history, flushHistory
<1>8. ASSUME NEW r \in Runs, Throws(r) \/ Return(r, FALSE) \/ Return(r, TRUE)
      PROVE  WritesInv'
  <2>1. /\ UNCHANGED <<session, pendingSessionWrites, writes, exposed>>
        /\ writing' = [writing EXCEPT ![r] = NoWrite]
        /\ crowded' = (crowded /\ \E q \in Runs \ {r} : writing[q] # NoWrite)
    BY <1>8 DEF Throws, Return, counts
  <2> QED BY <2>1, FewerFlushes
<1>9. CASE StructuralStep
  <2>1. [kind |-> "summary"].kind # "write"
    OBVIOUS
  <2>2. UNCHANGED <<pendingSessionWrites, writes, writing, exposed, crowded>>
    BY <1>9 DEF StructuralStep, StructuralEnd, perRun, flushHistory
  <2>3. session' = session \/ session' = Append(session, [kind |-> "summary"])
    BY <1>9 DEF StructuralStep, StructuralEnd
  <2> QED BY <2>1, <2>2, <2>3, <1>1, <1>2
<1>10. CASE RequestWrite
  <2>1. writes' = writes + 1 /\ UNCHANGED <<writing, crowded>> /\ exposed \subseteq exposed'
    BY <1>10 DEF RequestWrite, perRun
  <2>2. CASE phase = "idle"
    <3>1. /\ session' = Append(session, Write(writes + 1, FALSE))
          /\ UNCHANGED <<pendingSessionWrites, exposed>>
      BY <1>10, <2>2 DEF RequestWrite
    <3>2. WritesKept(session', pendingSessionWrites', writes', exposed')
      BY <3>1, <2>1, <1>0, NewWrite DEF WritesInv
    <3>3. \A i \in 1..Len(session') : session'[i].kind = "write" /\ session'[i].busy =>
              i \in 1..Len(session) /\ session'[i] = session[i]
      <4>0. ~Write(writes + 1, FALSE).busy
        BY DEF Write
      <4>1. PICK e : e = Write(writes + 1, FALSE) /\ ~e.busy
        BY <4>0, Zenon
      <4>2. PICK s : s \in Seq(Entries) /\ s = session
        BY <1>0
      <4>3. \A i \in 1..Len(Append(s, e)) : Append(s, e)[i].busy =>
                i \in 1..Len(s) /\ Append(s, e)[i] = s[i]
        <5>1. /\ Len(Append(s, e)) = Len(s) + 1 /\ Len(s) \in Nat
              /\ \A i \in 1..Len(s) : Append(s, e)[i] = s[i]
              /\ Append(s, e)[Len(s) + 1] = e
          BY <4>2, Appended
        <5>2. PICK v : v = Append(s, e)
          OBVIOUS
        <5>3. \A i \in 1..Len(v) : i \in 1..Len(s) \/ i = Len(s) + 1
          BY <5>1, <5>2
        <5> QED BY <5>1, <5>2, <5>3, <4>1
      <4> QED BY <4>1, <4>2, <4>3, <3>1
    <3>4. \A v : ExposedWrite(v, session, writes, exposed)
                     => ExposedWrite(v, session', writes', exposed')
      <4>1. \A x \in 1..writes : x \in 1..(writes + 1)
        BY <1>0
      <4> QED BY <4>1, <3>1, <3>3, <2>1 DEF ExposedWrite
    <3>5. CrowdedInv => CrowdedInv'
      BY <3>1, <3>4, <2>1 DEF CrowdedInv
    <3>6. AloneInv => AloneInv'
      BY <3>1, <2>1 DEF AloneInv
    <3> QED BY <3>2, <3>5, <3>6, <2>1 DEF WritesInv
  <2>3. CASE phase # "idle"
    <3>1. /\ pendingSessionWrites' = Append(pendingSessionWrites, Write(writes + 1, TRUE))
          /\ exposed' = IF crowded THEN exposed \cup {writes + 1} ELSE exposed
          /\ UNCHANGED session
      BY <1>10, <2>3 DEF RequestWrite
    <3>2. WritesKept(session, pendingSessionWrites', writes', exposed)
      BY <3>1, <2>1, <1>0, NewWrite DEF WritesInv
    <3>3. WritesKept(session', pendingSessionWrites', writes', exposed')
      BY <3>1, <3>2, <2>1, MoreExposed
    <3>4. /\ Len(pendingSessionWrites') = Len(pendingSessionWrites) + 1
          /\ Len(pendingSessionWrites) \in Nat
          /\ \A i \in 1..Len(pendingSessionWrites) :
                pendingSessionWrites'[i] = pendingSessionWrites[i]
          /\ pendingSessionWrites'[Len(pendingSessionWrites) + 1].id = writes + 1
      <4>0. Write(writes + 1, TRUE).id = writes + 1
        BY DEF Write
      <4>1. PICK e : e = Write(writes + 1, TRUE) /\ e.id = writes + 1
        BY <4>0, Zenon
      <4>2. PICK p : p \in Seq(Writes) /\ p = pendingSessionWrites
        BY <1>0
      <4>3. /\ Len(Append(p, e)) = Len(p) + 1
            /\ Len(p) \in Nat
            /\ \A i \in 1..Len(p) : Append(p, e)[i] = p[i]
            /\ Append(p, e)[Len(p) + 1] = e
        BY <4>2, Appended
      <4> QED BY <4>1, <4>2, <4>3, <3>1
    <3>5. CASE crowded
      <4>1. \A v : ExposedWrite(v, session, writes, exposed)
                       => ExposedWrite(v, session', writes', exposed')
        <5>1. \A x \in 1..writes : x \in 1..(writes + 1)
          BY <1>0
        <5> QED BY <5>1, <3>1, <2>1 DEF ExposedWrite
      <4>2. \A i \in 1..Len(pendingSessionWrites') : pendingSessionWrites'[i].id \in exposed'
        <5>1. \A i \in 1..Len(pendingSessionWrites') :
                 i \in 1..Len(pendingSessionWrites) \/ i = Len(pendingSessionWrites) + 1
          BY <3>4
        <5> QED BY <5>1, <3>1, <3>4, <3>5 DEF WritesInv, CrowdedInv
      <4>3. CrowdedInv'
        BY <4>1, <4>2, <3>5, <2>1 DEF WritesInv, CrowdedInv
      <4> QED BY <4>3, <3>3, <3>5, <2>1 DEF WritesInv
    <3>6. CASE ~crowded
      <4>1. pendingSessionWrites # << >> =>
              pendingSessionWrites' # << >> /\ pendingSessionWrites'[1] = pendingSessionWrites[1]
        <5>1. PICK p : p \in Seq(Writes) /\ p = pendingSessionWrites
          BY <1>0
        <5>2. PICK v : v \in Seq(Writes) /\ v = pendingSessionWrites'
          BY <3>1, <1>0, <2>1, DataStep DEF DataTypeOK
        <5>3. p # << >> => 1 \in 1..Len(p)
          BY <5>1
        <5>4. v # << >>
          BY <5>1, <5>2, <3>4
        <5> QED BY <5>1, <5>2, <5>3, <5>4, <3>4
      <4>2. AloneInv'
        BY <4>1, <3>6, <2>1 DEF WritesInv, AloneInv
      <4> QED BY <4>2, <3>3, <3>6, <2>1 DEF WritesInv
    <3> QED BY <3>5, <3>6
  <2> QED BY <2>2, <2>3
<1>11. CASE Steer \/ FollowUp \/ NextTurn \/ StructuralBegin \/ Abort
  BY <1>1, <1>11 DEF Steer, FollowUp, NextTurn, Enqueue, StructuralBegin, Abort, perRun,
                     history, flushHistory
<1>12. CASE UNCHANGED vars
  BY <1>1, <1>12 DEF vars, perRun, counts, history, flushHistory
<1> QED
  BY <1>3, <1>4, <1>5, <1>6, <1>7, <1>8, <1>9, <1>10, <1>11, <1>12
     DEF Next, RunStep, RunFault, Application

(* One position in two sequences, one after the other.                     *)
LEMMA FoundOnce ==
    ASSUME NEW q, NEW k \in 1..Len(q), NEW x, q[k] = x,
           \A l \in 1..Len(q) : q[l] = x => l = k
    PROVE  Occurrences(x, q) = 1
<1>1. {l \in 1..Len(q) : q[l] = x} = {k}
  OBVIOUS
<1>2. Cardinality({k}) = 1
  BY FS_Singleton
<1> QED BY <1>1, <1>2 DEF Occurrences

LEMMA WritesInvKeepsOnce == DataTypeOK /\ WritesInv => EveryWriteKeptOnce
<1> SUFFICES ASSUME DataTypeOK, WritesInv, NEW id \in (1..writes) \ exposed
             PROVE  \E busy \in BOOLEAN :
                        Occurrences(Write(id, busy), session \o pendingSessionWrites) = 1
  BY DEF EveryWriteKeptOnce
<1> DEFINE s == session
           p == pendingSessionWrites
           q == s \o p
<1>1. /\ s \in Seq(Entries) /\ p \in Seq(Writes) /\ p \in Seq(Entries)
      /\ Len(s) \in Nat /\ Len(p) \in Nat /\ writes \in Nat
  <2>1. Writes \subseteq Entries
    BY DEF Entries
  <2> QED BY <2>1, SeqMonotonic, HarnessAssumption DEF DataTypeOK
<1>2. WritesKept(s, p, writes, exposed)
  BY DEF WritesInv
<1>3. \A i \in 1..Len(p) : p[i].kind = "write"
  <2>1. \A i \in 1..Len(p) : p[i] \in Writes
    BY <1>1, ElementOfSeq
  <2> QED BY <2>1 DEF Writes
<1>4. /\ Len(q) = Len(s) + Len(p)
      /\ \A i \in 1..Len(q) : q[i] = IF i <= Len(s) THEN s[i] ELSE p[i - Len(s)]
      /\ \A i \in 1..Len(q) : q[i] \in Entries
  <2>1. q \in Seq(Entries)
    BY <1>1, ConcatProperties
  <2> QED BY <1>1, <2>1, ConcatProperties, ElementOfSeq
<1> HIDE DEF s, p, q
<1>5. PICK k \in 1..Len(q) : q[k].kind = "write" /\ q[k].id = id
  <2>1. CASE \E i \in 1..Len(s) : s[i].kind = "write" /\ s[i].id = id
    <3>1. PICK i \in 1..Len(s) : s[i].kind = "write" /\ s[i].id = id
      BY <2>1
    <3>2. i \in 1..Len(q) /\ q[i] = s[i]
      BY <1>1, <1>4
    <3> QED BY <3>1, <3>2
  <2>2. CASE \E i \in 1..Len(p) : p[i].id = id
    <3>1. PICK i \in 1..Len(p) : p[i].id = id
      BY <2>2
    <3>2. Len(s) + i \in 1..Len(q) /\ q[Len(s) + i] = p[i]
      BY <1>1, <1>4
    <3> QED BY <3>1, <3>2, <1>3
  <2> QED BY <2>1, <2>2, <1>2 DEF WritesKept, NoneLost, s, p
<1>6. ASSUME NEW l \in 1..Len(q), q[l] = q[k]
      PROVE  l = k
  <2>1. ASSUME NEW a \in 1..Len(q), NEW b \in 1..Len(q), a < b,
               q[a].kind = "write", q[b].kind = "write",
               Sheltered(q[a], q[b], exposed)
        PROVE  q[a].id # q[b].id
    <3>1. CASE b <= Len(s)
      <4>1. a \in 1..Len(s) /\ b \in 1..Len(s) /\ q[a] = s[a] /\ q[b] = s[b]
        BY <3>1, <2>1, <1>1, <1>4
      <4> QED BY <4>1, <2>1, <1>2 DEF WritesKept, SavedInOrder
    <3>2. CASE a <= Len(s) /\ ~(b <= Len(s))
      <4>1. /\ a \in 1..Len(s) /\ b - Len(s) \in 1..Len(p)
            /\ q[a] = s[a] /\ q[b] = p[b - Len(s)]
        BY <3>2, <2>1, <1>1, <1>4
      <4> QED BY <4>1, <2>1, <1>2 DEF WritesKept, SavedBeforePending
    <3>3. CASE ~(a <= Len(s))
      <4>1. /\ a - Len(s) \in 1..Len(p) /\ b - Len(s) \in 1..Len(p)
            /\ a - Len(s) < b - Len(s)
            /\ q[a] = p[a - Len(s)] /\ q[b] = p[b - Len(s)]
        BY <3>3, <2>1, <1>1, <1>4
      <4>2. /\ q[a].id < q[b].id /\ q[a].id \in 1..writes /\ q[b].id \in 1..writes
        BY <4>1, <1>2 DEF WritesKept, PendingInOrder
      <4> QED BY <4>2, <1>1
    <3> QED BY <3>1, <3>2, <3>3, <1>1
  <2>2. Sheltered(q[k], q[l], exposed) /\ Sheltered(q[l], q[k], exposed)
    BY <1>5, <1>6 DEF Sheltered
  <2> QED BY <2>1, <2>2, <1>5, <1>6, <1>1, <1>4
<1>7. q[k] \in Writes
  BY <1>4, <1>5 DEF Entries, Messages, QueuedMessages, RunMessages
<1>8. q[k] = Write(id, q[k].busy) /\ q[k].busy \in BOOLEAN
  BY <1>5, <1>7 DEF Writes, Write
<1>9. Occurrences(Write(id, q[k].busy), q) = 1
  BY <1>5, <1>6, <1>8, FoundOnce
<1> QED BY <1>8, <1>9 DEF q, s, p

LEMMA WritesInvariant == Spec => [](DataTypeOK /\ WritesInv)
<1>1. DataTypeOK /\ WritesInv /\ [Next]_vars => DataTypeOK' /\ WritesInv'
  BY DataStep, WritesStep
<1> QED BY <1>1, DataInit, WritesInit, PTL DEF Spec

(* EveryWriteKeptOnce, for any number of runs, writes and failures and     *)
(* however runs overlap: what the application asked to write is pending or *)
(* in the session, once, unless it was pending while two flushes were      *)
(* under way (flushPendingSessionWrites, appendMessage, setModel and the   *)
(* others).                                                                *)
THEOREM WritesAreKeptOnce == Spec => []EveryWriteKeptOnce
BY WritesInvariant, WritesInvKeepsOnce, PTL

(* BusyWritesInOrder, likewise: the writes of a busy harness reach the     *)
(* session in the order in which they were asked for; two change places    *)
(* only if both were pending while two flushes were under way.             *)
THEOREM FlushKeepsOrder == Spec => []BusyWritesInOrder
<1>1. WritesInv => BusyWritesInOrder
  BY DEF WritesInv, WritesKept, SavedInOrder, Sheltered, BusyWritesInOrder
<1> QED BY <1>1, WritesInvariant, PTL

-----------------------------------------------------------------------------
(***************************************************************************)
(* Queued messages.  A message is in the session, in one of the queues or  *)
(* in flight in a run: Held gives what each of these places holds.  No     *)
(* queued message is held twice.                                           *)
(***************************************************************************)
InSession == 0
InSteer == -1
InFollowUp == -2
InNextTurn == -3
Places == -3..MaxRuns

Held ==
    [k \in Places |-> IF k = InSession THEN session
                      ELSE IF k = InSteer THEN steerQueue
                      ELSE IF k = InFollowUp THEN followUpQueue
                      ELSE IF k = InNextTurn THEN nextTurnQueue
                      ELSE inFlight[k]]

HeldOnce(H) ==
    \A k, l \in Places :
        \A i \in 1..Len(H[k]), j \in 1..Len(H[l]) :
            H[k][i].kind = "queued" /\ H[k][i] = H[l][j] => k = l /\ i = j

KnownIds(H, n) ==
    \A k \in Places : \A i \in 1..Len(H[k]) :
        H[k][i].kind = "queued" => H[k][i].id \in 1..n

QueueInv == HeldOnce(Held) /\ KnownIds(Held, queued)

Holdings == [Places -> Seq(Entries)]

LEMMA Dropped ==
    ASSUME NEW H \in Holdings, NEW n, HeldOnce(H), KnownIds(H, n), NEW a \in Places
    PROVE  LET G == [H EXCEPT ![a] = << >>]
           IN  G \in Holdings /\ HeldOnce(G) /\ KnownIds(G, n)
<1> DEFINE G == [H EXCEPT ![a] = << >>]
<1>1. /\ G \in Holdings /\ Len(G[a]) = 0
      /\ \A k \in Places : k # a => G[k] = H[k]
  BY DEF Holdings
<1> HIDE DEF G
<1>2. HeldOnce(G)
  BY <1>1 DEF HeldOnce
<1>3. KnownIds(G, n)
  BY <1>1 DEF KnownIds
<1> QED BY <1>1, <1>2, <1>3 DEF G

(* A message that no place holds comes to one of them.                     *)
LEMMA Added ==
    ASSUME NEW H \in Holdings, NEW n, HeldOnce(H), KnownIds(H, n), NEW a \in Places,
           NEW e \in Entries,
           e.kind = "queued" =>
               /\ e.id \in 1..n
               /\ \A k \in Places : \A i \in 1..Len(H[k]) : H[k][i] # e
    PROVE  LET G == [H EXCEPT ![a] = Append(@, e)]
           IN  G \in Holdings /\ HeldOnce(G) /\ KnownIds(G, n)
<1> DEFINE G == [H EXCEPT ![a] = Append(@, e)]
<1>1. G \in Holdings /\ G[a] = Append(H[a], e) /\ \A k \in Places : k # a => G[k] = H[k]
  BY DEF Holdings
<1>2. H[a] \in Seq(Entries)
  BY DEF Holdings
<1>3. /\ Len(G[a]) = Len(H[a]) + 1 /\ Len(H[a]) \in Nat
      /\ \A i \in 1..Len(H[a]) : G[a][i] = H[a][i]
      /\ G[a][Len(H[a]) + 1] = e
  BY <1>1, <1>2, Appended
<1> HIDE DEF G
<1>4. \A k \in Places : \A i \in 1..Len(G[k]) :
          \/ i \in 1..Len(H[k]) /\ G[k][i] = H[k][i]
          \/ k = a /\ i = Len(H[a]) + 1 /\ G[k][i] = e
  BY <1>1, <1>3
<1>5. HeldOnce(G)
  <2> SUFFICES ASSUME NEW k \in Places, NEW l \in Places,
                      NEW i \in 1..Len(G[k]), NEW j \in 1..Len(G[l]),
                      G[k][i].kind = "queued", G[k][i] = G[l][j]
               PROVE  k = l /\ i = j
    BY DEF HeldOnce
  <2>1. CASE i \in 1..Len(H[k]) /\ G[k][i] = H[k][i]
    <3>1. j \in 1..Len(H[l]) /\ G[l][j] = H[l][j]
      BY <2>1, <1>4
    <3>2. H[k][i].kind = "queued" /\ H[k][i] = H[l][j]
      BY <2>1, <3>1
    <3> QED BY <2>1, <3>1, <3>2 DEF HeldOnce
  <2>2. CASE k = a /\ i = Len(H[a]) + 1 /\ G[k][i] = e
    <3>1. e.kind = "queued" /\ G[l][j] = e
      BY <2>2
    <3>2. ~(j \in 1..Len(H[l]) /\ G[l][j] = H[l][j])
      BY <3>1
    <3>3. l = a /\ j = Len(H[a]) + 1
      BY <3>2, <1>4
    <3> QED BY <2>2, <3>3
  <2> QED BY <2>1, <2>2, <1>4
<1>6. KnownIds(G, n)
  BY <1>4 DEF KnownIds
<1> QED BY <1>1, <1>5, <1>6 DEF G

(* The oldest message of one place goes to another.                        *)
LEMMA Moved ==
    ASSUME NEW H \in Holdings, NEW n, HeldOnce(H), KnownIds(H, n),
           NEW a \in Places, NEW b \in Places, a # b, H[b] # << >>
    PROVE  LET G == [H EXCEPT ![a] = Append(H[a], H[b][1]), ![b] = Tail(H[b])]
           IN  G \in Holdings /\ HeldOnce(G) /\ KnownIds(G, n)
<1> DEFINE e == H[b][1]
           G == [H EXCEPT ![a] = Append(H[a], e), ![b] = Tail(H[b])]
<1>1. H[a] \in Seq(Entries) /\ H[b] \in Seq(Entries) /\ e \in Entries
  BY DEF Holdings
<1>2. /\ G \in Holdings /\ G[a] = Append(H[a], e) /\ G[b] = Tail(H[b])
      /\ \A k \in Places : k # a /\ k # b => G[k] = H[k]
  <2>1. Append(H[a], e) \in Seq(Entries) /\ Tail(H[b]) \in Seq(Entries)
    BY <1>1
  <2> HIDE DEF e
  <2> QED BY <2>1 DEF Holdings
<1> HIDE DEF G
<1>3. /\ Len(G[a]) = Len(H[a]) + 1 /\ Len(H[a]) \in Nat
      /\ \A i \in 1..Len(H[a]) : G[a][i] = H[a][i]
      /\ G[a][Len(H[a]) + 1] = e
  BY <1>1, <1>2, Appended
<1>4. /\ Len(H[b]) \in Nat /\ Len(H[b]) >= 1
      /\ \A i \in 1..Len(G[b]) : G[b][i] = H[b][i + 1] /\ i + 1 \in 2..Len(H[b])
  <2>1. /\ Len(H[b]) \in Nat /\ Len(H[b]) >= 1 /\ Len(Tail(H[b])) = Len(H[b]) - 1
        /\ \A i \in 1..Len(Tail(H[b])) : Tail(H[b])[i] = H[b][i + 1]
    BY <1>1, HeadTailProperties
  <2> QED BY <2>1, <1>2
<1>5. 1 \in 1..Len(H[b]) /\ e = H[b][1]
  BY <1>4
<1> HIDE DEF e
<1>6. \A k \in Places : \A i \in 1..Len(G[k]) :
          \/ k # b /\ i \in 1..Len(H[k]) /\ G[k][i] = H[k][i]
          \/ k = a /\ i = Len(H[a]) + 1 /\ G[k][i] = H[b][1]
          \/ k = b /\ i + 1 \in 2..Len(H[b]) /\ G[k][i] = H[b][i + 1]
  <2> TAKE k \in Places
  <2>1. CASE k = a
    BY <2>1, <1>3, <1>5
  <2>2. CASE k = b
    BY <2>2, <1>4
  <2>3. CASE k # a /\ k # b
    BY <2>3, <1>2
  <2> QED BY <2>1, <2>2, <2>3
<1>7. HeldOnce(G)
  <2> SUFFICES ASSUME NEW k \in Places, NEW l \in Places,
                      NEW i \in 1..Len(G[k]), NEW j \in 1..Len(G[l]),
                      G[k][i].kind = "queued", G[k][i] = G[l][j]
               PROVE  k = l /\ i = j
    BY DEF HeldOnce
  <2>0. \A x \in 2..Len(H[b]) : x \in 1..Len(H[b]) /\ x # 1
    BY <1>4
  <2>1. CASE k # b /\ i \in 1..Len(H[k]) /\ G[k][i] = H[k][i]
    <3>1. CASE l # b /\ j \in 1..Len(H[l]) /\ G[l][j] = H[l][j]
      <4>1. H[k][i].kind = "queued" /\ H[k][i] = H[l][j]
        BY <2>1, <3>1
      <4> QED BY <2>1, <3>1, <4>1 DEF HeldOnce
    <3>2. CASE G[l][j] = H[b][1]
      <4>1. H[k][i].kind = "queued" /\ H[k][i] = H[b][1]
        BY <2>1, <3>2
      <4> QED BY <4>1, <2>1, <1>5 DEF HeldOnce
    <3>3. CASE j + 1 \in 2..Len(H[b]) /\ G[l][j] = H[b][j + 1]
      <4>1. H[k][i].kind = "queued" /\ H[k][i] = H[b][j + 1]
        BY <2>1, <3>3
      <4> QED BY <4>1, <2>0, <2>1, <3>3 DEF HeldOnce
    <3> QED BY <3>1, <3>2, <3>3, <1>6
  <2>2. CASE k = a /\ i = Len(H[a]) + 1 /\ G[k][i] = H[b][1]
    <3>1. CASE l # b /\ j \in 1..Len(H[l]) /\ G[l][j] = H[l][j]
      BY <2>2, <3>1, <1>5 DEF HeldOnce
    <3>2. CASE l = a /\ j = Len(H[a]) + 1
      BY <2>2, <3>2
    <3>3. CASE j + 1 \in 2..Len(H[b]) /\ G[l][j] = H[b][j + 1]
      BY <2>0, <2>2, <3>3, <1>5 DEF HeldOnce
    <3> QED BY <3>1, <3>2, <3>3, <1>6
  <2>3. CASE k = b /\ i + 1 \in 2..Len(H[b]) /\ G[k][i] = H[b][i + 1]
    <3>1. CASE l # b /\ j \in 1..Len(H[l]) /\ G[l][j] = H[l][j]
      BY <2>0, <2>3, <3>1 DEF HeldOnce
    <3>2. CASE G[l][j] = H[b][1]
      BY <2>0, <2>3, <3>2, <1>5 DEF HeldOnce
    <3>3. CASE l = b /\ j + 1 \in 2..Len(H[b]) /\ G[l][j] = H[b][j + 1]
      <4>1. i + 1 = j + 1
        BY <2>0, <2>3, <3>3 DEF HeldOnce
      <4> QED BY <4>1, <2>3, <3>3
    <3> QED BY <3>1, <3>2, <3>3, <1>6
  <2> QED BY <2>1, <2>2, <2>3, <1>6
<1>8. KnownIds(G, n)
  <2>1. \A k \in Places : \A i \in 1..Len(G[k]) :
            \E l \in Places : \E j \in 1..Len(H[l]) : G[k][i] = H[l][j]
    BY <1>4, <1>5, <1>6
  <2> SUFFICES ASSUME NEW k \in Places, NEW i \in 1..Len(G[k]), G[k][i].kind = "queued"
               PROVE  G[k][i].id \in 1..n
    BY DEF KnownIds
  <2>2. PICK l \in Places : \E j \in 1..Len(H[l]) : G[k][i] = H[l][j]
    BY <2>1
  <2>3. PICK j \in 1..Len(H[l]) : G[k][i] = H[l][j]
    BY <2>2
  <2>4. H[l][j].kind = "queued"
    BY <2>3
  <2>5. H[l][j].id \in 1..n
    BY <2>4 DEF KnownIds
  <2> QED BY <2>3, <2>5
<1> QED BY <1>2, <1>7, <1>8 DEF G, e

(* All messages of one place go to another, in place of what it held.      *)
LEMMA MovedAll ==
    ASSUME NEW H \in Holdings, NEW n, HeldOnce(H), KnownIds(H, n),
           NEW a \in Places, NEW b \in Places, a # b
    PROVE  LET G == [H EXCEPT ![a] = H[b], ![b] = << >>]
           IN  G \in Holdings /\ HeldOnce(G) /\ KnownIds(G, n)
<1> DEFINE G == [H EXCEPT ![a] = H[b], ![b] = << >>]
<1>1. /\ G \in Holdings /\ G[a] = H[b] /\ Len(G[b]) = 0
      /\ \A k \in Places : k # a /\ k # b => G[k] = H[k]
  BY DEF Holdings
<1> HIDE DEF G
<1>2. HeldOnce(G)
  BY <1>1 DEF HeldOnce
<1>3. KnownIds(G, n)
  BY <1>1 DEF KnownIds
<1> QED BY <1>1, <1>2, <1>3 DEF G

LEMMA HeldValues ==
    ASSUME DataTypeOK
    PROVE  /\ Held \in Holdings
           /\ Held[InSession] = session /\ Held[InSteer] = steerQueue
           /\ Held[InFollowUp] = followUpQueue /\ Held[InNextTurn] = nextTurnQueue
           /\ \A r \in Runs : Held[r] = inFlight[r]
           /\ {InSession, InSteer, InFollowUp, InNextTurn} \subseteq Places
           /\ Runs \subseteq Places
           /\ \A r \in Runs : r \notin {InSession, InSteer, InFollowUp, InNextTurn}
<1>1. QueuedMessages \subseteq Entries /\ Messages \subseteq Entries
  BY DEF Entries, Messages
<1>2. /\ session \in Seq(Entries) /\ steerQueue \in Seq(Entries)
      /\ followUpQueue \in Seq(Entries) /\ nextTurnQueue \in Seq(Entries)
      /\ \A r \in Runs : inFlight[r] \in Seq(Entries)
  BY <1>1, SeqMonotonic DEF DataTypeOK
<1>3. \A k \in Places : k \in {InSession, InSteer, InFollowUp, InNextTurn} \/ k \in Runs
  BY HarnessAssumption DEF Places, Runs, InSession, InSteer, InFollowUp, InNextTurn
<1>4. /\ {InSession, InSteer, InFollowUp, InNextTurn} \subseteq Places
      /\ Runs \subseteq Places
      /\ \A r \in Runs : r \notin {InSession, InSteer, InFollowUp, InNextTurn}
      /\ InSteer # InSession /\ InFollowUp \notin {InSession, InSteer}
      /\ InNextTurn \notin {InSession, InSteer, InFollowUp}
  BY HarnessAssumption DEF Places, Runs, InSession, InSteer, InFollowUp, InNextTurn
<1>5. Held \in Holdings
  BY <1>2, <1>3 DEF Held, Holdings
<1> QED BY <1>4, <1>5 DEF Held

LEMMA QueueInit == Init => QueueInv
<1> SUFFICES ASSUME Init PROVE QueueInv
  OBVIOUS
<1>1. DataTypeOK
  BY DataInit
<1>2. \A k \in Places : k \in {InSession, InSteer, InFollowUp, InNextTurn} \/ k \in Runs
  BY HarnessAssumption DEF Places, Runs, InSession, InSteer, InFollowUp, InNextTurn
<1>3. \A k \in Places : Held[k] = << >>
  BY <1>1, <1>2, HeldValues DEF Init
<1> QED BY <1>3 DEF QueueInv, HeldOnce, KnownIds

LEMMA QueueStep ==
    ASSUME DataTypeOK, DataTypeOK', QueueInv, [Next]_vars
    PROVE  QueueInv'
<1> DEFINE H == Held
           Same(G) == /\ G[InSession] = session' /\ G[InSteer] = steerQueue'
                      /\ G[InFollowUp] = followUpQueue' /\ G[InNextTurn] = nextTurnQueue'
                      /\ \A r \in Runs : G[r] = inFlight'[r]
<1>0. /\ H \in Holdings /\ HeldOnce(H) /\ KnownIds(H, queued)
      /\ H[InSession] = session /\ H[InSteer] = steerQueue
      /\ H[InFollowUp] = followUpQueue /\ H[InNextTurn] = nextTurnQueue
      /\ \A r \in Runs : H[r] = inFlight[r]
      /\ {InSession, InSteer, InFollowUp, InNextTurn} \subseteq Places
      /\ Runs \subseteq Places
      /\ \A r \in Runs : r \notin {InSession, InSteer, InFollowUp, InNextTurn}
      /\ InSteer # InSession /\ InFollowUp \notin {InSession, InSteer}
      /\ InNextTurn \notin {InSession, InSteer, InFollowUp}
  BY HeldValues DEF QueueInv, InSession, InSteer, InFollowUp, InNextTurn
<1>1. ASSUME NEW G \in Holdings, Same(G), HeldOnce(G), KnownIds(G, queued')
      PROVE  QueueInv'
  <2>1. \A k \in Places : k \in {InSession, InSteer, InFollowUp, InNextTurn} \/ k \in Runs
    BY HarnessAssumption DEF Places, Runs, InSession, InSteer, InFollowUp, InNextTurn
  <2>2. Held' = [k \in Places |-> G[k]]
    BY <1>0, <1>1, <2>1 DEF Held
  <2>3. G = [k \in Places |-> G[k]]
    BY <1>1 DEF Holdings
  <2> QED BY <1>1, <2>2, <2>3 DEF QueueInv
<1> HIDE DEF H
<1>2. ASSUME NEW r \in Runs, TakeNextTurnMessages(r)
      PROVE  QueueInv'
  <2> DEFINE F == [H EXCEPT ![r] = H[InNextTurn], ![InNextTurn] = << >>]
             G == [F EXCEPT ![r] = Append(@, RunMessage(r, 0))]
  <2>1. F \in Holdings /\ HeldOnce(F) /\ KnownIds(F, queued)
    BY <1>0, MovedAll
  <2>2. RunMessage(r, 0) \in Entries /\ RunMessage(r, 0).kind # "queued"
    BY DEF RunMessage, Entries, Messages, RunMessages
  <2>3. /\ \A k \in Places : k # r /\ k # InNextTurn => F[k] = H[k]
        /\ F[r] = nextTurnQueue /\ F[InNextTurn] = << >>
    BY <1>0 DEF Holdings
  <2> HIDE DEF F
  <2>4. G \in Holdings /\ HeldOnce(G) /\ KnownIds(G, queued)
    BY <1>0, <2>1, <2>2, Added
  <2>5. Append(nextTurnQueue, RunMessage(r, 0)) = nextTurnQueue \o <<RunMessage(r, 0)>>
    <3>1. nextTurnQueue \in Seq(Entries)
      BY <1>0, <2>1, <2>3 DEF Holdings
    <3> QED BY <3>1, <2>2, AppendIsConcat
  <2>6. /\ \A k \in Places : k # r /\ k # InNextTurn => G[k] = H[k]
        /\ G[r] = nextTurnQueue \o <<RunMessage(r, 0)>> /\ G[InNextTurn] = << >>
    BY <1>0, <2>1, <2>3, <2>5 DEF Holdings
  <2> HIDE DEF G
  <2>7. Same(G) /\ queued' = queued
    BY <1>0, <1>2, <2>6 DEF TakeNextTurnMessages, counts, DataTypeOK
  <2> QED BY <2>4, <2>7, <1>1
<1>3. ASSUME NEW r \in Runs, SaveMessage(r)
      PROVE  QueueInv'
  <2> DEFINE G == [H EXCEPT ![InSession] = Append(H[InSession], H[r][1]), ![r] = Tail(H[r])]
  <2>1. inFlight[r] # << >> /\ Head(inFlight[r]) = inFlight[r][1]
    BY <1>3 DEF SaveMessage, DataTypeOK
  <2>2. G \in Holdings /\ HeldOnce(G) /\ KnownIds(G, queued)
    BY <1>0, <2>1, Moved
  <2>3. /\ \A k \in Places : k # r /\ k # InSession => G[k] = H[k]
        /\ G[r] = Tail(inFlight[r]) /\ G[InSession] = Append(session, inFlight[r][1])
    BY <1>0 DEF Holdings
  <2> HIDE DEF G
  <2>4. Same(G) /\ queued' = queued
    BY <1>0, <1>3, <2>1, <2>3 DEF SaveMessage, queues, counts, DataTypeOK
  <2> QED BY <2>2, <2>4, <1>1
<1>4. ASSUME NEW r \in Runs, NEW b \in {InSteer, InFollowUp},
             inFlight' = [inFlight EXCEPT ![r] = Drained(H[b], "one-at-a-time")],
             steerQueue' = IF b = InSteer THEN Left(H[b], "one-at-a-time") ELSE steerQueue,
             followUpQueue' = IF b = InFollowUp THEN Left(H[b], "one-at-a-time")
                                                ELSE followUpQueue,
             UNCHANGED <<session, nextTurnQueue, queued>>
      PROVE  QueueInv'
  <2> DEFINE F == [H EXCEPT ![r] = << >>]
             G == [F EXCEPT ![r] = Append(F[r], F[b][1]), ![b] = Tail(F[b])]
  <2>1. F \in Holdings /\ HeldOnce(F) /\ KnownIds(F, queued)
    BY <1>0, Dropped
  <2>2. /\ \A k \in Places : k # r => F[k] = H[k]
        /\ F[r] = << >> /\ r # b /\ b \in Places /\ r \in Places /\ F[b] = H[b]
    BY <1>0 DEF Holdings
  <2> HIDE DEF F
  <2>3. H[b] \in Seq(Entries) /\ inFlight \in [Runs -> Seq(Messages)]
    BY <1>0, <2>2 DEF Holdings, DataTypeOK
  <2>4. CASE H[b] = << >>
    <3>1. Drained(H[b], "one-at-a-time") = << >> /\ Left(H[b], "one-at-a-time") = << >>
      BY <2>3, <2>4, DrainOne
    <3>2. Same(F)
      BY <3>1, <1>0, <1>4, <2>2, <2>3, <2>4
    <3> QED BY <3>2, <2>1, <1>1, <1>4
  <2>5. CASE H[b] # << >>
    <3>1. /\ Drained(H[b], "one-at-a-time") = <<H[b][1]>>
          /\ Left(H[b], "one-at-a-time") = Tail(H[b])
      BY <2>3, <2>5, DrainOne
    <3>2. G \in Holdings /\ HeldOnce(G) /\ KnownIds(G, queued)
      BY <2>1, <2>2, <2>5, Moved
    <3>3. /\ \A k \in Places : k # r /\ k # b => G[k] = H[k]
          /\ G[r] = <<H[b][1]>> /\ G[b] = Tail(H[b])
      BY <2>1, <2>2 DEF Holdings
    <3> HIDE DEF G
    <3>4. Same(G)
      BY <3>1, <3>3, <1>0, <1>4, <2>3
    <3> QED BY <3>2, <3>4, <1>1, <1>4
  <2> QED BY <2>4, <2>5
<1>5. ASSUME NEW e \in Entries, e.kind # "queued", session' = Append(session, e),
             UNCHANGED <<steerQueue, followUpQueue, nextTurnQueue, inFlight, queued>>
      PROVE  QueueInv'
  <2> DEFINE G == [H EXCEPT ![InSession] = Append(@, e)]
  <2>1. G \in Holdings /\ HeldOnce(G) /\ KnownIds(G, queued)
    BY <1>0, <1>5, Added
  <2>2. Same(G)
    BY <1>0, <1>5 DEF Holdings
  <2> HIDE DEF G
  <2> QED BY <2>1, <2>2, <1>1, <1>5
<1>6. ASSUME UNCHANGED <<session, steerQueue, followUpQueue, nextTurnQueue, inFlight, queued>>
      PROVE  QueueInv'
  BY <1>0, <1>1, <1>6
<1>7. ASSUME NEW r \in Runs, inFlight' = [inFlight EXCEPT ![r] = << >>],
             UNCHANGED <<session, steerQueue, followUpQueue, nextTurnQueue, queued>>
      PROVE  QueueInv'
  <2> DEFINE G == [H EXCEPT ![r] = << >>]
  <2>1. G \in Holdings /\ HeldOnce(G) /\ KnownIds(G, queued)
    BY <1>0, Dropped
  <2>2. Same(G)
    BY <1>0, <1>7 DEF Holdings, DataTypeOK
  <2> HIDE DEF G
  <2> QED BY <2>1, <2>2, <1>1, <1>7
<1>8. CASE Steer \/ FollowUp \/ NextTurn
  <2> DEFINE e == Queued(queued + 1)
  <2>1. PICK b \in {InSteer, InFollowUp, InNextTurn} :
          /\ steerQueue' = IF b = InSteer THEN Append(H[b], e) ELSE steerQueue
          /\ followUpQueue' = IF b = InFollowUp THEN Append(H[b], e) ELSE followUpQueue
          /\ nextTurnQueue' = IF b = InNextTurn THEN Append(H[b], e) ELSE nextTurnQueue
    BY <1>0, <1>8 DEF Steer, FollowUp, NextTurn, Enqueue
  <2>2. UNCHANGED <<session, inFlight>> /\ queued' = queued + 1 /\ queued < MaxQueued
    BY <1>8 DEF Steer, FollowUp, NextTurn, Enqueue, perRun
  <2>3. queued \in Nat /\ e \in Entries /\ e.kind = "queued" /\ e.id = queued + 1
    BY <2>2, HarnessAssumption
       DEF Queued, Entries, Messages, QueuedMessages, DataTypeOK
  <2>4. \A k \in Places : \A i \in 1..Len(H[k]) : H[k][i] # e
    BY <2>3, <1>0 DEF KnownIds
  <2>5. KnownIds(H, queued + 1) /\ e.id \in 1..(queued + 1)
    BY <2>3, <1>0 DEF KnownIds
  <2> DEFINE G == [H EXCEPT ![b] = Append(@, e)]
  <2> HIDE DEF e
  <2>6. G \in Holdings /\ HeldOnce(G) /\ KnownIds(G, queued + 1)
    BY <2>3, <2>4, <2>5, <1>0, Added
  <2>7. Same(G)
    BY <2>1, <2>2, <1>0 DEF Holdings
  <2> HIDE DEF G
  <2> QED BY <2>2, <2>6, <2>7, <1>1
<1>9. CASE Abort
  <2> DEFINE F == [H EXCEPT ![InSteer] = << >>]
             G == [F EXCEPT ![InFollowUp] = << >>]
  <2>1. F \in Holdings /\ HeldOnce(F) /\ KnownIds(F, queued)
    BY <1>0, Dropped
  <2>2. F[InSteer] = << >> /\ \A k \in Places : k # InSteer => F[k] = H[k]
    BY <1>0 DEF Holdings
  <2> HIDE DEF F
  <2>3. G \in Holdings /\ HeldOnce(G) /\ KnownIds(G, queued)
    BY <1>0, <2>1, Dropped
  <2>4. Same(G) /\ queued' = queued
    BY <1>0, <1>9, <2>1, <2>2 DEF Holdings, Abort, counts
  <2> HIDE DEF G
  <2> QED BY <2>3, <2>4, <1>1
<1>10. ASSUME NEW r \in Runs, InitialSteeringPoll(r) \/ PollSteering(r) \/ PollFollowUps(r)
       PROVE  QueueInv'
  <2>1. CASE InitialSteeringPoll(r) \/ PollSteering(r)
    BY <2>1, <1>0, <1>4 DEF InitialSteeringPoll, PollSteering, counts
  <2>2. CASE PollFollowUps(r)
    BY <2>2, <1>0, <1>4 DEF PollFollowUps, counts
  <2> QED BY <1>10, <2>1, <2>2
<1>11. ASSUME NEW r \in Runs, Answer(r) \/ EmitRunFailure(r)
       PROVE  QueueInv'
  <2>1. /\ RunMessage(r, turns[r] + 1) \in Entries
        /\ RunMessage(r, turns[r] + 1).kind # "queued"
    <3>0. turns \in [Runs -> Nat]
      BY DEF DataTypeOK
    <3>1. turns[r] + 1 \in Nat
      BY <3>0
    <3> QED BY <3>1 DEF RunMessage, Entries, Messages, RunMessages
  <2> QED BY <1>5, <1>11, <2>1 DEF Answer, EmitRunFailure, queues, counts
<1>12. ASSUME NEW r \in Runs, FlushAppend(r)
       PROVE  QueueInv'
  <2>1. writing[r] \in Writes
    BY <1>12 DEF FlushAppend, DataTypeOK
  <2>2. writing[r] \in Entries /\ writing[r].kind # "queued"
    BY <2>1 DEF Entries, Writes
  <2> QED BY <1>5, <1>12, <2>2 DEF FlushAppend, queues, counts
<1>13. CASE StructuralStep
  <2>1. [kind |-> "summary"] \in Entries /\ [kind |-> "summary"].kind # "queued"
    BY DEF Entries
  <2>2. /\ UNCHANGED <<steerQueue, followUpQueue, nextTurnQueue, inFlight, queued>>
        /\ session' = session \/ session' = Append(session, [kind |-> "summary"])
    BY <1>13 DEF StructuralStep, StructuralEnd, queues, perRun
  <2> QED BY <1>5, <1>6, <2>1, <2>2
<1>14. CASE RequestWrite
  <2>1. /\ UNCHANGED <<steerQueue, followUpQueue, nextTurnQueue, inFlight, queued>>
        /\ session' = session \/ session' = Append(session, Write(writes + 1, FALSE))
    BY <1>14 DEF RequestWrite, queues, perRun
  <2>2. Write(writes + 1, FALSE) \in Entries /\ Write(writes + 1, FALSE).kind # "queued"
    BY <1>14, HarnessAssumption DEF RequestWrite, DataTypeOK, Write, Writes, Entries
  <2> QED BY <1>5, <1>6, <2>1, <2>2
<1>15. ASSUME NEW r \in Runs,
             \/ StartLoop(r) \/ TurnEnd(r) \/ EndLoop(r) \/ AgentEnd(r) \/ Settled(r)
             \/ FlushPeek(r) \/ Prompt(r) \/ Return(r, TRUE) \/ Return(r, FALSE)
       PROVE  QueueInv'
  BY <1>6, <1>15 DEF StartLoop, TurnEnd, EndLoop, AgentEnd, Settled, FlushPeek, Prompt,
                     Return, queues, counts
<1>16. ASSUME NEW r \in Runs, StartFails(r) \/ Throws(r)
       PROVE  QueueInv'
  BY <1>7, <1>16 DEF StartFails, Throws, queues, counts
<1>17. CASE StructuralBegin \/ UNCHANGED vars
  BY <1>6, <1>17 DEF StructuralBegin, vars, queues, perRun, counts
<1> QED
  BY <1>2, <1>3, <1>8, <1>9, <1>10, <1>11, <1>12, <1>13, <1>14, <1>15, <1>16, <1>17
     DEF Next, RunStep, RunFault, Application

(* How often a sequence has x: at most once, and whether at all.           *)
AtMostOnce(x, s) == \A i, j \in 1..Len(s) : s[i] = x /\ s[j] = x => i = j
Has(x, s) == \E i \in 1..Len(s) : s[i] = x

LEMMA OnceInConcat ==
    ASSUME NEW S, NEW s \in Seq(S), NEW t \in Seq(S), NEW x,
           AtMostOnce(x, s), AtMostOnce(x, t), ~(Has(x, s) /\ Has(x, t))
    PROVE  /\ s \o t \in Seq(S)
           /\ AtMostOnce(x, s \o t)
           /\ Has(x, s \o t) => Has(x, s) \/ Has(x, t)
<1> DEFINE q == s \o t
<1>1. /\ q \in Seq(S) /\ Len(q) = Len(s) + Len(t) /\ Len(s) \in Nat /\ Len(t) \in Nat
      /\ \A i \in 1..Len(q) : q[i] = IF i <= Len(s) THEN s[i] ELSE t[i - Len(s)]
  BY ConcatProperties, LenProperties
<1> HIDE DEF q
<1>2. \A i \in 1..Len(q) : \/ i \in 1..Len(s) /\ q[i] = s[i]
                           \/ i - Len(s) \in 1..Len(t) /\ q[i] = t[i - Len(s)]
  BY <1>1
<1>3. AtMostOnce(x, q)
  <2> SUFFICES ASSUME NEW i \in 1..Len(q), NEW j \in 1..Len(q), q[i] = x, q[j] = x
               PROVE  i = j
    BY DEF AtMostOnce
  <2>1. CASE i \in 1..Len(s) /\ q[i] = s[i]
    <3>1. j \in 1..Len(s) /\ q[j] = s[j]
      BY <2>1, <1>2 DEF Has
    <3> QED BY <2>1, <3>1 DEF AtMostOnce
  <2>2. CASE i - Len(s) \in 1..Len(t) /\ q[i] = t[i - Len(s)]
    <3>1. j - Len(s) \in 1..Len(t) /\ q[j] = t[j - Len(s)]
      BY <2>2, <1>2 DEF Has
    <3>2. i - Len(s) = j - Len(s)
      BY <2>2, <3>1 DEF AtMostOnce
    <3> QED BY <3>2, <1>1
  <2> QED BY <2>1, <2>2, <1>2
<1>4. Has(x, q) => Has(x, s) \/ Has(x, t)
  BY <1>2 DEF Has
<1> QED BY <1>1, <1>3, <1>4 DEF q

LEMMA QueueInvHoldsOnce == DataTypeOK /\ QueueInv => QueuedAtMostOnce
<1> SUFFICES ASSUME DataTypeOK, QueueInv, NEW id \in 1..queued
             PROVE  Occurrences(Queued(id), session \o steerQueue \o followUpQueue \o nextTurnQueue)
                    + Cardinality({r \in Runs : Queued(id) \in Range(inFlight[r])}) <= 1
  BY DEF QueuedAtMostOnce
<1> DEFINE x == Queued(id)
           H == Held
           q == session \o steerQueue \o followUpQueue \o nextTurnQueue
           C == {k \in 1..Len(q) : q[k] = x}
           R == {r \in Runs : x \in Range(inFlight[r])}
<1>0. x.kind = "queued"
  BY DEF Queued
<1>1. /\ H \in Holdings /\ HeldOnce(H)
      /\ H[InSession] = session /\ H[InSteer] = steerQueue
      /\ H[InFollowUp] = followUpQueue /\ H[InNextTurn] = nextTurnQueue
      /\ \A r \in Runs : H[r] = inFlight[r]
      /\ {InSession, InSteer, InFollowUp, InNextTurn} \subseteq Places
      /\ Runs \subseteq Places
      /\ \A r \in Runs : r \notin {InSession, InSteer, InFollowUp, InNextTurn}
      /\ InSteer # InSession /\ InFollowUp \notin {InSession, InSteer}
      /\ InNextTurn \notin {InSession, InSteer, InFollowUp}
  BY HeldValues DEF QueueInv, InSession, InSteer, InFollowUp, InNextTurn
<1> HIDE DEF x, H
<1>2. /\ \A k \in Places : H[k] \in Seq(Entries) /\ AtMostOnce(x, H[k])
      /\ \A k, l \in Places : Has(x, H[k]) /\ Has(x, H[l]) => k = l
  <2>1. \A k \in Places : H[k] \in Seq(Entries)
    BY <1>1 DEF Holdings
  <2>2. ASSUME NEW k \in Places, NEW l \in Places, NEW i \in 1..Len(H[k]),
               NEW j \in 1..Len(H[l]), H[k][i] = x, H[l][j] = x
        PROVE  k = l /\ i = j
    BY <1>0, <1>1, <2>2 DEF HeldOnce
  <2>3. \A k \in Places : AtMostOnce(x, H[k])
    BY <2>2 DEF AtMostOnce
  <2>4. \A k, l \in Places : Has(x, H[k]) /\ Has(x, H[l]) => k = l
    BY <2>2 DEF Has
  <2> QED BY <2>1, <2>3, <2>4
<1>3. /\ AtMostOnce(x, q)
      /\ Has(x, q) => \E k \in {InSession, InSteer, InFollowUp, InNextTurn} : Has(x, H[k])
  <2> DEFINE s == H[InSession] t == H[InSteer] u == H[InFollowUp] v == H[InNextTurn]
  <2>1. /\ s \in Seq(Entries) /\ t \in Seq(Entries) /\ u \in Seq(Entries) /\ v \in Seq(Entries)
        /\ AtMostOnce(x, s) /\ AtMostOnce(x, t) /\ AtMostOnce(x, u) /\ AtMostOnce(x, v)
        /\ ~(Has(x, s) /\ Has(x, t)) /\ ~(Has(x, s) /\ Has(x, u)) /\ ~(Has(x, s) /\ Has(x, v))
        /\ ~(Has(x, t) /\ Has(x, u)) /\ ~(Has(x, t) /\ Has(x, v)) /\ ~(Has(x, u) /\ Has(x, v))
    BY <1>1, <1>2
  <2> HIDE DEF s, t, u, v
  <2>2. /\ s \o t \in Seq(Entries) /\ AtMostOnce(x, s \o t)
        /\ Has(x, s \o t) => Has(x, s) \/ Has(x, t)
    BY <2>1, OnceInConcat
  <2>3. /\ s \o t \o u \in Seq(Entries) /\ AtMostOnce(x, s \o t \o u)
        /\ Has(x, s \o t \o u) => Has(x, s) \/ Has(x, t) \/ Has(x, u)
    BY <2>1, <2>2, OnceInConcat
  <2>4. /\ AtMostOnce(x, s \o t \o u \o v)
        /\ Has(x, s \o t \o u \o v) => Has(x, s) \/ Has(x, t) \/ Has(x, u) \/ Has(x, v)
    <3> DEFINE w == s \o t \o u
    <3>1. /\ w \in Seq(Entries) /\ AtMostOnce(x, w) /\ ~(Has(x, w) /\ Has(x, v))
          /\ Has(x, w) => Has(x, s) \/ Has(x, t) \/ Has(x, u)
      BY <2>1, <2>3
    <3> HIDE DEF w
    <3>2. AtMostOnce(x, w \o v) /\ (Has(x, w \o v) => Has(x, w) \/ Has(x, v))
      BY <3>1, <2>1, OnceInConcat
    <3> QED BY <3>1, <3>2 DEF w
  <2>5. q = s \o t \o u \o v
    BY <1>1 DEF s, t, u, v
  <2> QED BY <2>4, <2>5 DEF s, t, u, v
<1>4. \A r \in R : r \in Runs /\ Has(x, H[r])
  <2> SUFFICES ASSUME NEW r \in R PROVE Has(x, H[r])
    OBVIOUS
  <2>1. inFlight[r] \in Seq(Messages)
    BY DEF DataTypeOK
  <2>2. DOMAIN inFlight[r] = 1..Len(inFlight[r])
    BY <2>1
  <2> QED BY <2>2, <1>1 DEF Has, Range
<1> HIDE DEF q
<1>5. C = {} \/ \E k : C = {k}
  <2>1. \A k, l \in C : k = l
    BY <1>3 DEF AtMostOnce
  <2> HIDE DEF C
  <2> QED BY <2>1
<1>6. R = {} \/ \E r : R = {r}
  <2>1. \A r, t \in R : r = t
    BY <1>1, <1>2, <1>4
  <2> QED BY <2>1
<1>7. C = {} \/ R = {}
  <2> SUFFICES ASSUME NEW k \in C, NEW r \in R PROVE FALSE
    OBVIOUS
  <2>1. Has(x, q)
    BY DEF Has
  <2> QED BY <2>1, <1>1, <1>2, <1>3, <1>4
<1>8. Occurrences(x, q) = Cardinality(C)
  BY DEF Occurrences
<1> HIDE DEF C, R
<1>9. (C = {} => Cardinality(C) = 0) /\ (R = {} => Cardinality(R) = 0)
  BY FS_EmptySet
<1>10. (C # {} => Cardinality(C) = 1) /\ (R # {} => Cardinality(R) = 1)
  BY <1>5, <1>6, FS_Singleton
<1>11. Occurrences(x, q) + Cardinality(R) <= 1
  BY <1>7, <1>8, <1>9, <1>10
<1> QED BY <1>11 DEF x, q, R

(* QueuedAtMostOnce, for any number of runs, turns and messages: a queued  *)
(* message is waiting, in flight or in the session, and never twice,       *)
(* whatever drains, aborts and failures come between (steer, followUp,     *)
(* nextTurn, executeTurn).  Operations may also be started by listeners.   *)
THEOREM QueuedMessagesAreHeldOnce == Spec => []QueuedAtMostOnce
<1>1. DataTypeOK /\ QueueInv /\ [Next]_vars => DataTypeOK' /\ QueueInv'
  BY DataStep, QueueStep
<1> QED BY <1>1, DataInit, QueueInit, QueueInvHoldsOnce, PTL DEF Spec

-----------------------------------------------------------------------------
(***************************************************************************)
(* The transcript.  Runs start in order, and a run that may still save a   *)
(* message after a later one has started is mixed, and the later one too;  *)
(* a prompt in flight is the last of its run's messages, and none of them  *)
(* is saved before it.                                                     *)
(***************************************************************************)
Precedes(e, f, M) ==
    \/ e.run < f.run
    \/ e.run = f.run /\ e.n < f.n
    \/ e.run # f.run /\ {e.run, f.run} \subseteq M

InOrder(s, M) ==
    \A i, j \in 1..Len(s) :
        (i < j /\ s[i].kind = "message" /\ s[j].kind = "message")
            => Precedes(s[i], s[j], M)

RunsInTurn ==
    \A q, r \in Runs : q < r /\ pc[r] # "unused" =>
        /\ pc[q] # "unused"
        /\ pc[q] \in BeforeAgentEnd => q \in mixed /\ r \in mixed

SavedByRuns ==
    \A i \in 1..Len(session) :
        session[i].kind = "message" =>
            /\ pc[session[i].run] \notin {"unused", "starting"}
            /\ session[i].n <= turns[session[i].run]

PromptLast(s, r, i) == s[i] = RunMessage(r, 0) /\ i = Len(s)

NoneSaved(s, r) == \A k \in 1..Len(s) : s[k].kind = "message" => s[k].run # r

PromptUnsaved ==
    \A r \in Runs : \A i \in 1..Len(inFlight[r]) :
        inFlight[r][i].kind = "message" =>
            /\ PromptLast(inFlight[r], r, i)
            /\ pc[r] \in {"hook", "prompts"}
            /\ NoneSaved(session, r)

TranscriptInv == RunsInTurn /\ SavedByRuns /\ PromptUnsaved /\ InOrder(session, mixed)

(* What every step but Prompt does to where a run is.                      *)
Onwards(q) ==
    /\ pc'[q] = "unused" <=> pc[q] = "unused"
    /\ pc'[q] = "starting" => pc[q] = "starting"
    /\ pc'[q] \in BeforeAgentEnd =>
          \/ pc[q] \in BeforeAgentEnd
          \/ \A r \in Runs : q <= r /\ pc[r] # "unused" => r \in mixed'

LEMMA InOrderAppend ==
    ASSUME NEW s \in Seq(Entries), NEW M, NEW N, InOrder(s, M), M \subseteq N, NEW e,
           e.kind = "message" =>
               \A i \in 1..Len(s) : s[i].kind = "message" => Precedes(s[i], e, N)
    PROVE  InOrder(s, N) /\ InOrder(Append(s, e), N)
<1> DEFINE t == Append(s, e)
<1>1. /\ Len(t) = Len(s) + 1 /\ Len(s) \in Nat
      /\ \A i \in 1..Len(s) : t[i] = s[i]
      /\ t[Len(s) + 1] = e
  BY Appended
<1>2. InOrder(s, N)
  BY DEF InOrder, Precedes
<1> HIDE DEF t
<1>3. InOrder(t, N)
  <2> SUFFICES ASSUME NEW i \in 1..Len(t), NEW j \in 1..Len(t), i < j,
                      t[i].kind = "message", t[j].kind = "message"
               PROVE  Precedes(t[i], t[j], N)
    BY DEF InOrder
  <2>1. i \in 1..Len(s) /\ t[i] = s[i]
    BY <1>1
  <2>2. CASE j \in 1..Len(s)
    BY <1>1, <1>2, <2>1, <2>2 DEF InOrder
  <2>3. CASE j = Len(s) + 1
    BY <1>1, <2>1, <2>3
  <2> QED BY <1>1, <2>2, <2>3
<1> QED BY <1>2, <1>3 DEF t

(* A step that saves nothing of a run.                                     *)
LEMMA NothingSaved ==
    ASSUME PhaseInv, DataTypeOK, TranscriptInv,
           session' = session \/ \E e : e.kind # "message" /\ session' = Append(session, e),
           UNCHANGED turns, mixed \subseteq mixed',
           \A q \in Runs : Onwards(q),
           \A r \in Runs : \A i \in 1..Len(inFlight'[r]) :
               inFlight'[r][i].kind = "message" =>
                   /\ pc'[r] \in {"hook", "prompts"}
                   /\ \/ inFlight'[r] = inFlight[r]
                      \/ PromptLast(inFlight'[r], r, i) /\ NoneSaved(session, r)
    PROVE  TranscriptInv'
<1> USE DEF TranscriptInv
<1>1. session \in Seq(Entries)
  BY DEF DataTypeOK
<1>2. /\ Len(session) \in Nat
      /\ \A i \in 1..Len(session') : session'[i].kind = "message" =>
            i \in 1..Len(session) /\ session'[i] = session[i]
  BY <1>1, Appended
<1>3. RunsInTurn'
  <2> SUFFICES ASSUME NEW q \in Runs, NEW s \in Runs, q < s, pc'[s] # "unused"
               PROVE  /\ pc'[q] # "unused"
                      /\ pc'[q] \in BeforeAgentEnd => q \in mixed' /\ s \in mixed'
    BY DEF RunsInTurn
  <2>1. pc[s] # "unused" /\ pc[q] # "unused" /\ q <= s /\ q <= q
    BY DEF RunsInTurn, Onwards, Runs
  <2>2. pc'[q] # "unused"
    BY <2>1 DEF Onwards
  <2>3. ASSUME pc'[q] \in BeforeAgentEnd PROVE q \in mixed' /\ s \in mixed'
    BY <2>1, <2>3 DEF RunsInTurn, Onwards
  <2> QED BY <2>2, <2>3
<1>4. SavedByRuns'
  <2>1. \A i \in 1..Len(session) : session[i].kind = "message" => session[i].run \in Runs
    <3>1. \A i \in 1..Len(session) : session[i] \in Entries
      BY <1>1, ElementOfSeq
    <3> QED BY <3>1 DEF Entries, Messages, RunMessages, QueuedMessages, Writes
  <2> QED BY <2>1, <1>2 DEF SavedByRuns, Onwards
<1>5. PromptUnsaved'
  BY <1>2 DEF PromptUnsaved, NoneSaved
<1>6. InOrder(session', mixed')
  <2>1. CASE session' = session
    <3>1. InOrder(session, mixed')
      BY DEF InOrder, Precedes
    <3> QED BY <2>1, <3>1
  <2>2. CASE \E e : e.kind # "message" /\ session' = Append(session, e)
    <3>1. PICK e : e.kind # "message" /\ session' = Append(session, e)
      BY <2>2
    <3>2. PICK s : s \in Seq(Entries) /\ s = session
      BY <1>1
    <3>3. PICK M : M = mixed
      OBVIOUS
    <3>4. PICK N : N = mixed'
      OBVIOUS
    <3>5. InOrder(Append(s, e), N)
      BY <3>1, <3>2, <3>3, <3>4, InOrderAppend
    <3> QED BY <3>1, <3>2, <3>4, <3>5
  <2> QED BY <2>1, <2>2
<1> QED BY <1>3, <1>4, <1>5, <1>6

(* A run saves its next message.                                           *)
LEMMA RunSaves ==
    ASSUME PhaseInv, DataTypeOK, TranscriptInv,
           NEW r \in Runs, pc[r] \in BeforeAgentEnd \ {"starting"}, NEW n \in Nat,
           session' = Append(session, RunMessage(r, n)),
           turns' \in [Runs -> Nat], n <= turns'[r],
           \A q \in Runs : turns[q] <= turns'[q],
           \A i \in 1..Len(session) :
               session[i].kind = "message" /\ session[i].run = r => session[i].n < n,
           UNCHANGED mixed, \A q \in Runs : Onwards(q),
           \A q \in Runs : \A i \in 1..Len(inFlight'[q]) :
               inFlight'[q][i].kind = "message" =>
                   q # r /\ inFlight'[q] = inFlight[q] /\ pc'[q] = pc[q]
    PROVE  TranscriptInv'
<1> USE DEF TranscriptInv
<1> DEFINE e == RunMessage(r, n)
<1>0. e.kind = "message" /\ e.run = r /\ e.n = n
  BY DEF RunMessage
<1> HIDE DEF e
<1>1. session \in Seq(Entries) /\ turns \in [Runs -> Nat]
  BY DEF DataTypeOK
<1>2. \A i \in 1..Len(session) : session[i].kind = "message" =>
          session[i].run \in Runs /\ session[i].n \in Nat
  <2>1. \A i \in 1..Len(session) : session[i] \in Entries
    BY <1>1, ElementOfSeq
  <2> QED BY <2>1 DEF Entries, Messages, RunMessages, QueuedMessages, Writes
<1>3. ASSUME NEW i \in 1..Len(session), session[i].kind = "message"
      PROVE  Precedes(session[i], e, mixed)
  <2>1. session[i].run \in Runs /\ pc[session[i].run] # "unused"
    BY <1>2, <1>3 DEF SavedByRuns
  <2>2. CASE session[i].run < r
    BY <2>2, <1>0 DEF Precedes
  <2>3. CASE session[i].run = r
    BY <2>3, <1>0, <1>3 DEF Precedes
  <2>4. CASE r < session[i].run
    BY <2>1, <2>4, <1>0 DEF RunsInTurn, Precedes
  <2> QED BY <2>1, <2>2, <2>3, <2>4 DEF Runs
<1>4. /\ Len(session) \in Nat /\ Len(session') = Len(session) + 1
      /\ \A i \in 1..Len(session) : session'[i] = session[i]
      /\ session'[Len(session) + 1] = e
  BY <1>1, Appended DEF e
<1>5. \A i \in 1..Len(session') :
          \/ i \in 1..Len(session) /\ session'[i] = session[i]
          \/ session'[i] = e
  BY <1>4
<1>6. RunsInTurn'
  <2> SUFFICES ASSUME NEW q \in Runs, NEW s \in Runs, q < s, pc'[s] # "unused"
               PROVE  /\ pc'[q] # "unused"
                      /\ pc'[q] \in BeforeAgentEnd => q \in mixed' /\ s \in mixed'
    BY DEF RunsInTurn
  <2>1. pc[s] # "unused" /\ pc[q] # "unused" /\ q <= s /\ q <= q
    BY DEF RunsInTurn, Onwards, Runs
  <2>2. pc'[q] # "unused"
    BY <2>1 DEF Onwards
  <2>3. ASSUME pc'[q] \in BeforeAgentEnd PROVE q \in mixed' /\ s \in mixed'
    BY <2>1, <2>3 DEF RunsInTurn, Onwards
  <2> QED BY <2>2, <2>3
<1>7. SavedByRuns'
  <2> SUFFICES ASSUME NEW i \in 1..Len(session'), session'[i].kind = "message"
               PROVE  /\ pc'[session'[i].run] \notin {"unused", "starting"}
                      /\ session'[i].n <= turns'[session'[i].run]
    BY DEF SavedByRuns
  <2>1. CASE i \in 1..Len(session) /\ session'[i] = session[i]
    <3>1. /\ session[i].run \in Runs /\ session[i].n \in Nat
          /\ pc[session[i].run] \notin {"unused", "starting"} /\ session[i].n <= turns[session[i].run]
      BY <2>1, <1>2 DEF SavedByRuns
    <3> QED BY <3>1, <2>1, <1>1 DEF Onwards
  <2>2. CASE session'[i] = e
    BY <2>2, <1>0 DEF BeforeAgentEnd, Onwards
  <2> QED BY <2>1, <2>2, <1>5
<1>8. PromptUnsaved'
  <2> SUFFICES ASSUME NEW q \in Runs, NEW i \in 1..Len(inFlight'[q]),
                      inFlight'[q][i].kind = "message"
               PROVE  /\ PromptLast(inFlight'[q], q, i)
                      /\ pc'[q] \in {"hook", "prompts"}
                      /\ NoneSaved(session', q)
    BY DEF PromptUnsaved
  <2>1. q # r /\ inFlight'[q] = inFlight[q] /\ pc'[q] = pc[q]
    OBVIOUS
  <2>2. /\ PromptLast(inFlight[q], q, i)
        /\ pc[q] \in {"hook", "prompts"}
        /\ NoneSaved(session, q)
    BY <2>1 DEF PromptUnsaved
  <2>3. NoneSaved(session', q)
    BY <2>1, <2>2, <1>0, <1>5 DEF NoneSaved
  <2> QED BY <2>1, <2>2, <2>3
<1>9. InOrder(session', mixed')
  <2>1. PICK s : s \in Seq(Entries) /\ s = session
    BY <1>1
  <2>2. PICK M : M = mixed
    OBVIOUS
  <2>3. PICK f : f = e
    OBVIOUS
  <2>4. InOrder(Append(s, f), M)
    BY <2>1, <2>2, <2>3, <1>3, InOrderAppend
  <2> QED BY <2>1, <2>2, <2>3, <2>4 DEF e
<1> QED BY <1>6, <1>7, <1>8, <1>9

LEMMA TranscriptInit == Init => TranscriptInv
BY DEF Init, TranscriptInv, RunsInTurn, BeforeAgentEnd, SavedByRuns, PromptUnsaved, InOrder

LEMMA PromptKeepsTranscript ==
    ASSUME PhaseInv, DataTypeOK, TranscriptInv, NEW r \in Runs, Prompt(r)
    PROVE  TranscriptInv'
<1> USE DEF TranscriptInv
<1>1. /\ pc \in [Runs -> Locations] /\ pc[r] = "unused"
      /\ pc' = [pc EXCEPT ![r] = "starting"]
      /\ \A q \in Runs : q < r => pc[q] # "unused"
      /\ UNCHANGED <<session, inFlight, turns>>
      /\ mixed \subseteq mixed'
  BY DEF Prompt, Mixing, PhaseInv, PhaseTypeOK
<1>2. RunsInTurn'
  <2>1. ASSUME NEW q \in Runs, q < r, pc[q] \in BeforeAgentEnd
        PROVE  q \in mixed' /\ r \in mixed'
    <3>1. Holding(q) /\ InProgress(q)
      BY <2>1 DEF Holding, InProgress, BeforeAgentEnd
    <3>2. disturbed \/ late # {}
      BY <3>1, IdleIsFree DEF Prompt, MayStart
    <3> QED BY <3>1, <3>2 DEF Prompt, Mixing, RunsInProgress
  <2> SUFFICES ASSUME NEW q \in Runs, NEW s \in Runs, q < s, pc'[s] # "unused"
               PROVE  /\ pc'[q] # "unused"
                      /\ pc'[q] \in BeforeAgentEnd => q \in mixed' /\ s \in mixed'
    BY DEF RunsInTurn
  <2>2. CASE s = r
    BY <2>1, <2>2, <1>1
  <2>3. CASE s # r
    <3>1. pc[s] # "unused" /\ pc[q] # "unused" /\ q # r
      BY <2>3, <1>1 DEF RunsInTurn
    <3> QED BY <3>1, <1>1 DEF RunsInTurn
  <2> QED BY <2>2, <2>3
<1>3. \A i \in 1..Len(session) : session[i].kind = "message" => session[i].run \in Runs
  <2>1. \A i \in 1..Len(session) : session[i] \in Entries
    BY ElementOfSeq DEF DataTypeOK
  <2> QED BY <2>1 DEF Entries, Messages, RunMessages, QueuedMessages, Writes
<1>4. SavedByRuns'
  BY <1>1, <1>3 DEF SavedByRuns
<1>5. PromptUnsaved'
  BY <1>1 DEF PromptUnsaved
<1>6. InOrder(session', mixed')
  BY <1>1 DEF InOrder, Precedes
<1> QED BY <1>2, <1>4, <1>5, <1>6

LEMMA TakeKeepsTranscript ==
    ASSUME PhaseInv, DataTypeOK, TranscriptInv, NEW r \in Runs, TakeNextTurnMessages(r)
    PROVE  TranscriptInv'
<1> DEFINE s == nextTurnQueue \o <<RunMessage(r, 0)>>
<1>1. /\ nextTurnQueue \in Seq(QueuedMessages)
      /\ inFlight \in [Runs -> Seq(Messages)] /\ pc \in [Runs -> Locations]
  BY DEF DataTypeOK, PhaseInv, PhaseTypeOK
<1>2. /\ pc[r] = "starting" /\ pc' = [pc EXCEPT ![r] = "hook"]
      /\ inFlight' = [inFlight EXCEPT ![r] = s]
      /\ UNCHANGED <<session, turns, mixed>>
  BY DEF TakeNextTurnMessages, history, phaseHistory
<1>3. ASSUME NEW i \in 1..Len(s), s[i].kind = "message"
      PROVE  PromptLast(s, r, i)
  <2>1. /\ Len(s) = Len(nextTurnQueue) + 1 /\ Len(nextTurnQueue) \in Nat
        /\ \A k \in 1..Len(nextTurnQueue) : s[k] = nextTurnQueue[k]
        /\ s[Len(nextTurnQueue) + 1] = RunMessage(r, 0)
    BY <1>1
  <2>2. \A k \in 1..Len(nextTurnQueue) : nextTurnQueue[k].kind = "queued"
    <3>1. \A k \in 1..Len(nextTurnQueue) : nextTurnQueue[k] \in QueuedMessages
      BY <1>1, ElementOfSeq
    <3> QED BY <3>1 DEF QueuedMessages
  <2> QED BY <1>3, <2>1, <2>2 DEF PromptLast
<1>4. NoneSaved(session, r)
  BY <1>2 DEF NoneSaved, TranscriptInv, SavedByRuns
<1> HIDE DEF s
<1>5. \A q \in Runs : Onwards(q)
  BY <1>1, <1>2 DEF Onwards, BeforeAgentEnd
<1>6. ASSUME NEW q \in Runs, NEW i \in 1..Len(inFlight'[q]),
             inFlight'[q][i].kind = "message"
      PROVE  /\ pc'[q] \in {"hook", "prompts"}
             /\ \/ inFlight'[q] = inFlight[q]
                \/ PromptLast(inFlight'[q], q, i) /\ NoneSaved(session, q)
  <2>1. CASE q = r
    BY <2>1, <1>1, <1>2, <1>3, <1>4, <1>6
  <2>2. CASE q # r
    <3>1. inFlight'[q] = inFlight[q] /\ pc'[q] = pc[q]
      BY <2>2, <1>1, <1>2
    <3> QED BY <3>1, <1>6 DEF TranscriptInv, PromptUnsaved
  <2> QED BY <2>1, <2>2
<1> QED BY <1>2, <1>5, <1>6, NothingSaved

(* A step of a run that saves nothing and drops or keeps what is in flight. *)
LEMMA RunSavesNothing ==
    ASSUME PhaseInv, DataTypeOK, TranscriptInv,
           NEW r \in Runs, NEW to \in Locations \ {"unused", "starting"},
           pc[r] \notin {"unused", "returned"}, pc' = [pc EXCEPT ![r] = to],
           UNCHANGED <<session, turns>>, mixed \subseteq mixed',
           to \in BeforeAgentEnd =>
               \/ pc[r] \in BeforeAgentEnd
               \/ \A q \in Runs : r <= q /\ pc[q] # "unused" => q \in mixed',
           NEW f \in Seq(Messages), inFlight' = [inFlight EXCEPT ![r] = f],
           \/ f = inFlight[r] /\ (to = "prompts" \/ pc[r] \notin {"hook", "prompts"})
           \/ f \in Seq(QueuedMessages)
    PROVE  TranscriptInv'
<1>1. inFlight \in [Runs -> Seq(Messages)] /\ pc \in [Runs -> Locations]
  BY DEF DataTypeOK, PhaseInv, PhaseTypeOK
<1>2. \A q \in Runs : Onwards(q)
  BY <1>1 DEF Onwards
<1>3. ASSUME NEW q \in Runs, NEW i \in 1..Len(inFlight'[q]),
             inFlight'[q][i].kind = "message"
      PROVE  pc'[q] \in {"hook", "prompts"} /\ inFlight'[q] = inFlight[q]
  <2>1. CASE q = r
    <3>1. inFlight'[r] = f /\ pc'[r] = to
      BY <1>1
    <3>2. CASE f \in Seq(QueuedMessages)
      <4>1. f[i].kind = "queued"
        <5>1. f[i] \in QueuedMessages
          BY <3>1, <3>2, <2>1, ElementOfSeq
        <5> QED BY <5>1 DEF QueuedMessages
      <4> QED BY <4>1, <3>1, <2>1, <1>3
    <3>3. CASE f = inFlight[r] /\ (to = "prompts" \/ pc[r] \notin {"hook", "prompts"})
      BY <3>1, <3>3, <2>1, <1>3 DEF TranscriptInv, PromptUnsaved
    <3> QED BY <3>2, <3>3
  <2>2. CASE q # r
    <3>1. inFlight'[q] = inFlight[q] /\ pc'[q] = pc[q]
      BY <2>2, <1>1
    <3> QED BY <3>1, <1>3 DEF TranscriptInv, PromptUnsaved
  <2> QED BY <2>1, <2>2
<1> QED BY <1>2, <1>3, NothingSaved

LEMMA SaveKeepsTranscript ==
    ASSUME PhaseInv, DataTypeOK, TranscriptInv, NEW r \in Runs, SaveMessage(r)
    PROVE  TranscriptInv'
<1> DEFINE s == inFlight[r]
<1>1. /\ inFlight \in [Runs -> Seq(Messages)] /\ s \in Seq(Messages) /\ s # << >>
      /\ turns \in [Runs -> Nat]
      /\ pc[r] \in {"prompts", "loop"}
      /\ session' = Append(session, s[1])
      /\ inFlight' = [inFlight EXCEPT ![r] = Tail(s)]
      /\ UNCHANGED <<pc, turns, mixed>>
  BY DEF SaveMessage, DataTypeOK, history, phaseHistory
<1>2. /\ Len(s) \in Nat /\ Len(s) > 0 /\ s[1] \in Messages
      /\ Len(Tail(s)) = Len(s) - 1
      /\ \A i \in 1..Len(s) - 1 : Tail(s)[i] = s[i + 1]
  BY <1>1
<1>3. \A q \in Runs : Onwards(q)
  BY <1>1 DEF Onwards
<1>4. \A i \in 1..Len(s) : s[i].kind = "message" =>
          PromptLast(s, r, i) /\ pc[r] \in {"hook", "prompts"} /\ NoneSaved(session, r)
  BY DEF TranscriptInv, PromptUnsaved
<1>5. \A q \in Runs : q # r => inFlight'[q] = inFlight[q]
  BY <1>1
<1>6. inFlight'[r] = Tail(s)
  BY <1>1
<1> HIDE DEF s
<1>7. CASE s[1].kind = "message"
  <2>1. Len(s) = 1 /\ s[1] = RunMessage(r, 0) /\ NoneSaved(session, r)
    <3>1. 1 \in 1..Len(s)
      BY <1>2
    <3> QED BY <3>1, <1>7, <1>4 DEF PromptLast
  <2>2. \A q \in Runs : \A i \in 1..Len(inFlight'[q]) :
            inFlight'[q][i].kind = "message" =>
                q # r /\ inFlight'[q] = inFlight[q] /\ pc'[q] = pc[q]
    BY <2>1, <1>1, <1>2, <1>5, <1>6
  <2>3. \A i \in 1..Len(session) :
            session[i].kind = "message" /\ session[i].run = r => session[i].n < 0
    BY <2>1 DEF NoneSaved
  <2>4. pc[r] \in BeforeAgentEnd \ {"starting"}
    BY <1>1 DEF BeforeAgentEnd
  <2>5. /\ session' = Append(session, RunMessage(r, 0)) /\ turns' = turns
        /\ 0 <= turns'[r] /\ \A q \in Runs : turns[q] <= turns'[q]
    BY <2>1, <1>1
  <2> QED BY <2>2, <2>3, <2>4, <2>5, <1>1, <1>3, RunSaves
<1>8. CASE s[1].kind # "message"
  <2>1. ASSUME NEW q \in Runs, NEW i \in 1..Len(inFlight'[q]),
               inFlight'[q][i].kind = "message"
        PROVE  /\ pc'[q] \in {"hook", "prompts"}
               /\ \/ inFlight'[q] = inFlight[q]
                  \/ PromptLast(inFlight'[q], q, i) /\ NoneSaved(session, q)
    <3>1. CASE q # r
      BY <3>1, <2>1, <1>1, <1>5 DEF TranscriptInv, PromptUnsaved
    <3>2. CASE q = r
      <4>1. i \in 1..Len(s) - 1 /\ Tail(s)[i] = s[i + 1] /\ i + 1 \in 1..Len(s)
        BY <3>2, <1>2, <1>6
      <4>2. PromptLast(s, r, i + 1) /\ pc[r] \in {"hook", "prompts"} /\ NoneSaved(session, r)
        BY <4>1, <3>2, <2>1, <1>4, <1>6
      <4> QED BY <4>1, <4>2, <3>2, <1>1, <1>2, <1>6 DEF PromptLast
    <3> QED BY <3>1, <3>2
  <2> QED BY <2>1, <1>1, <1>3, <1>8, NothingSaved
<1> QED BY <1>7, <1>8

LEMMA TurnKeepsTranscript ==
    ASSUME PhaseInv, DataTypeOK, TranscriptInv, NEW r \in Runs,
           Answer(r) \/ EmitRunFailure(r)
    PROVE  TranscriptInv'
<1> DEFINE n == turns[r] + 1
<1>1. /\ turns \in [Runs -> Nat] /\ pc \in [Runs -> Locations]
      /\ n \in Nat
  BY DEF DataTypeOK, PhaseInv, PhaseTypeOK
<1>2. /\ pc[r] \in {"loop", "failure"} /\ pc' = [pc EXCEPT ![r] = "turnEnd"]
      /\ session' = Append(session, RunMessage(r, n))
      /\ turns' = [turns EXCEPT ![r] = n] /\ inFlight' = inFlight /\ mixed' = mixed
  BY DEF Answer, EmitRunFailure, history, phaseHistory
<1>3. \A i \in 1..Len(session) :
          session[i].kind = "message" /\ session[i].run = r => session[i].n < n
  <2>1. \A i \in 1..Len(session) : session[i].kind = "message" => session[i].n \in Nat
    <3>1. \A i \in 1..Len(session) : session[i] \in Entries
      BY ElementOfSeq DEF DataTypeOK
    <3> QED BY <3>1 DEF Entries, Messages, RunMessages, QueuedMessages, Writes
  <2> QED BY <2>1, <1>1 DEF TranscriptInv, SavedByRuns
<1>4. /\ turns' \in [Runs -> Nat] /\ n <= turns'[r]
      /\ \A q \in Runs : turns[q] <= turns'[q]
  BY <1>1, <1>2
<1>5. \A q \in Runs : Onwards(q)
  BY <1>1, <1>2 DEF Onwards, BeforeAgentEnd
<1>6. \A q \in Runs : \A i \in 1..Len(inFlight'[q]) :
          inFlight'[q][i].kind = "message" =>
              q # r /\ inFlight'[q] = inFlight[q] /\ pc'[q] = pc[q]
  BY <1>1, <1>2 DEF TranscriptInv, PromptUnsaved
<1>7. pc[r] \in BeforeAgentEnd \ {"starting"}
  BY <1>2 DEF BeforeAgentEnd
<1> HIDE DEF n
<1> QED BY <1>1, <1>2, <1>3, <1>4, <1>5, <1>6, <1>7, RunSaves

LEMMA RunStepKeepsTranscript ==
    ASSUME PhaseInv, DataTypeOK, TranscriptInv, NEW r \in Runs, RunStep(r)
    PROVE  TranscriptInv'
<1>0. /\ pc \in [Runs -> Locations] /\ inFlight \in [Runs -> Seq(Messages)]
      /\ steerQueue \in Seq(QueuedMessages) /\ followUpQueue \in Seq(QueuedMessages)
      /\ QueuedMessages \subseteq Messages
  BY DEF DataTypeOK, PhaseInv, PhaseTypeOK, Messages
<1>1. inFlight[r] \in Seq(Messages) /\ inFlight = [inFlight EXCEPT ![r] = inFlight[r]]
  BY <1>0
<1>2. /\ Drained(steerQueue, "one-at-a-time") \in Seq(QueuedMessages)
      /\ Drained(followUpQueue, "one-at-a-time") \in Seq(QueuedMessages)
  BY <1>0, DrainOne
<1>3. /\ Drained(steerQueue, "one-at-a-time") \in Seq(Messages)
      /\ Drained(followUpQueue, "one-at-a-time") \in Seq(Messages)
  BY <1>0, <1>2, SeqMonotonic
<1>4. CASE InitialSteeringPoll(r) \/ PollSteering(r)
  <2>1. /\ pc[r] \in {"prompts", "poll"} /\ pc' = [pc EXCEPT ![r] = "loop"]
        /\ UNCHANGED <<session, turns, mixed>>
        /\ inFlight' = [inFlight EXCEPT ![r] = Drained(steerQueue, "one-at-a-time")]
    BY <1>4 DEF InitialSteeringPoll, PollSteering, history, phaseHistory
  <2>2. "loop" \in Locations \ {"unused", "starting"} /\ pc[r] \in BeforeAgentEnd
    BY <2>1 DEF Locations, BeforeAgentEnd
  <2> QED BY <2>1, <2>2, <1>2, <1>3, RunSavesNothing
<1>5. CASE PollFollowUps(r)
  <2>1. /\ pc[r] = "poll" /\ pc' = [pc EXCEPT ![r] = "loop"]
        /\ UNCHANGED <<session, turns, mixed>>
        /\ inFlight' = [inFlight EXCEPT ![r] = Drained(followUpQueue, "one-at-a-time")]
    BY <1>5 DEF PollFollowUps, history, phaseHistory
  <2>2. "loop" \in Locations \ {"unused", "starting"} /\ pc[r] \in BeforeAgentEnd
    BY <2>1 DEF Locations, BeforeAgentEnd
  <2> QED BY <2>1, <2>2, <1>2, <1>3, RunSavesNothing
<1>6. CASE StartLoop(r)
  <2>1. /\ pc[r] = "hook" /\ pc' = [pc EXCEPT ![r] = "prompts"]
        /\ UNCHANGED <<session, turns, mixed>> /\ inFlight' = inFlight
    BY <1>6 DEF StartLoop, history, phaseHistory
  <2>2. "prompts" \in Locations \ {"unused", "starting"} /\ pc[r] \in BeforeAgentEnd
    BY <2>1 DEF Locations, BeforeAgentEnd
  <2> QED BY <2>1, <2>2, <1>1, RunSavesNothing
<1>7. CASE TurnEnd(r) \/ EndLoop(r) \/ AgentEnd(r) \/ Settled(r) \/ Return(r, FALSE)
  <2>1. PICK to \in {"agentEnd", "poll", "settling", "finally", "returned"} :
            pc' = [pc EXCEPT ![r] = to]
    BY <1>7 DEF TurnEnd, EndLoop, AgentEnd, Settled, Return
  <2>2. /\ pc[r] \in {"turnEnd", "poll", "agentEnd", "settling", "finally"}
        /\ UNCHANGED <<session, turns>> /\ inFlight' = inFlight /\ mixed \subseteq mixed'
    BY <1>7 DEF TurnEnd, EndLoop, AgentEnd, Settled, Return, Mixing, history, phaseHistory
  <2>3. to \in Locations \ {"unused", "starting"}
    BY DEF Locations
  <2>4. to \in BeforeAgentEnd => pc[r] \in BeforeAgentEnd
    BY <1>0, <1>7, <2>1 DEF TurnEnd, EndLoop, AgentEnd, Settled, Return, BeforeAgentEnd
  <2> QED BY <2>1, <2>2, <2>3, <2>4, <1>1, RunSavesNothing
<1>8. CASE FlushPeek(r) \/ FlushAppend(r)
  <2>1. /\ session' = session \/ \E e : e.kind # "message" /\ session' = Append(session, e)
        /\ UNCHANGED <<turns, pc, inFlight, mixed>>
    <3>1. writing[r] # NoWrite => writing[r].kind # "message"
      BY DEF DataTypeOK, Writes
    <3> QED BY <3>1, <1>8 DEF FlushPeek, FlushAppend, history, phaseHistory
  <2>2. \A q \in Runs : Onwards(q)
    BY <2>1 DEF Onwards
  <2> QED BY <2>1, <2>2, NothingSaved DEF TranscriptInv, PromptUnsaved
<1> QED BY <1>4, <1>5, <1>6, <1>7, <1>8, TakeKeepsTranscript, SaveKeepsTranscript,
           TurnKeepsTranscript DEF RunStep

LEMMA TranscriptStep ==
    ASSUME PhaseInv, DataTypeOK, TranscriptInv, [Next]_vars
    PROVE  TranscriptInv'
<1>0. pc \in [Runs -> Locations] /\ inFlight \in [Runs -> Seq(Messages)]
  BY DEF DataTypeOK, PhaseInv, PhaseTypeOK
<1>1. ASSUME NEW r \in Runs, RunFault(r)
      PROVE  TranscriptInv'
  <2>1. CASE StartFails(r) \/ Throws(r)
    <3>1. PICK to \in {"returned", "finally", "failure"} : pc' = [pc EXCEPT ![r] = to]
      BY <2>1 DEF StartFails, Throws
    <3>2. /\ pc[r] \notin {"unused", "returned"}
          /\ UNCHANGED <<session, turns>>
          /\ inFlight' = [inFlight EXCEPT ![r] = << >>]
          /\ mixed \subseteq mixed'
          /\ \/ pc[r] \in BeforeAgentEnd
             \/ \A q \in Runs : r <= q /\ pc[q] # "unused" => q \in mixed'
      <4>1. CASE StartFails(r)
        BY <4>1 DEF StartFails, BeforeAgentEnd
      <4>2. CASE Throws(r) /\ pc[r] # "settling"
        BY <4>2 DEF Throws, BeforeAgentEnd, phaseHistory
      <4>3. CASE Throws(r) /\ pc[r] = "settling"
        <5>1. mixed \subseteq mixed' /\ StartedSince(r) \subseteq mixed'
          BY <4>3 DEF Throws, Mixing
        <5>2. \A q \in Runs : r <= q /\ pc[q] # "unused" => q \in StartedSince(r)
          BY DEF StartedSince, Runs
        <5> QED BY <4>3, <5>1, <5>2 DEF Throws
      <4> QED BY <2>1, <4>1, <4>2, <4>3
    <3>3. to \in Locations \ {"unused", "starting"}
      BY DEF Locations
    <3>4. << >> \in Seq(Messages) /\ << >> \in Seq(QueuedMessages)
      OBVIOUS
    <3> QED BY <3>1, <3>2, <3>3, <3>4, RunSavesNothing
  <2>2. CASE Return(r, TRUE)
    <3>1. /\ pc[r] = "finally" /\ pc' = [pc EXCEPT ![r] = "returned"]
          /\ UNCHANGED <<session, turns>> /\ inFlight' = inFlight
          /\ mixed \subseteq mixed'
      BY <2>2 DEF Return, Mixing
    <3>2. "returned" \in Locations \ {"unused", "starting"} /\ "returned" \notin BeforeAgentEnd
      BY DEF Locations, BeforeAgentEnd
    <3>3. inFlight[r] \in Seq(Messages) /\ inFlight = [inFlight EXCEPT ![r] = inFlight[r]]
      BY <1>0
    <3> QED BY <3>1, <3>2, <3>3, RunSavesNothing
  <2> QED BY <1>1, <2>1, <2>2 DEF RunFault
<1>2. ASSUME \/ StructuralStep \/ StructuralBegin \/ RequestWrite \/ Steer
             \/ FollowUp \/ NextTurn \/ Abort \/ UNCHANGED vars
      PROVE  TranscriptInv'
  <2>1. /\ session' = session \/ \E e : e.kind # "message" /\ session' = Append(session, e)
        /\ UNCHANGED <<turns, pc, inFlight>> /\ mixed \subseteq mixed'
    <3>1. ASSUME StructuralStep
          PROVE  session' = session \/ \E e : e.kind # "message" /\ session' = Append(session, e)
      <4>1. session' = session \/ session' = Append(session, [kind |-> "summary"])
        BY <3>1 DEF StructuralStep, StructuralEnd
      <4>2. [kind |-> "summary"].kind # "message"
        OBVIOUS
      <4> QED BY <4>1, <4>2
    <3>2. ASSUME RequestWrite
          PROVE  session' = session \/ \E e : e.kind # "message" /\ session' = Append(session, e)
      <4>1. session' = session \/ session' = Append(session, Write(writes + 1, FALSE))
        BY <3>2 DEF RequestWrite
      <4>2. Write(writes + 1, FALSE).kind # "message"
        BY DEF Write
      <4> QED BY <4>1, <4>2
    <3>3. UNCHANGED <<turns, pc, inFlight>> /\ mixed \subseteq mixed'
      BY <1>2 DEF StructuralStep, StructuralEnd, StructuralBegin, RequestWrite, Steer,
                  FollowUp, NextTurn, Abort, Mixing, vars, perRun, history, phaseHistory
    <3>4. ASSUME \/ StructuralBegin \/ Steer \/ FollowUp \/ NextTurn \/ Abort
                 \/ UNCHANGED vars
          PROVE  session' = session
      BY <3>4 DEF StructuralBegin, Steer, FollowUp, NextTurn, Abort, vars
    <3> QED BY <1>2, <3>1, <3>2, <3>3, <3>4
  <2>2. \A q \in Runs : Onwards(q)
    BY <2>1 DEF Onwards
  <2> QED BY <2>1, <2>2, NothingSaved DEF TranscriptInv, PromptUnsaved
<1> QED BY <1>1, <1>2, PromptKeepsTranscript, RunStepKeepsTranscript
        DEF Next, Application

(* TranscriptNotReordered, for any number of runs, however they overlap:   *)
(* the messages of the runs are in the session in the order of the runs    *)
(* and, within a run, of its turns (handleAgentEvent's message_end saves), *)
(* but for runs that a failure after agent_end has mixed.                  *)
THEOREM RunsAreSavedInOrder == Spec => []TranscriptNotReordered
<1> DEFINE I == PhaseInv /\ DataTypeOK /\ TranscriptInv
<1>1. Init => I
  BY PhaseInit, DataInit, TranscriptInit
<1>2. I /\ [Next]_vars => I'
  BY PhaseStep, DataStep, TranscriptStep
<1>3. I => TranscriptNotReordered
  BY DEF TranscriptInv, InOrder, Precedes, TranscriptNotReordered
<1> QED BY <1>1, <1>2, <1>3, PTL DEF Spec

-----------------------------------------------------------------------------
(***************************************************************************)
(* The session file.  Types of the storage and of its writes.              *)
(***************************************************************************)
AnyLine ==
    [type : {"entry"}, id : Nat, parent : Nat]
      \cup [type : {"leaf"}, id : Nat, parent : Nat, target : Nat]

StorageWrites ==
    {Idle} \cup [at : {"named"}, id : Nat]
      \cup [at : {"writing", "landed"}, line : AnyLine, summary : BOOLEAN]
      \cup [at : {"summary"}, parent : Nat]

HarnessTypeOK ==
    /\ disk \in Seq(AnyLine) /\ entries \in Seq(AnyLine)
    /\ torn \in BOOLEAN /\ bare \in BOOLEAN /\ up \in BOOLEAN
    /\ astray \in BOOLEAN /\ overlapped \in BOOLEAN
    /\ leaf \in Nat
    /\ window \in 1..MaxWindows /\ whole \in Nat /\ faults \in Nat
    /\ op \in [Callers -> StorageWrites]
    /\ \A c \in Callers :
          op[c].at \in {"writing", "landed"} /\ op[c].summary
              => op[c].line.type = "leaf"

(***************************************************************************)
(* A closed storage has no writes.                                         *)
(***************************************************************************)
ClosedIsQuiet == ~up => entries = << >> /\ leaf = 0 /\ InFlight = {}

(***************************************************************************)
(* What may be referred to: the entries in memory.  They are in the file   *)
(* already, or the file is torn and takes no more lines.                   *)
(***************************************************************************)
Known == {0} \cup Ids(entries)

RefersTo(line, S) ==
    /\ line.parent \in S
    /\ line.type = "leaf" => line.target \in S

RefersToKnown ==
    /\ leaf \in Known
    /\ \A c \in Callers :
          /\ op[c].at \in {"writing", "landed"} => RefersTo(op[c].line, Known)
          /\ op[c].at = "summary" => op[c].parent \in Known

LandedBy == {c \in Callers : op[c].at = "landed"}
LandedLines == {op[c].line : c \in LandedBy}

FileIsAhead ==
    ~torn => /\ Ids(entries) \subseteq Ids(disk)
             /\ \A c \in LandedBy : op[c].line.id \in Ids(disk)

(***************************************************************************)
(* The file has the lines of memory, and those that have landed; after a   *)
(* write was rejected with its line in the file it has that line too.      *)
(***************************************************************************)
FileIsMemoryAndLanded ==
    /\ IsFiniteSet(LandedBy)
    /\ up /\ ~torn /\ ~astray =>
         /\ Range(disk) = Range(entries) \cup LandedLines
         /\ Len(disk) = Len(entries) + Cardinality(LandedBy)

(***************************************************************************)
(* Ids are at most the last whole UUID; without overlapping writes each is *)
(* new to memory, and so to the file, until its line lands.                *)
(***************************************************************************)
Bound == MaxWindows + whole

IdsBounded ==
    /\ \A id \in Ids(disk) \cup Ids(entries) : id <= Bound
    /\ \A c \in Callers :
          /\ op[c].at = "named" => op[c].id <= Bound
          /\ op[c].at \in {"writing", "landed"} => op[c].line.id <= Bound

StrayOverlaps == astray => overlapped

OneByOne ==
    ~overlapped => \A c, d \in InFlight : c = d

NewUntilLanded ==
    ~overlapped => \A c \in Callers :
        /\ op[c].at = "named" => op[c].id \notin Ids(entries)
        /\ op[c].at = "writing" => op[c].line.id \notin Ids(entries)

DistinctIds == \A i, j \in DOMAIN disk : disk[i].id = disk[j].id => i = j

IdsInOrder ==
    ~overlapped /\ ~torn =>
        /\ DistinctIds
        /\ up => /\ LandedBy = {} => disk = entries
                 /\ \A c \in LandedBy : disk = Append(entries, op[c].line)
                 /\ leaf = LeafOf(entries)

HarnessInv ==
    /\ HarnessTypeOK
    /\ ClosedIsQuiet
    /\ RefersToKnown
    /\ FileIsAhead
    /\ LinesReferBack
    /\ FileIsMemoryAndLanded
    /\ IdsBounded
    /\ StrayOverlaps
    /\ OneByOne
    /\ NewUntilLanded
    /\ IdsInOrder

-----------------------------------------------------------------------------
\* What appending a line does to the ids, to the set of lines and to the leaf.
LEMMA AppendedLine ==
    ASSUME NEW s \in Seq(AnyLine), NEW x \in AnyLine
    PROVE  /\ Append(s, x) \in Seq(AnyLine)
           /\ Len(Append(s, x)) = Len(s) + 1 /\ Len(s) \in Nat
           /\ Ids(Append(s, x)) = Ids(s) \cup {x.id}
           /\ Range(Append(s, x)) = Range(s) \cup {x}
           /\ LeafOf(Append(s, x)) = leafIdAfterEntry(x)
<1> DEFINE t == Append(s, x)
<1>1. /\ t \in Seq(AnyLine) /\ Len(s) \in Nat /\ Len(t) = Len(s) + 1
      /\ DOMAIN t = 1..(Len(s) + 1) /\ DOMAIN s = 1..Len(s)
      /\ \A i \in 1..Len(s) : t[i] = s[i]
      /\ t[Len(s) + 1] = x /\ t # << >>
  OBVIOUS
<1>2. \A i \in DOMAIN t : i \in DOMAIN s \/ i = Len(s) + 1
  BY <1>1
<1>3. Ids(t) = Ids(s) \cup {x.id}
  BY <1>1, <1>2 DEF Ids
<1>4. Range(t) = Range(s) \cup {x}
  BY <1>1, <1>2 DEF Range
<1>5. LeafOf(t) = leafIdAfterEntry(x)
  BY <1>1 DEF LeafOf, Last
<1> QED
  BY <1>1, <1>3, <1>4, <1>5

\* The lines of s refer back.
Back(s) ==
    \A i \in DOMAIN s : RefersTo(s[i], {0} \cup {s[k].id : k \in 1..(i - 1)})

\* LinesReferBack says so of the file.
LEMMA BackIsReferBack ==
    ASSUME NEW s \in Seq(AnyLine)
    PROVE  Back(s) <=>
              \A i \in DOMAIN s :
                 LET before == {0} \cup Ids(SubSeq(s, 1, i - 1)) IN
                 /\ s[i].parent \in before
                 /\ s[i].type = "leaf" => s[i].target \in before
<1>1. \A i \in DOMAIN s : Ids(SubSeq(s, 1, i - 1)) = {s[k].id : k \in 1..(i - 1)}
  <2> SUFFICES ASSUME NEW i \in DOMAIN s
               PROVE  Ids(SubSeq(s, 1, i - 1)) = {s[k].id : k \in 1..(i - 1)}
    OBVIOUS
  <2> DEFINE t == SubSeq(s, 1, i - 1)
  <2>1. DOMAIN t = 1..(i - 1) /\ \A k \in 1..(i - 1) : t[k] = s[k]
    OBVIOUS
  <2> QED
    BY <2>1 DEF Ids
<1> QED
  BY <1>1, Zenon DEF Back, RefersTo

\* A line that refers to lines of s may follow them.
LEMMA BackAppends ==
    ASSUME NEW s \in Seq(AnyLine), NEW x \in AnyLine, Back(s),
           RefersTo(x, {0} \cup Ids(s))
    PROVE  Back(Append(s, x))
<1> DEFINE t == Append(s, x)
<1>1. /\ DOMAIN t = 1..(Len(s) + 1) /\ DOMAIN s = 1..Len(s) /\ Len(s) \in Nat
      /\ \A i \in 1..Len(s) : t[i] = s[i]
      /\ t[Len(s) + 1] = x
  OBVIOUS
<1> HIDE DEF t
<1>2. \A i \in DOMAIN t : {t[k].id : k \in 1..(i - 1)} = {s[k].id : k \in 1..(i - 1)}
  BY <1>1
<1>3. \A i \in DOMAIN s : RefersTo(t[i], {0} \cup {t[k].id : k \in 1..(i - 1)})
  <2> SUFFICES ASSUME NEW i \in DOMAIN s
               PROVE  RefersTo(t[i], {0} \cup {t[k].id : k \in 1..(i - 1)})
    OBVIOUS
  <2>1. i \in DOMAIN t /\ t[i] = s[i]
    BY <1>1
  <2>2. RefersTo(s[i], {0} \cup {s[k].id : k \in 1..(i - 1)})
    BY DEF Back
  <2> QED
    BY <1>2, <2>1, <2>2
<1>4. {t[k].id : k \in 1..Len(s)} = Ids(s)
  BY <1>1 DEF Ids
<1>5. RefersTo(t[Len(s) + 1], {0} \cup {t[k].id : k \in 1..((Len(s) + 1) - 1)})
  <2>1. (Len(s) + 1) - 1 = Len(s)
    BY <1>1
  <2> QED
    BY <1>1, <1>4, <2>1
<1>6. \A i \in DOMAIN t : i \in DOMAIN s \/ i = Len(s) + 1
  BY <1>1
<1>7. Back(t)
  BY <1>3, <1>5, <1>6 DEF Back
<1> QED
  BY <1>7 DEF t

\* The leaf of a file that opens is null or one of its lines.
LEMMA LeafIsKnown ==
    ASSUME NEW s \in Seq(AnyLine), Back(s)
    PROVE  LeafOf(s) \in {0} \cup Ids(s) /\ LeafOf(s) \in Nat
<1>1. CASE s = << >>
  BY <1>1 DEF LeafOf
<1>2. CASE s # << >>
  <2>1. Len(s) \in DOMAIN s /\ s[Len(s)] \in AnyLine /\ Last(s) = s[Len(s)]
    BY <1>2 DEF Last
  <2>2. RefersTo(s[Len(s)], {0} \cup {s[k].id : k \in 1..(Len(s) - 1)})
    BY <2>1 DEF Back
  <2>3. {s[k].id : k \in 1..(Len(s) - 1)} \subseteq Ids(s) /\ s[Len(s)].id \in Ids(s)
    BY <2>1 DEF Ids
  <2>4. LeafOf(s) = leafIdAfterEntry(s[Len(s)])
    BY <1>2, <2>1 DEF LeafOf
  <2>5. leafIdAfterEntry(s[Len(s)]) \in {0} \cup Ids(s)
    BY <2>2, <2>3 DEF leafIdAfterEntry, RefersTo
  <2>6. leafIdAfterEntry(s[Len(s)]) \in Nat
    BY <2>1 DEF leafIdAfterEntry, AnyLine
  <2> QED
    BY <2>4, <2>5, <2>6
<1> QED
  BY <1>1, <1>2

\* The fields that a write has at each of its steps.
LEMMA WriteShape ==
    ASSUME NEW w \in StorageWrites
    PROVE  /\ w.at \in {"idle", "named", "writing", "landed", "summary"}
           /\ w = Idle <=> w.at = "idle"
           /\ w.at = "named" => w.id \in Nat
           /\ w.at \in {"writing", "landed"} => w.line \in AnyLine /\ w.summary \in BOOLEAN
           /\ w.at = "summary" => w.parent \in Nat
BY DEF StorageWrites, Idle

\* The states a write can be given.
LEMMA WriteStates ==
    /\ Idle \in StorageWrites /\ Idle.at = "idle"
    /\ \A id \in Nat : /\ Named(id) \in StorageWrites
                       /\ Named(id).at = "named" /\ Named(id).id = id
    /\ \A line \in AnyLine, b \in BOOLEAN :
          /\ Writing(line, b) \in StorageWrites /\ Landed(line, b) \in StorageWrites
          /\ Writing(line, b).at = "writing" /\ Landed(line, b).at = "landed"
          /\ Writing(line, b).line = line /\ Landed(line, b).line = line
          /\ Writing(line, b).summary = b /\ Landed(line, b).summary = b
    /\ \A id, parent \in Nat : /\ Line(id, parent) \in AnyLine
                               /\ Line(id, parent).type = "entry"
                               /\ Line(id, parent).id = id
                               /\ Line(id, parent).parent = parent
    /\ \A id, parent, target \in Nat :
          /\ LeafLine(id, parent, target) \in AnyLine
          /\ LeafLine(id, parent, target).type = "leaf"
          /\ LeafLine(id, parent, target).id = id
          /\ LeafLine(id, parent, target).parent = parent
          /\ LeafLine(id, parent, target).target = target
BY DEF StorageWrites, Idle, Named, Writing, Landed, AnyLine, Line, LeafLine

\* generateEntryId: the id it makes is new to memory and within the bound.
LEMMA NewIdIsNew ==
    ASSUME HarnessTypeOK, IdsBounded, TakesWhole
    PROVE  /\ NewId \in Nat /\ NewId \notin Ids(entries) /\ NewId <= Bound'
           /\ whole' \in Nat /\ Bound <= Bound'
<1>1. MaxWindows \in Nat /\ window \in 1..MaxWindows /\ whole \in Nat
  BY BoundsAssumption DEF HarnessTypeOK
<1>2. CASE window \in Ids(entries)
  <2>1. NewId = MaxWindows + whole + 1 /\ whole' = whole + 1
    BY <1>2 DEF NewId, TakesWhole
  <2>2. NewId \notin Ids(entries)
    BY <1>1, <2>1 DEF IdsBounded, Bound
  <2> QED
    BY <1>1, <2>1, <2>2 DEF Bound
<1>3. CASE window \notin Ids(entries)
  <2>1. NewId = window /\ whole' = whole
    BY <1>3 DEF NewId, TakesWhole
  <2> QED
    BY <1>1, <1>3, <2>1 DEF Bound
<1> QED
  BY <1>2, <1>3

\* One caller's write goes to the state v, the others stay where they are.
LEMMA OneWriteSteps ==
    ASSUME HarnessTypeOK, NEW c \in Callers, NEW v \in StorageWrites, Set(c, v)
    PROVE  /\ op' \in [Callers -> StorageWrites]
           /\ op'[c] = v /\ \A d \in Callers : d # c => op'[d] = op[d]
           /\ InFlight' = IF v = Idle THEN InFlight \ {c} ELSE InFlight \cup {c}
           /\ LandedBy' = IF v.at = "landed" THEN LandedBy \cup {c} ELSE LandedBy \ {c}
BY DEF HarnessTypeOK, Set, InFlight, LandedBy

-----------------------------------------------------------------------------
\* A new session has nothing in memory and nothing in the file.
LEMMA HarnessInitInv == StorageInit => HarnessInv
<1> SUFFICES ASSUME StorageInit PROVE HarnessInv
  OBVIOUS
<1>1. HarnessTypeOK
  <2>1. 1 \in 1..MaxWindows
    BY BoundsAssumption, ClockAssumption
  <2>2. /\ torn \in BOOLEAN /\ bare \in BOOLEAN /\ up \in BOOLEAN
        /\ astray \in BOOLEAN /\ overlapped \in BOOLEAN
    BY DEF StorageInit
  <2>3. op \in [Callers -> StorageWrites] /\ \A c \in Callers : op[c].at = "idle"
    BY WriteStates DEF StorageInit
  <2> QED
    BY <2>1, <2>2, <2>3 DEF StorageInit, HarnessTypeOK
<1>2. \A c \in Callers : op[c] = Idle /\ op[c].at = "idle"
  BY WriteStates DEF StorageInit
<1>3. InFlight = {} /\ LandedBy = {}
  BY <1>2 DEF InFlight, LandedBy
<1>4. Ids(disk) = {} /\ Ids(entries) = {}
  BY DEF StorageInit, Ids
<1>5. ClosedIsQuiet /\ RefersToKnown /\ FileIsAhead /\ LinesReferBack
  BY <1>2, <1>3, <1>4 DEF StorageInit, ClosedIsQuiet, RefersToKnown, Known, FileIsAhead,
                          LinesReferBack
<1>6. FileIsMemoryAndLanded
  <2>1. LandedLines = {}
    BY <1>3 DEF LandedLines
  <2> QED
    BY <1>3, <2>1, FS_EmptySet DEF StorageInit, FileIsMemoryAndLanded
<1>7. IdsBounded /\ StrayOverlaps /\ OneByOne /\ NewUntilLanded
  BY <1>2, <1>3, <1>4 DEF StorageInit, IdsBounded, StrayOverlaps, OneByOne, NewUntilLanded
<1>8. IdsInOrder
  BY <1>3 DEF StorageInit, IdsInOrder, DistinctIds, LeafOf
<1> QED
  BY <1>1, <1>5, <1>6, <1>7, <1>8 DEF HarnessInv

\* A step of one write that changes neither memory nor the file.
LEMMA WriteStepInv ==
    ASSUME HarnessInv, NEW c \in Callers, NEW v \in StorageWrites, Set(c, v), up,
           UNCHANGED <<disk, bare, entries, leaf, up, window, astray>>,
           torn' \in BOOLEAN, torn => torn', faults' \in Nat,
           overlapped' \in BOOLEAN, overlapped => overlapped',
           whole' \in Nat, Bound <= Bound',
           op[c].at # "landed",
           ~overlapped' => InFlight \subseteq {c},
           v.at \in {"idle", "named", "writing"},
           v.at = "named" => v.id <= Bound' /\ (~overlapped' => v.id \notin Ids(entries)),
           v.at = "writing" =>
              /\ v.line.id <= Bound' /\ (~overlapped' => v.line.id \notin Ids(entries))
              /\ v.summary => v.line.type = "leaf"
              /\ RefersTo(v.line, Known)
    PROVE  HarnessInv'
<1>1. HarnessTypeOK /\ IdsBounded
  BY DEF HarnessInv
<1>2. UNCHANGED <<disk, bare, entries, leaf, up, window, astray>>
  OBVIOUS
<1>3. /\ op' \in [Callers -> StorageWrites]
      /\ op'[c] = v /\ \A d \in Callers : d # c => op'[d] = op[d]
      /\ InFlight' \subseteq InFlight \cup {c} /\ LandedBy' = LandedBy
      /\ c \notin LandedBy
  BY <1>1, OneWriteSteps DEF LandedBy
<1>5. HarnessTypeOK'
  <2>1. ASSUME NEW d \in Callers, op'[d].at \in {"writing", "landed"}, op'[d].summary
        PROVE  op'[d].line.type = "leaf"
    BY <1>1, <1>3, <2>1 DEF HarnessTypeOK
  <2> QED
    BY <1>1, <1>2, <1>3, <2>1 DEF HarnessTypeOK
<1>6. ClosedIsQuiet'
  BY <1>2 DEF ClosedIsQuiet
<1>7. Known' = Known /\ Ids(disk)' = Ids(disk) /\ Ids(entries)' = Ids(entries)
  BY <1>2 DEF Known, Ids
<1>8. RefersToKnown'
  <2>1. RefersToKnown
    BY DEF HarnessInv
  <2> QED
    BY <1>2, <1>3, <1>7, <2>1 DEF RefersToKnown
<1>9. FileIsAhead' /\ LinesReferBack' /\ FileIsMemoryAndLanded'
  <2>1. \A d \in LandedBy : op'[d] = op[d]
    BY <1>3 DEF LandedBy
  <2>2. LandedLines' = LandedLines
    BY <1>3, <2>1 DEF LandedLines
  <2>3. FileIsAhead'
    BY <1>2, <1>3, <1>7, <2>1 DEF HarnessInv, FileIsAhead
  <2>4. LinesReferBack'
    BY <1>2 DEF HarnessInv, LinesReferBack
  <2>5. FileIsMemoryAndLanded'
    BY <1>2, <1>3, <2>2 DEF HarnessInv, FileIsMemoryAndLanded
  <2> QED
    BY <2>3, <2>4, <2>5
<1>10. IdsBounded'
  <2>1. Bound \in Int /\ Bound' \in Int
    BY <1>1, BoundsAssumption DEF Bound, HarnessTypeOK
  <2>2. \A id \in Ids(disk) \cup Ids(entries) : id \in Nat
    <3>1. \A line \in AnyLine : line.id \in Nat
      BY DEF AnyLine
    <3>2. /\ \A i \in DOMAIN disk : disk[i] \in AnyLine
          /\ \A i \in DOMAIN entries : entries[i] \in AnyLine
      BY <1>1 DEF HarnessTypeOK
    <3> QED BY <3>1, <3>2 DEF Ids
  <2>3. \A id \in Ids(disk)' \cup Ids(entries)' : id <= Bound'
    BY <1>1, <1>7, <2>1, <2>2 DEF IdsBounded
  <2>4. ASSUME NEW d \in Callers
        PROVE  /\ op'[d].at = "named" => op'[d].id <= Bound'
               /\ op'[d].at \in {"writing", "landed"} => op'[d].line.id <= Bound'
    <3>1. CASE d = c
      BY <1>3, <3>1
    <3>2. CASE d # c
      <4>1. op[d] \in StorageWrites /\ op'[d] = op[d]
        BY <1>1, <1>3, <3>2 DEF HarnessTypeOK
      <4>2. /\ op[d].at = "named" => op[d].id \in Nat /\ op[d].id <= Bound
            /\ op[d].at \in {"writing", "landed"} =>
                 op[d].line.id \in Nat /\ op[d].line.id <= Bound
        BY <1>1, <4>1, WriteShape DEF IdsBounded, AnyLine
      <4> QED
        BY <2>1, <4>1, <4>2
    <3> QED
      BY <3>1, <3>2
  <2> QED
    BY <2>3, <2>4 DEF IdsBounded
<1>13. StrayOverlaps'
  BY <1>2 DEF HarnessInv, StrayOverlaps
<1>11. OneByOne' /\ NewUntilLanded'
  <2> SUFFICES ASSUME ~overlapped'
               PROVE  (\A d, e \in InFlight' : d = e) /\ NewUntilLanded'
    BY DEF OneByOne, NewUntilLanded
  <2>1. InFlight \subseteq {c}
    OBVIOUS
  <2>2. \A d \in Callers : d # c => op'[d].at = "idle"
    BY <1>3, <2>1, WriteStates DEF InFlight
  <2> QED
    BY <1>3, <1>7, <2>1, <2>2 DEF NewUntilLanded
<1>12. IdsInOrder'
  <2>2. IdsInOrder
    BY DEF HarnessInv
  <2>3. \A d \in LandedBy : op'[d] = op[d]
    BY <1>3 DEF LandedBy
  <2> QED
    BY <1>2, <1>3, <2>2, <2>3 DEF IdsInOrder, DistinctIds, LeafOf
<1> QED
  BY <1>5, <1>6, <1>8, <1>9, <1>10, <1>11, <1>12, <1>13 DEF HarnessInv

\* A write under way is one of an open storage, and alone if none overlapped.
LEMMA UnderWay ==
    ASSUME HarnessInv, NEW c \in Callers, op[c].at # "idle"
    PROVE  up /\ c \in InFlight /\ (~overlapped => InFlight \subseteq {c})
<1>1. c \in InFlight
  BY WriteStates DEF InFlight
<1> QED
  BY <1>1 DEF HarnessInv, ClosedIsQuiet, OneByOne

\* The whole line of a write is the next of a file that parses.
LEMMA FileGrows ==
    ASSUME HarnessInv, NEW c \in Callers, op[c].at = "writing", ~torn,
           disk' = Append(disk, op[c].line)
    PROVE  /\ disk' \in Seq(AnyLine)
           /\ Len(disk') = Len(disk) + 1 /\ Len(disk) \in Nat
           /\ Ids(disk') = Ids(disk) \cup {op[c].line.id}
           /\ Range(disk') = Range(disk) \cup {op[c].line}
           /\ LinesReferBack'
           /\ \A id \in Ids(disk') : id <= Bound
           /\ ~overlapped => DistinctIds'
<1>1. PICK line \in AnyLine : line = op[c].line
  BY WriteShape DEF HarnessInv, HarnessTypeOK
<1>2. disk \in Seq(AnyLine) /\ disk' = Append(disk, line)
  BY <1>1 DEF HarnessInv, HarnessTypeOK
<1>3. /\ disk' \in Seq(AnyLine)
      /\ Len(disk') = Len(disk) + 1 /\ Len(disk) \in Nat
      /\ Ids(disk') = Ids(disk) \cup {line.id}
      /\ Range(disk') = Range(disk) \cup {line}
  BY <1>2, AppendedLine
<1>4. LinesReferBack'
  <2>1. Back(disk)
    BY <1>2, BackIsReferBack DEF HarnessInv, LinesReferBack
  <2>2. Known \subseteq {0} \cup Ids(disk)
    BY DEF HarnessInv, FileIsAhead, Known
  <2>3. RefersTo(line, {0} \cup Ids(disk))
    BY <1>1, <2>2 DEF HarnessInv, RefersToKnown, RefersTo
  <2>4. Back(disk')
    BY <1>2, <2>1, <2>3, BackAppends
  <2> QED
    BY <1>3, <2>4, BackIsReferBack DEF LinesReferBack
<1>5. \A id \in Ids(disk') : id <= Bound
  BY <1>1, <1>3 DEF HarnessInv, IdsBounded
<1>6. ASSUME ~overlapped PROVE DistinctIds'
  <2>1. up /\ InFlight \subseteq {c}
    BY <1>6, UnderWay
  <2>2. LandedBy = {}
    BY <2>1, WriteStates DEF LandedBy, InFlight
  <2>3. disk = entries /\ DistinctIds
    BY <1>6, <2>1, <2>2 DEF HarnessInv, IdsInOrder
  <2>4. line.id \notin Ids(disk)
    BY <1>1, <1>6, <2>3 DEF HarnessInv, NewUntilLanded
  <2>5. /\ DOMAIN disk' = 1..(Len(disk) + 1) /\ DOMAIN disk = 1..Len(disk)
        /\ \A k \in 1..Len(disk) : disk'[k] = disk[k]
        /\ disk'[Len(disk) + 1] = line
    BY <1>2
  <2>6. \A k \in DOMAIN disk' : k \in 1..Len(disk) \/ k = Len(disk) + 1
    BY <1>3, <2>5
  <2> QED
    BY <2>3, <2>4, <2>5, <2>6 DEF DistinctIds, Ids
<1> QED
  BY <1>1, <1>3, <1>4, <1>5, <1>6

\* The line of a write reaches the file.
LEMMA LandsInv ==
    ASSUME HarnessInv, NEW c \in Callers, Lands(c)
    PROVE  HarnessInv'
<1> DEFINE line == op[c].line
           v == Landed(line, op[c].summary)
<1>1. HarnessTypeOK /\ IdsBounded /\ RefersToKnown
  BY DEF HarnessInv
<1>2. op[c].at = "writing" /\ line \in AnyLine /\ op[c].summary \in BOOLEAN
  BY <1>1, WriteShape DEF Lands, HarnessTypeOK
<1>3. /\ v \in StorageWrites /\ v.at = "landed" /\ v.line = line /\ v.summary = op[c].summary
      /\ v # Idle
  BY <1>2, WriteStates
<1>4. Set(c, v) /\ UNCHANGED <<bare, entries, leaf, up, window, whole, faults, astray, overlapped>>
  BY DEF Lands, memory
<1>5. up /\ c \in InFlight /\ (~overlapped => InFlight \subseteq {c})
  BY <1>2, UnderWay
<1>6. disk' = IF torn' THEN disk ELSE Append(disk, line)
  BY DEF Lands
<1>20. torn' \in BOOLEAN /\ (torn => torn')
  BY <1>1, Zenon DEF Lands, HarnessTypeOK
<1>21. ~torn' => disk' = Append(disk, op[c].line) /\ ~torn
  BY <1>6, <1>20
<1> HIDE DEF line, v
<1>7. /\ op' \in [Callers -> StorageWrites]
      /\ op'[c] = v /\ \A d \in Callers : d # c => op'[d] = op[d]
      /\ InFlight' = InFlight
      /\ LandedBy' = LandedBy \cup {c} /\ c \notin LandedBy
  <2>1. c \notin LandedBy
    BY <1>2 DEF LandedBy
  <2> QED
    BY <1>1, <1>3, <1>4, <1>5, <2>1, OneWriteSteps
<1>8. /\ Len(disk) \in Nat /\ disk' \in Seq(AnyLine)
      /\ ~torn' => /\ Len(disk') = Len(disk) + 1
                   /\ Ids(disk') = Ids(disk) \cup {line.id}
                   /\ Range(disk') = Range(disk) \cup {line}
  <2>1. CASE torn'
    BY <1>1, <1>6, <2>1 DEF HarnessTypeOK
  <2>2. CASE ~torn'
    BY <1>2, <1>21, <2>2, FileGrows DEF line
  <2> QED BY <2>1, <2>2
<1>9. op[c].line = line
  BY DEF line
<1>10. HarnessTypeOK'
  <2>1. ASSUME NEW d \in Callers, op'[d].at \in {"writing", "landed"}, op'[d].summary
        PROVE  op'[d].line.type = "leaf"
    BY <1>1, <1>2, <1>3, <1>7, <1>9, <2>1 DEF HarnessTypeOK
  <2> QED
    BY <1>1, <1>4, <1>7, <1>8, <1>20, <2>1 DEF HarnessTypeOK
<1>11. Known' = Known /\ Ids(entries)' = Ids(entries) /\ Range(entries)' = Range(entries)
  BY <1>4 DEF Known, Ids
<1>12. RefersTo(line, Known)
  BY <1>1, <1>2, <1>9 DEF RefersToKnown
<1>13. ClosedIsQuiet' /\ RefersToKnown'
  BY <1>1, <1>3, <1>4, <1>5, <1>7, <1>11, <1>12 DEF RefersToKnown, ClosedIsQuiet
<1>14. FileIsAhead'
  <2> SUFFICES ASSUME ~torn'
               PROVE  /\ Ids(entries) \subseteq Ids(disk')
                      /\ \A d \in LandedBy' : op'[d].line.id \in Ids(disk')
    BY <1>4, <1>11 DEF FileIsAhead
  <2>1. FileIsAhead
    BY DEF HarnessInv
  <2> QED
    BY <1>3, <1>7, <1>8, <1>21, <2>1 DEF FileIsAhead, LandedBy
<1>15. LinesReferBack'
  <2>1. CASE torn'
    BY <1>6, <2>1 DEF HarnessInv, LinesReferBack
  <2>2. CASE ~torn'
    BY <1>2, <1>21, <2>2, FileGrows
  <2> QED BY <2>1, <2>2
<1>16. FileIsMemoryAndLanded'
  <2>1. LandedLines' = LandedLines \cup {line}
    <3>1. \A d \in LandedBy : op'[d] = op[d]
      BY <1>7 DEF LandedBy
    <3> QED
      BY <1>3, <1>7, <3>1 DEF LandedLines
  <2>2. FileIsMemoryAndLanded
    BY DEF HarnessInv
  <2>3. /\ IsFiniteSet(LandedBy') /\ Cardinality(LandedBy') = Cardinality(LandedBy) + 1
        /\ Cardinality(LandedBy) \in Nat
    BY <1>7, <2>2, FS_AddElement, FS_CardinalityType DEF FileIsMemoryAndLanded
  <2>4. Len(entries) \in Nat
    BY <1>1 DEF HarnessTypeOK
  <2> QED
    BY <1>4, <1>8, <1>11, <1>21, <2>1, <2>2, <2>3, <2>4 DEF FileIsMemoryAndLanded
<1>17. IdsBounded'
  <2>1. Bound' = Bound
    BY <1>4 DEF Bound
  <2>2. \A id \in Ids(disk') : id <= Bound
    <3>1. CASE torn'
      BY <1>1, <1>6, <3>1 DEF IdsBounded
    <3>2. CASE ~torn'
      BY <1>2, <1>21, <3>2, FileGrows
    <3> QED BY <3>1, <3>2
  <2> QED
    BY <1>1, <1>2, <1>3, <1>7, <1>9, <1>11, <2>1, <2>2 DEF IdsBounded
<1>18. StrayOverlaps' /\ OneByOne' /\ NewUntilLanded'
  BY <1>3, <1>4, <1>7, <1>11 DEF HarnessInv, StrayOverlaps, OneByOne, NewUntilLanded
<1>19. IdsInOrder'
  <2> SUFFICES ASSUME ~overlapped, ~torn'
               PROVE  /\ DistinctIds'
                      /\ LandedBy' # {}
                      /\ \A d \in LandedBy' : disk' = Append(entries, op'[d].line)
                      /\ leaf = LeafOf(entries)
    BY <1>4 DEF IdsInOrder, LeafOf
  <2>1. LandedBy = {}
    BY <1>5, <1>7, WriteStates DEF LandedBy, InFlight
  <2>2. disk = entries /\ leaf = LeafOf(entries)
    BY <1>5, <1>21, <2>1 DEF HarnessInv, IdsInOrder
  <2>3. DistinctIds'
    BY <1>2, <1>21, FileGrows
  <2> QED
    BY <1>3, <1>6, <1>7, <2>1, <2>2, <2>3
<1> QED
  BY <1>10, <1>13, <1>14, <1>15, <1>16, <1>17, <1>18, <1>19 DEF HarnessInv

\* Memory follows the file.
LEMMA CommitsInv ==
    ASSUME HarnessInv, NEW c \in Callers, Commits(c)
    PROVE  HarnessInv'
<1> DEFINE line == op[c].line
           v == IF op[c].summary THEN [at |-> "summary", parent |-> line.target] ELSE Idle
<1>1. HarnessTypeOK /\ IdsBounded /\ RefersToKnown
  BY DEF HarnessInv
<1>2. /\ op[c].at = "landed" /\ line \in AnyLine /\ op[c].summary \in BOOLEAN
      /\ op[c].summary => line.type = "leaf"
  BY <1>1, WriteShape DEF Commits, HarnessTypeOK
<1>3. RefersTo(line, Known)
  BY <1>1, <1>2 DEF RefersToKnown
<1>4. /\ v \in StorageWrites /\ v.at \in {"idle", "summary"}
      /\ v.at = "summary" => v.parent \in Known
  <2>1. CASE op[c].summary
    <3>1. line.target \in Nat /\ line.target \in Known
      BY <1>2, <1>3, <2>1 DEF AnyLine, RefersTo
    <3> QED
      BY <2>1, <3>1 DEF StorageWrites
  <2>2. CASE ~op[c].summary
    BY <2>2, WriteStates
  <2> QED
    BY <2>1, <2>2
<1>5. /\ Set(c, v) /\ entries' = Append(entries, line) /\ leaf' = leafIdAfterEntry(line)
      /\ UNCHANGED <<disk, torn, bare, up, window, whole, faults, astray, overlapped>>
  BY DEF Commits, file
<1>6. up /\ c \in InFlight /\ (~overlapped => InFlight \subseteq {c})
  BY <1>2, UnderWay
<1>7. op[c].line = line
  OBVIOUS
<1> HIDE DEF line, v
<1>8. /\ op' \in [Callers -> StorageWrites]
      /\ op'[c] = v /\ \A d \in Callers : d # c => op'[d] = op[d]
      /\ InFlight' \subseteq InFlight
      /\ LandedBy' = LandedBy \ {c} /\ c \in LandedBy
  <2>1. c \in LandedBy
    BY <1>2 DEF LandedBy
  <2>2. v.at # "landed"
    BY <1>4
  <2> QED
    BY <1>1, <1>4, <1>5, <1>6, <2>1, <2>2, OneWriteSteps
<1>9. /\ entries' \in Seq(AnyLine)
      /\ Len(entries') = Len(entries) + 1 /\ Len(entries) \in Nat
      /\ Ids(entries') = Ids(entries) \cup {line.id}
      /\ Range(entries') = Range(entries) \cup {line}
      /\ LeafOf(entries') = leafIdAfterEntry(line)
  BY <1>1, <1>2, <1>5, AppendedLine DEF HarnessTypeOK, line
<1>10. leaf' \in Nat
  BY <1>2, <1>5 DEF leafIdAfterEntry, AnyLine, line
<1>11. HarnessTypeOK'
  <2>1. ASSUME NEW d \in Callers, op'[d].at \in {"writing", "landed"}, op'[d].summary
        PROVE  op'[d].line.type = "leaf"
    BY <1>1, <1>4, <1>8, <2>1 DEF HarnessTypeOK
  <2> QED
    BY <1>1, <1>5, <1>8, <1>9, <1>10, <2>1 DEF HarnessTypeOK
<1>12. Known' = Known \cup {line.id}
  BY <1>9 DEF Known
<1>13. RefersToKnown'
  <2>1. leaf' \in Known'
    BY <1>3, <1>5, <1>12 DEF RefersTo, leafIdAfterEntry
  <2>2. \A l : RefersTo(l, Known) => RefersTo(l, Known')
    BY <1>12 DEF RefersTo
  <2> QED
    BY <1>1, <1>4, <1>8, <1>12, <2>1, <2>2 DEF RefersToKnown
<1>14. ClosedIsQuiet'
  BY <1>5, <1>6 DEF ClosedIsQuiet
<1>15. FileIsAhead'
  <2>1. FileIsAhead
    BY DEF HarnessInv
  <2> QED
    BY <1>5, <1>7, <1>8, <1>9, <2>1 DEF FileIsAhead, LandedBy
<1>16. LinesReferBack'
  BY <1>5 DEF HarnessInv, LinesReferBack
<1>17. FileIsMemoryAndLanded'
  <2>1. LandedLines \cup {line} = LandedLines' \cup {line} /\ line \in LandedLines
    <3>1. \A d \in LandedBy' : op'[d] = op[d]
      BY <1>8 DEF LandedBy
    <3> QED
      BY <1>7, <1>8, <3>1 DEF LandedLines
  <2>2. FileIsMemoryAndLanded
    BY DEF HarnessInv
  <2>3. /\ IsFiniteSet(LandedBy') /\ Cardinality(LandedBy') = Cardinality(LandedBy) - 1
        /\ Cardinality(LandedBy) \in Nat
    BY <1>8, <2>2, FS_RemoveElement, FS_CardinalityType DEF FileIsMemoryAndLanded
  <2> QED
    BY <1>5, <1>9, <2>1, <2>2, <2>3 DEF FileIsMemoryAndLanded
<1>18. IdsBounded'
  <2>1. Bound' = Bound /\ Ids(disk)' = Ids(disk)
    BY <1>5 DEF Bound, Ids
  <2>2. line.id <= Bound
    BY <1>1, <1>2, <1>7 DEF IdsBounded
  <2> QED
    BY <1>1, <1>4, <1>8, <1>9, <2>1, <2>2 DEF IdsBounded
<1>21. StrayOverlaps'
  BY <1>5 DEF HarnessInv, StrayOverlaps
<1>19. OneByOne' /\ NewUntilLanded'
  <2> SUFFICES ASSUME ~overlapped
               PROVE  (\A d, e \in InFlight' : d = e) /\ NewUntilLanded'
    BY <1>5 DEF OneByOne, NewUntilLanded
  <2>1. \A d \in Callers : d # c => op'[d].at = "idle"
    BY <1>6, <1>8, WriteStates DEF InFlight
  <2> QED
    BY <1>4, <1>6, <1>8, <2>1 DEF NewUntilLanded
<1>20. IdsInOrder'
  <2> SUFFICES ASSUME ~overlapped, ~torn
               PROVE  /\ DistinctIds' /\ LandedBy' = {}
                      /\ disk = entries' /\ leaf' = LeafOf(entries')
    BY <1>5 DEF IdsInOrder, LeafOf
  <2>1. LandedBy \subseteq {c}
    BY <1>6, WriteStates DEF LandedBy, InFlight
  <2>2. disk = Append(entries, line) /\ DistinctIds
    BY <1>6, <1>7, <1>8 DEF HarnessInv, IdsInOrder
  <2> QED
    BY <1>5, <1>8, <1>9, <2>1, <2>2 DEF DistinctIds
<1> QED
  BY <1>11, <1>13, <1>14, <1>15, <1>16, <1>17, <1>18, <1>19, <1>20, <1>21 DEF HarnessInv

\* What an append that does not succeed leaves in the file.
LEMMA LeavesInv ==
    ASSUME HarnessInv, NEW c \in Callers, op[c].at = "writing", Leaves(op[c].line)
    PROVE  /\ disk' \in Seq(AnyLine) /\ torn' \in BOOLEAN /\ bare' \in BOOLEAN
           /\ torn => torn'
           /\ disk' # disk => ~torn /\ disk' = Append(disk, op[c].line)
           /\ Ids(disk) \subseteq Ids(disk')
           /\ LinesReferBack'
           /\ \A id \in Ids(disk') : id <= Bound
           /\ ~torn' /\ ~overlapped => DistinctIds'
<1>1. HarnessTypeOK /\ LinesReferBack /\ IdsBounded /\ IdsInOrder
  BY DEF HarnessInv
<1>2. CASE disk' = disk /\ (torn => torn') /\ torn' \in BOOLEAN /\ bare' = bare
  <2>1. DistinctIds' = DistinctIds /\ LinesReferBack'
    BY <1>1, <1>2 DEF DistinctIds, LinesReferBack
  <2> QED
    BY <1>1, <1>2, <2>1 DEF HarnessTypeOK, IdsBounded, IdsInOrder
<1>3. CASE ~torn /\ disk' = Append(disk, op[c].line) /\ bare' \in BOOLEAN /\ torn' = torn
  <2>1. torn' \in BOOLEAN
    BY <1>1, <1>3 DEF HarnessTypeOK
  <2> QED
    BY <1>3, <2>1, FileGrows
<1>4. torn \in BOOLEAN
  BY <1>1 DEF HarnessTypeOK
<1>5. \/ UNCHANGED <<disk, torn, bare>>
      \/ torn' = TRUE /\ UNCHANGED <<disk, bare>>
      \/ ~torn /\ disk' = Append(disk, op[c].line) /\ bare' \in BOOLEAN /\ torn' = torn
  BY Zenon DEF Leaves, file
<1>6. CASE UNCHANGED <<disk, torn, bare>>
  BY <1>2, <1>4, <1>6
<1>7. CASE torn' = TRUE /\ UNCHANGED <<disk, bare>>
  BY <1>2, <1>7
<1> QED
  BY <1>3, <1>5, <1>6, <1>7

\* A write is rejected with its line in the file.
LEMMA StraysInv ==
    ASSUME HarnessInv, NEW c \in Callers, AppendFails(c), disk' # disk
    PROVE  HarnessInv'
<1>1. HarnessTypeOK /\ IdsBounded /\ RefersToKnown
  BY DEF HarnessInv
<1>2. /\ op[c].at = "writing" /\ Set(c, Idle) /\ faults' = faults + 1
      /\ UNCHANGED <<entries, leaf, up, window, whole>> /\ Leaves(op[c].line)
  BY DEF AppendFails, memory
<1>3. astray' = TRUE /\ overlapped' = TRUE
  BY DEF AppendFails
<1>4. /\ disk' \in Seq(AnyLine) /\ torn' \in BOOLEAN /\ bare' \in BOOLEAN
      /\ torn => torn'
      /\ Ids(disk) \subseteq Ids(disk')
      /\ LinesReferBack'
      /\ \A id \in Ids(disk') : id <= Bound
  BY <1>2, LeavesInv
<1>5. up
  BY <1>2, UnderWay
<1>6. /\ op' \in [Callers -> StorageWrites]
      /\ op'[c] = Idle /\ Idle.at = "idle" /\ \A d \in Callers : d # c => op'[d] = op[d]
      /\ LandedBy' = LandedBy
  <2>1. c \notin LandedBy
    BY <1>2 DEF LandedBy
  <2> QED
    <3>1. Idle \in StorageWrites /\ Idle.at = "idle"
      BY WriteStates
    <3> QED
      BY <1>1, <1>2, <2>1, <3>1, OneWriteSteps
<1>7. HarnessTypeOK'
  BY <1>1, <1>2, <1>3, <1>4, <1>6 DEF HarnessTypeOK
<1>8. Known' = Known /\ Ids(entries)' = Ids(entries) /\ Bound' = Bound
  BY <1>2 DEF Known, Ids, Bound
<1>9. ClosedIsQuiet' /\ RefersToKnown'
  BY <1>1, <1>2, <1>5, <1>6, <1>8 DEF ClosedIsQuiet, RefersToKnown
<1>10. FileIsAhead'
  <2>1. \A d \in LandedBy : op'[d] = op[d]
    BY <1>2, <1>6 DEF LandedBy
  <2> QED
    BY <1>4, <1>6, <1>8, <2>1 DEF HarnessInv, FileIsAhead
<1>11. FileIsMemoryAndLanded'
  BY <1>3, <1>6 DEF HarnessInv, FileIsMemoryAndLanded
<1>12. IdsBounded'
  BY <1>1, <1>4, <1>6, <1>8 DEF IdsBounded
<1>13. StrayOverlaps' /\ OneByOne' /\ NewUntilLanded' /\ IdsInOrder'
  BY <1>3 DEF StrayOverlaps, OneByOne, NewUntilLanded, IdsInOrder
<1> QED
  BY <1>4, <1>7, <1>9, <1>10, <1>11, <1>12, <1>13 DEF HarnessInv

\* The process dies, perhaps with a line half written.
LEMMA CrashInv ==
    ASSUME HarnessInv, Crash
    PROVE  HarnessInv'
<1>1. HarnessTypeOK /\ IdsBounded /\ LinesReferBack /\ IdsInOrder /\ StrayOverlaps
  BY DEF HarnessInv
<1>2. /\ UNCHANGED <<window, whole, astray, overlapped>>
      /\ up' = FALSE /\ entries' = << >> /\ leaf' = 0 /\ faults' = faults + 1
      /\ op' = [c \in Callers |-> Idle]
  BY DEF Crash
<1>3. /\ disk' \in Seq(AnyLine) /\ torn' \in BOOLEAN /\ bare' \in BOOLEAN
      /\ LinesReferBack'
      /\ \A id \in Ids(disk') : id <= Bound
      /\ ~torn' /\ ~overlapped => DistinctIds'
  <2>1. CASE UNCHANGED <<disk, torn, bare>>
    <3>1. DistinctIds' = DistinctIds /\ LinesReferBack'
      BY <1>1, <2>1 DEF DistinctIds, LinesReferBack
    <3> QED
      BY <1>1, <2>1, <3>1 DEF HarnessTypeOK, IdsBounded, IdsInOrder
  <2>2. ASSUME NEW c \in Callers, op[c].at = "writing", Leaves(op[c].line)
        PROVE  /\ disk' \in Seq(AnyLine) /\ torn' \in BOOLEAN /\ bare' \in BOOLEAN
               /\ LinesReferBack'
               /\ \A id \in Ids(disk') : id <= Bound
               /\ ~torn' /\ ~overlapped => DistinctIds'
    BY <2>2, LeavesInv
  <2> QED
    BY <2>1, <2>2 DEF Crash, file
<1>4. \A c \in Callers : op'[c] = Idle /\ op'[c].at = "idle" /\ op'[c] \in StorageWrites
  BY <1>2, WriteStates
<1>5. LandedBy' = {} /\ InFlight' = {} /\ LandedLines' = {} /\ Ids(entries') = {}
  BY <1>2, <1>4 DEF LandedBy, InFlight, LandedLines, Ids
<1>6. HarnessTypeOK'
  <2>1. up' \in BOOLEAN /\ astray' \in BOOLEAN /\ overlapped' \in BOOLEAN
    BY <1>1, <1>2, Zenon DEF HarnessTypeOK
  <2> QED
    BY <1>1, <1>2, <1>3, <1>4, <2>1 DEF HarnessTypeOK
<1>7. ClosedIsQuiet' /\ RefersToKnown' /\ FileIsAhead'
  BY <1>2, <1>4, <1>5 DEF ClosedIsQuiet, RefersToKnown, FileIsAhead, Known
<1>8. FileIsMemoryAndLanded'
  BY <1>2, <1>5, FS_EmptySet DEF FileIsMemoryAndLanded
<1>9. IdsBounded' /\ StrayOverlaps' /\ OneByOne' /\ NewUntilLanded'
  <2>1. Bound' = Bound
    BY <1>2 DEF Bound
  <2> QED
    BY <1>1, <1>2, <1>3, <1>4, <1>5, <2>1
       DEF IdsBounded, StrayOverlaps, OneByOne, NewUntilLanded
<1>10. IdsInOrder'
  BY <1>2, <1>3 DEF IdsInOrder
<1> QED
  BY <1>3, <1>6, <1>7, <1>8, <1>9, <1>10 DEF HarnessInv

\* The file is read back.
LEMMA OpenInv ==
    ASSUME HarnessInv, Open
    PROVE  HarnessInv'
<1>1. HarnessTypeOK /\ IdsBounded
  BY DEF HarnessInv
<1>2. /\ UNCHANGED <<disk, torn, bare, window, whole, op, faults, overlapped>>
      /\ astray' = FALSE
      /\ up' = TRUE /\ entries' = disk /\ leaf' = LeafOf(disk) /\ ~up /\ ~torn
  BY DEF Open, file
<1>3. InFlight = {}
  BY <1>2 DEF HarnessInv, ClosedIsQuiet
<1>4. \A c \in Callers : op[c].at = "idle"
  BY <1>3, WriteStates DEF InFlight
<1>5. LandedBy' = {} /\ InFlight' = {} /\ LandedLines' = {}
  BY <1>2, <1>3, <1>4 DEF LandedBy, InFlight, LandedLines
<1>6. LeafOf(disk) \in {0} \cup Ids(disk) /\ LeafOf(disk) \in Nat
  <2>1. disk \in Seq(AnyLine)
    BY <1>1 DEF HarnessTypeOK
  <2>2. Back(disk)
    BY <2>1, BackIsReferBack DEF HarnessInv, LinesReferBack
  <2> QED
    BY <2>1, <2>2, LeafIsKnown
<1>7. HarnessTypeOK'
  <2>1. /\ up' \in BOOLEAN /\ torn' \in BOOLEAN /\ bare' \in BOOLEAN
        /\ astray' \in BOOLEAN /\ overlapped' \in BOOLEAN
    BY <1>1, <1>2, Zenon DEF HarnessTypeOK
  <2> QED
    BY <1>1, <1>2, <1>4, <1>6, <2>1 DEF HarnessTypeOK
<1>8. ClosedIsQuiet' /\ RefersToKnown' /\ FileIsAhead'
  BY <1>2, <1>4, <1>5, <1>6 DEF ClosedIsQuiet, RefersToKnown, FileIsAhead, Known
<1>9. LinesReferBack' /\ FileIsMemoryAndLanded'
  <2>1. LinesReferBack'
    BY <1>2 DEF HarnessInv, LinesReferBack
  <2>2. Len(disk) \in Nat
    BY <1>1 DEF HarnessTypeOK
  <2> QED
    BY <1>2, <1>5, <2>1, <2>2, FS_EmptySet DEF FileIsMemoryAndLanded
<1>10. IdsBounded' /\ StrayOverlaps' /\ OneByOne' /\ NewUntilLanded'
  <2>1. Bound' = Bound
    BY <1>2 DEF Bound
  <2> QED
    BY <1>1, <1>2, <1>4, <1>5, <2>1 DEF IdsBounded, StrayOverlaps, OneByOne, NewUntilLanded
<1>11. IdsInOrder'
  BY <1>2, <1>5 DEF HarnessInv, IdsInOrder, DistinctIds
<1> QED
  BY <1>7, <1>8, <1>9, <1>10, <1>11 DEF HarnessInv

\* Every step of the session preserves the invariant.
LEMMA HarnessStepInv == HarnessInv /\ [StorageNext]_storageVars => HarnessInv'
<1> SUFFICES ASSUME HarnessInv, [StorageNext]_storageVars PROVE HarnessInv'
  OBVIOUS
<1>0. HarnessTypeOK /\ IdsBounded /\ RefersToKnown
  BY DEF HarnessInv
<1>1. ASSUME NEW c \in Callers, AppendStarts(c) PROVE HarnessInv'
  <2>1. /\ Begins(c) /\ Set(c, Named(NewId)) /\ TakesWhole
        /\ UNCHANGED <<disk, torn, bare, entries, leaf, up, window, faults, astray>>
    BY <1>1 DEF AppendStarts, memory, file
  <2>2. /\ NewId \in Nat /\ NewId \notin Ids(entries) /\ NewId <= Bound'
        /\ whole' \in Nat /\ Bound <= Bound'
    BY <1>0, <2>1, NewIdIsNew
  <2>3. /\ up /\ op[c].at # "landed" /\ overlapped' \in BOOLEAN
        /\ overlapped => overlapped'
        /\ ~overlapped' => InFlight \subseteq {c}
    BY <1>0, <2>1, WriteStates DEF Begins, HarnessTypeOK
  <2>4. /\ Named(NewId) \in StorageWrites /\ Named(NewId).at = "named" /\ Named(NewId).id = NewId
    BY <2>2, WriteStates
  <2>5. torn' \in BOOLEAN /\ (torn => torn') /\ faults' \in Nat
    BY <1>0, <2>1 DEF HarnessTypeOK
  <2> QED
    BY <2>1, <2>2, <2>3, <2>4, <2>5, WriteStepInv
<1>2. ASSUME NEW c \in Callers, ReadsLeaf(c) PROVE HarnessInv'
  <2> DEFINE v == Writing(Line(op[c].id, leaf), FALSE)
  <2>1. /\ op[c].at = "named" /\ Set(c, v)
        /\ UNCHANGED <<disk, torn, bare, entries, leaf, up, window, whole, faults, astray, overlapped>>
    BY <1>2 DEF ReadsLeaf, memory, file
  <2>2. op[c].id \in Nat /\ leaf \in Nat
    BY <1>0, <2>1, WriteShape DEF HarnessTypeOK
  <2>3. /\ v \in StorageWrites /\ v.at = "writing" /\ v.summary = FALSE
        /\ v.line.id = op[c].id /\ v.line.parent = leaf /\ v.line.type = "entry"
    <3>1. Line(op[c].id, leaf) \in AnyLine
      BY <2>2, WriteStates
    <3>2. v \in StorageWrites /\ v.at = "writing" /\ v.summary = FALSE /\ v.line = Line(op[c].id, leaf)
      BY <3>1 DEF StorageWrites, Writing
    <3>3. Line(op[c].id, leaf) = [type |-> "entry", id |-> op[c].id, parent |-> leaf]
      BY DEF Line
    <3> HIDE DEF v
    <3> QED
      BY <3>2, <3>3
  <2>4. up /\ (~overlapped => InFlight \subseteq {c})
    BY <2>1, UnderWay
  <2>5. op[c].id <= Bound /\ (~overlapped => op[c].id \notin Ids(entries))
    BY <1>0, <2>1 DEF HarnessInv, IdsBounded, NewUntilLanded
  <2>6. RefersTo(v.line, Known)
    BY <1>0, <2>3 DEF RefersToKnown, RefersTo
  <2>7. /\ torn' \in BOOLEAN /\ (torn => torn') /\ faults' \in Nat
        /\ overlapped' \in BOOLEAN /\ (overlapped => overlapped')
        /\ whole' \in Nat /\ Bound' = Bound /\ Bound <= Bound'
    BY <1>0, <2>1, BoundsAssumption DEF HarnessTypeOK, Bound
  <2> HIDE DEF v
  <2> QED
    BY <2>1, <2>3, <2>4, <2>5, <2>6, <2>7, WriteStepInv
<1>3. ASSUME NEW c \in Callers, NEW target \in 0 .. MaxWindows + whole,
             NEW summary \in BOOLEAN, MoveStarts(c, target, summary)
      PROVE  HarnessInv'
  <2> DEFINE v == Writing(LeafLine(NewId, leaf, target), summary)
  <2>1. /\ Begins(c) /\ Set(c, v) /\ TakesWhole /\ target \in Known
        /\ UNCHANGED <<disk, torn, bare, entries, leaf, up, window, faults, astray>>
    BY <1>3 DEF MoveStarts, memory, file, Known
  <2>2. /\ NewId \in Nat /\ NewId \notin Ids(entries) /\ NewId <= Bound'
        /\ whole' \in Nat /\ Bound <= Bound'
    BY <1>0, <2>1, NewIdIsNew
  <2>3. /\ up /\ op[c].at # "landed" /\ overlapped' \in BOOLEAN
        /\ overlapped => overlapped'
        /\ ~overlapped' => InFlight \subseteq {c}
    BY <1>0, <2>1, WriteStates DEF Begins, HarnessTypeOK
  <2>4. target \in Nat /\ leaf \in Nat
    BY <1>0 DEF HarnessTypeOK
  <2>5. /\ v \in StorageWrites /\ v.at = "writing"
        /\ v.line.id = NewId /\ v.line.parent = leaf /\ v.line.type = "leaf"
        /\ v.line.target = target
    <3>1. PICK line : line = LeafLine(NewId, leaf, target)
      OBVIOUS
    <3>2. /\ line \in AnyLine /\ line.id = NewId /\ line.parent = leaf
          /\ line.type = "leaf" /\ line.target = target
      BY <2>2, <2>4, <3>1 DEF LeafLine, AnyLine
    <3>3. v = Writing(line, summary)
      BY <3>1
    <3>4. v \in StorageWrites /\ v.at = "writing" /\ v.line = line
      BY <3>2, <3>3, WriteStates
    <3> QED BY <3>2, <3>4
  <2>6. RefersTo(v.line, Known)
    BY <1>0, <2>1, <2>5 DEF RefersToKnown, RefersTo
  <2>7. torn' \in BOOLEAN /\ (torn => torn') /\ faults' \in Nat
    BY <1>0, <2>1 DEF HarnessTypeOK
  <2> HIDE DEF v
  <2> QED
    BY <2>1, <2>2, <2>3, <2>5, <2>6, <2>7, WriteStepInv
<1>4. ASSUME NEW c \in Callers, Lands(c) PROVE HarnessInv'
  BY <1>4, LandsInv
<1>5. ASSUME NEW c \in Callers, Commits(c) PROVE HarnessInv'
  BY <1>5, CommitsInv
<1>6. ASSUME NEW c \in Callers, SummaryStarts(c) PROVE HarnessInv'
  <2> DEFINE v == Writing(Line(NewId, op[c].parent), FALSE)
  <2>1. /\ op[c].at = "summary" /\ Set(c, v) /\ TakesWhole
        /\ UNCHANGED <<disk, torn, bare, entries, leaf, up, window, faults, astray, overlapped>>
    BY <1>6 DEF SummaryStarts, memory, file
  <2>2. /\ NewId \in Nat /\ NewId \notin Ids(entries) /\ NewId <= Bound'
        /\ whole' \in Nat /\ Bound <= Bound'
    BY <1>0, <2>1, NewIdIsNew
  <2>3. op[c].parent \in Nat /\ op[c].parent \in Known
    BY <1>0, <2>1, WriteShape DEF HarnessTypeOK, RefersToKnown
  <2>4. /\ v \in StorageWrites /\ v.at = "writing" /\ v.summary = FALSE
        /\ v.line.id = NewId /\ v.line.parent = op[c].parent /\ v.line.type = "entry"
    <3>1. Line(NewId, op[c].parent) \in AnyLine
      BY <2>2, <2>3, WriteStates
    <3>2. v \in StorageWrites /\ v.at = "writing" /\ v.summary = FALSE /\ v.line = Line(NewId, op[c].parent)
      BY <3>1 DEF StorageWrites, Writing
    <3>3. Line(NewId, op[c].parent) = [type |-> "entry", id |-> NewId, parent |-> op[c].parent]
      BY DEF Line
    <3> HIDE DEF v
    <3> QED
      BY <3>2, <3>3
  <2>5. up /\ (~overlapped => InFlight \subseteq {c})
    BY <2>1, UnderWay
  <2>6. RefersTo(v.line, Known)
    BY <2>3, <2>4 DEF RefersTo
  <2>7. /\ torn' \in BOOLEAN /\ (torn => torn') /\ faults' \in Nat
        /\ overlapped' \in BOOLEAN /\ (overlapped => overlapped')
    BY <1>0, <2>1 DEF HarnessTypeOK
  <2> HIDE DEF v
  <2> QED
    BY <2>1, <2>2, <2>4, <2>5, <2>6, <2>7, WriteStepInv
<1>7. ASSUME NEW c \in Callers, AppendFails(c) PROVE HarnessInv'
  <2>1. CASE disk' # disk
    BY <1>7, <2>1, StraysInv
  <2>2. CASE disk' = disk
    <3>1. /\ op[c].at = "writing" /\ Set(c, Idle) /\ faults' = faults + 1
          /\ UNCHANGED <<disk, entries, leaf, up, window, whole>> /\ Leaves(op[c].line)
      BY <1>7, <2>2 DEF AppendFails, memory
    <3>2. UNCHANGED <<astray, overlapped>>
      BY <1>0, <1>7, <2>2 DEF AppendFails, HarnessTypeOK
    <3>3. torn' \in BOOLEAN /\ (torn => torn') /\ bare' = bare
      <4>1. op[c].line \in AnyLine /\ disk \in Seq(AnyLine)
        BY <1>0, <3>1, WriteShape DEF HarnessTypeOK
      <4>2. disk # Append(disk, op[c].line)
        BY <4>1, AppendedLine
      <4>3. torn' \in BOOLEAN /\ (torn => torn')
        BY <3>1, LeavesInv
      <4> QED BY <2>2, <3>1, <4>2, <4>3 DEF Leaves, file
    <3>4. up /\ (~overlapped => InFlight \subseteq {c})
      BY <3>1, UnderWay
    <3>5. /\ faults' \in Nat /\ overlapped' \in BOOLEAN /\ (overlapped => overlapped')
          /\ whole' \in Nat /\ Bound' = Bound /\ Bound <= Bound'
      BY <1>0, <3>1, <3>2, BoundsAssumption DEF HarnessTypeOK, Bound
    <3> QED
      BY <3>1, <3>2, <3>3, <3>4, <3>5, WriteStates, WriteStepInv
  <2> QED BY <2>1, <2>2
<1>8. CASE Crash
  BY <1>8, CrashInv
<1>9. CASE Open
  BY <1>9, OpenInv
<1>10. ASSUME UNCHANGED <<disk, torn, bare, entries, leaf, up, whole, op, astray, overlapped>>,
              window' \in 1..MaxWindows, faults' \in Nat
       PROVE  HarnessInv'
  <2>1. /\ InFlight' = InFlight /\ LandedBy' = LandedBy /\ LandedLines' = LandedLines
        /\ Known' = Known /\ Bound' = Bound
    BY <1>10 DEF InFlight, LandedBy, LandedLines, Known, Ids, Bound
  <2>2. HarnessTypeOK'
    BY <1>0, <1>10 DEF HarnessTypeOK
  <2>3. ClosedIsQuiet' /\ RefersToKnown' /\ FileIsAhead' /\ LinesReferBack'
    BY <1>10, <2>1 DEF HarnessInv, ClosedIsQuiet, RefersToKnown, FileIsAhead,
                       LinesReferBack
  <2>4. FileIsMemoryAndLanded' /\ IdsBounded' /\ StrayOverlaps' /\ OneByOne' /\ NewUntilLanded'
    BY <1>10, <2>1 DEF HarnessInv, FileIsMemoryAndLanded, IdsBounded, StrayOverlaps, OneByOne,
                       NewUntilLanded
  <2>5. IdsInOrder'
    BY <1>10, <2>1 DEF HarnessInv, IdsInOrder, DistinctIds
  <2> QED
    BY <2>2, <2>3, <2>4, <2>5 DEF HarnessInv
<1>11. CASE Tick
  <2>1. window' \in 1..MaxWindows /\ faults' \in Nat
    BY <1>0, <1>11, BoundsAssumption DEF Tick, HarnessTypeOK
  <2> QED
    BY <1>10, <1>11, <2>1 DEF Tick, memory, file
<1>12. CASE UNCHANGED storageVars
  <2>1. window' \in 1..MaxWindows /\ faults' \in Nat
    BY <1>0, <1>12 DEF storageVars, HarnessTypeOK
  <2> QED
    BY <1>10, <1>12, <2>1 DEF storageVars, memory, file
<1> QED
  BY <1>1, <1>2, <1>3, <1>4, <1>5, <1>6, <1>7, <1>8, <1>9, <1>11, <1>12 DEF StorageNext

\* The inductive invariant holds in every reachable state.
THEOREM HarnessInvariant == StorageSpec => []HarnessInv
BY HarnessInitInv, HarnessStepInv, PTL DEF StorageSpec

\* Session over JsonlSessionStorage: each line of the file refers only to lines
\* before it, with any number of overlapping writers, failed appends and
\* crashes; a file whose lines all parse opens to a tree.
THEOREM FileOpensToATree == StorageSpec => []LinesReferBack
BY HarnessInvariant, PTL DEF HarnessInv

\* When no write is under way memory has the lines of a file that opens; and
\* if writes never overlapped, in their order, with the leaf that reopening
\* gives and with distinct ids.  An append rejected with its line in the file
\* is an exception until the file is opened again.
THEOREM MemoryAgreesWithFile == StorageSpec => []MemoryIsTheFile
<1>1. HarnessInv => MemoryIsTheFile
  <2> SUFFICES ASSUME HarnessInv, up, ~torn, ~astray, InFlight = {}
               PROVE  /\ Range(entries) = Range(disk)
                      /\ Len(entries) = Len(disk)
                      /\ ~overlapped => /\ entries = disk
                                        /\ leaf = LeafOf(disk)
                                        /\ DistinctIds
    BY DEF MemoryIsTheFile, IsInjective, DistinctIds
  <2>1. LandedBy = {} /\ LandedLines = {}
    <3>1. \A c \in Callers : op[c].at = "idle"
      BY WriteStates DEF InFlight
    <3> QED
      BY <3>1 DEF LandedBy, LandedLines
  <2>2. Len(entries) \in Nat
    BY DEF HarnessInv, HarnessTypeOK
  <2>3. Range(entries) = Range(disk) /\ Len(entries) = Len(disk)
    BY <2>1, <2>2, FS_EmptySet DEF HarnessInv, FileIsMemoryAndLanded
  <2> QED
    BY <2>1, <2>3 DEF HarnessInv, IdsInOrder
<1> QED
  BY <1>1, HarnessInvariant, PTL
=============================================================================
