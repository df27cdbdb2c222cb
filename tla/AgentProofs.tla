------------------------------ MODULE AgentProofs ------------------------------
(***************************************************************************)
(* Proofs for Agent, for any number of messages, turns and tool calls:     *)
(* every submitted message is in one place, the model is asked with what   *)
(* the transcript shows, and tool results follow their call.  What holds   *)
(* of a batch of calls is proved in ToolTurnProofs.                        *)
(***************************************************************************)
EXTENDS Agent, ToolTurnProofs, FiniteSetTheorems

-----------------------------------------------------------------------------
(***************************************************************************)
(* How often x is in the sequence s.                                       *)
(***************************************************************************)
Found(x, s) == {k \in 1..Len(s) : s[k] = x}
Count(x, s) == Cardinality(Found(x, s))
Once(b) == IF b THEN 1 ELSE 0

LEMMA CountNat ==
    ASSUME NEW S, NEW s \in Seq(S), NEW x
    PROVE  IsFiniteSet(Found(x, s)) /\ Count(x, s) \in Nat
<1>1. Len(s) \in Nat /\ IsFiniteSet(1..Len(s))
  BY FS_Interval
<1>2. Found(x, s) \in SUBSET (1..Len(s))
  BY DEF Found
<1>3. IsFiniteSet(Found(x, s))
  BY <1>1, <1>2, FS_Subset
<1> QED BY <1>3, FS_CardinalityType DEF Count

LEMMA CountEmpty == \A x : Count(x, << >>) = 0
<1>1. \A x : Found(x, << >>) = {}
  BY DEF Found
<1> QED BY <1>1, FS_EmptySet DEF Count

LEMMA CountOne == ASSUME NEW e, NEW x PROVE Count(x, <<e>>) = Once(e = x)
<1>1. Found(x, <<e>>) = IF e = x THEN {1} ELSE {}
  BY DEF Found
<1> QED BY <1>1, FS_Singleton, FS_EmptySet DEF Count, Once

LEMMA CountAppend ==
    ASSUME NEW S, NEW s \in Seq(S), NEW e, NEW x
    PROVE  Count(x, Append(s, e)) = Count(x, s) + Once(e = x)
<1> DEFINE t == Append(s, e)
<1>1. /\ Len(s) \in Nat /\ Len(t) = Len(s) + 1
      /\ \A k \in 1..Len(s) : t[k] = s[k]
      /\ t[Len(s) + 1] = e
  OBVIOUS
<1> HIDE DEF t
<1>2. IsFiniteSet(Found(x, s)) /\ Count(x, s) \in Nat
  BY CountNat
<1>3. CASE e = x
  <2>1. Found(x, t) = Found(x, s) \cup {Len(s) + 1} /\ Len(s) + 1 \notin Found(x, s)
    BY <1>1, <1>3 DEF Found
  <2> QED BY <2>1, <1>2, <1>3, FS_AddElement DEF Count, Once, t
<1>4. CASE e # x
  <2>1. Found(x, t) = Found(x, s)
    BY <1>1, <1>4 DEF Found
  <2> QED BY <2>1, <1>2, <1>4 DEF Count, Once, t
<1> QED BY <1>3, <1>4

LEMMA CountTail ==
    ASSUME NEW S, NEW s \in Seq(S), s # << >>, NEW x
    PROVE  Count(x, s) = Once(Head(s) = x) + Count(x, Tail(s))
<1> DEFINE t == Tail(s)
           F == [k \in Found(x, t) |-> k + 1]
           T == Found(x, s) \ {1}
<1>1. /\ t \in Seq(S) /\ Len(s) \in Nat /\ Len(s) > 0 /\ Len(t) = Len(s) - 1
      /\ \A k \in 1..Len(t) : t[k] = s[k + 1]
      /\ Head(s) = s[1]
  OBVIOUS
<1> HIDE DEF t
<1>2. /\ IsFiniteSet(Found(x, s)) /\ Count(x, s) \in Nat
      /\ IsFiniteSet(Found(x, t)) /\ Count(x, t) \in Nat
  BY <1>1, CountNat
<1>3. F \in Bijection(Found(x, t), T)
  <2>1. \A k \in Found(x, t) : k \in Nat /\ k + 1 \in T
    BY <1>1 DEF Found
  <2>2. F \in [Found(x, t) -> T]
    BY <2>1
  <2>3. \A a, b \in Found(x, t) : F[a] = F[b] => a = b
    BY <2>1
  <2>4. \A k \in T : \E a \in Found(x, t) : F[a] = k
    <3> SUFFICES ASSUME NEW k \in T PROVE \E a \in Found(x, t) : F[a] = k
      OBVIOUS
    <3>1. k - 1 \in Found(x, t)
      BY <1>1 DEF Found
    <3>2. F[k - 1] = k
      BY <3>1, <1>1 DEF Found
    <3> QED BY <3>1, <3>2
  <2> HIDE DEF F, T
  <2> QED BY <2>2, <2>3, <2>4 DEF Bijection, Injection, Surjection, IsInjective
<1>4. Cardinality(T) = Count(x, t)
  BY <1>2, <1>3, FS_Bijection DEF ExistsBijection, Count
<1>5. Cardinality(T) = IF 1 \in Found(x, s) THEN Count(x, s) - 1 ELSE Count(x, s)
  BY <1>2, FS_RemoveElement DEF Count
<1>6. 1 \in Found(x, s) <=> Head(s) = x
  BY <1>1 DEF Found
<1> HIDE DEF T, F
<1> QED BY <1>2, <1>4, <1>5, <1>6 DEF Once, t

LEMMA CountRange ==
    ASSUME NEW S, NEW s \in Seq(S), NEW x
    PROVE  x \in Range(s) <=> Count(x, s) # 0
<1>1. x \in Range(s) <=> Found(x, s) # {}
  BY DEF Range, Found
<1> QED BY <1>1, CountNat, FS_EmptySet DEF Count

(* A drain takes what it leaves out.                                       *)
LEMMA Drain ==
    ASSUME NEW S, NEW q \in Seq(S), NEW mode, NEW x
    PROVE  /\ Drained(q, mode) \in Seq(S) /\ Left(q, mode) \in Seq(S)
           /\ Count(x, Drained(q, mode)) + Count(x, Left(q, mode)) = Count(x, q)
<1>0. Count(x, q) \in Nat
  BY CountNat
<1>1. CASE mode = "all" \/ q = << >>
  <2>1. Drained(q, mode) = q /\ Left(q, mode) = << >>
    BY <1>1 DEF Drained, Left
  <2> QED BY <1>0, <2>1, CountEmpty
<1>2. CASE ~(mode = "all" \/ q = << >>)
  <2>1. Drained(q, mode) = <<Head(q)>> /\ Left(q, mode) = Tail(q)
    BY <1>2 DEF Drained, Left
  <2>2. Head(q) \in S /\ Tail(q) \in Seq(S) /\ <<Head(q)>> \in Seq(S)
    BY <1>2
  <2>3. Count(x, <<Head(q)>>) = Once(Head(q) = x)
    BY CountOne
  <2>4. Count(x, q) = Once(Head(q) = x) + Count(x, Tail(q))
    BY <1>2, CountTail
  <2> QED BY <2>1, <2>2, <2>3, <2>4
<1> QED BY <1>1, <1>2

-----------------------------------------------------------------------------
(***************************************************************************)
(* t ends with s.                                                          *)
(***************************************************************************)
EndsWith(s, t) ==
    Len(s) <= Len(t) /\ \A i \in 1..Len(s) : s[i] = t[Len(t) - Len(s) + i]

LEMMA EndsWithIsSuffix ==
    ASSUME NEW S, NEW s \in Seq(S), NEW t \in Seq(S), EndsWith(s, t)
    PROVE  IsSuffix(s, t)
<1>1. Len(s) \in Nat /\ Len(t) \in Nat /\ Len(s) <= Len(t)
  BY DEF EndsWith
<1>2. /\ Reverse(s) \in Seq(S) /\ Len(Reverse(s)) = Len(s)
      /\ Reverse(t) \in Seq(S) /\ Len(Reverse(t)) = Len(t)
  BY <1>1 DEF Reverse
<1>3. \A i \in 1..Len(s) : Reverse(s)[i] = Reverse(t)[i]
  BY <1>1 DEF Reverse, EndsWith
<1> DEFINE a == SubSeq(Reverse(s), 1, Len(s))
           b == SubSeq(Reverse(t), 1, Len(s))
<1>4. /\ a \in Seq(S) /\ Len(a) = Len(s)
      /\ b \in Seq(S) /\ Len(b) = Len(s)
      /\ \A i \in 1..Len(s) : a[i] = Reverse(s)[i] /\ b[i] = Reverse(t)[i]
  BY <1>1, <1>2
<1>5. a = b
  BY <1>3, <1>4, SeqEqual
<1> QED BY <1>1, <1>2, <1>5 DEF IsSuffix, IsPrefix

LEMMA EndsWithAppend ==
    ASSUME NEW S, NEW s \in Seq(S), NEW t \in Seq(S), NEW e, EndsWith(s, t)
    PROVE  EndsWith(Append(s, e), Append(t, e))
<1> DEFINE a == Append(s, e)
           b == Append(t, e)
<1>1. /\ Len(s) \in Nat /\ Len(t) \in Nat
      /\ Len(a) = Len(s) + 1 /\ Len(b) = Len(t) + 1
      /\ \A i \in 1..Len(s) : a[i] = s[i]
      /\ \A i \in 1..Len(t) : b[i] = t[i]
      /\ a[Len(s) + 1] = e /\ b[Len(t) + 1] = e
  OBVIOUS
<1> HIDE DEF a, b
<1>2. Len(a) <= Len(b)
  BY <1>1 DEF EndsWith
<1>3. ASSUME NEW i \in 1..Len(a) PROVE a[i] = b[Len(b) - Len(a) + i]
  <2>1. CASE i \in 1..Len(s)
    <3>1. s[i] = t[Len(t) - Len(s) + i] /\ Len(t) - Len(s) + i \in 1..Len(t)
      BY <2>1, <1>1 DEF EndsWith
    <3>2. Len(b) - Len(a) + i = Len(t) - Len(s) + i
      BY <2>1, <1>1
    <3> QED BY <3>1, <3>2, <2>1, <1>1
  <2>2. CASE i = Len(s) + 1
    BY <2>2, <1>1
  <2> QED BY <2>1, <2>2, <1>1
<1>4. EndsWith(a, b)
  BY <1>2, <1>3 DEF EndsWith
<1> QED BY <1>4 DEF a, b

LEMMA EndsWithPart ==
    ASSUME NEW S, NEW s \in Seq(S), NEW p \in Seq(S), NEW t \in Seq(S),
           EndsWith(s \o p, t)
    PROVE  EndsWith(p, t)
<1> DEFINE a == s \o p
<1>1. /\ Len(s) \in Nat /\ Len(p) \in Nat /\ Len(t) \in Nat
      /\ Len(a) = Len(s) + Len(p)
      /\ \A i \in 1..Len(p) : a[Len(s) + i] = p[i]
  OBVIOUS
<1>2. EndsWith(a, t)
  OBVIOUS
<1> HIDE DEF a
<1>3. ASSUME NEW i \in 1..Len(p) PROVE p[i] = t[Len(t) - Len(p) + i]
  <2>1. Len(s) + i \in 1..Len(a) /\ a[Len(s) + i] = p[i]
    BY <1>1
  <2>2. a[Len(s) + i] = t[Len(t) - Len(a) + (Len(s) + i)]
    BY <2>1, <1>2 DEF EndsWith
  <2>3. Len(t) - Len(a) + (Len(s) + i) = Len(t) - Len(p) + i
    BY <1>1
  <2> QED BY <2>1, <2>2, <2>3
<1>4. Len(p) <= Len(t)
  BY <1>1, <1>2 DEF EndsWith
<1> QED BY <1>3, <1>4 DEF EndsWith

LEMMA EndsWithNothing ==
    ASSUME NEW S, NEW t \in Seq(S)
    PROVE  EndsWith(<< >>, t) /\ EndsWith(t, t)
BY DEF EndsWith

-----------------------------------------------------------------------------
(***************************************************************************)
(* The batch of the turn.  Outside of executeToolCalls, and until a failed *)
(* run has been unwound, there is none; the application may abort also a   *)
(* batch that is done.                                                     *)
(***************************************************************************)
BatchOfTurn == BatchInv /\ (pc \notin {"tools", "failure"} => stage = "idle")

LEMMA ForgetsBatch ==
    ASSUME ForgetBatch, aborted' \in BOOLEAN
    PROVE  BatchInv' /\ stage' = "idle" /\ emitted' = << >>
<1> USE MaxCallsAssumption DEF ForgetBatch, Calls, Stage, Status
<1>1. sequential' \in BOOLEAN /\ terminate' \in BOOLEAN
  OBVIOUS
<1>2. plan' \in Plans(size') /\ emitted' \in Seq(1..size')
  BY DEF Plans
<1>3. BatchTypeOK'
  BY <1>1, <1>2 DEF BatchTypeOK
<1>4. Frontier' /\ Answered' /\ EarlierGroupsOut' /\ StageOK'
  BY DEF Frontier, Answered, EarlierGroupsOut, StageOK
<1> QED BY <1>3, <1>4 DEF BatchInv

LEMMA BatchOutlivesAbort ==
    ASSUME BatchInv, UNCHANGED batchVars, aborted' \in BOOLEAN,
           aborted' = aborted \/ aborted' = TRUE
    PROVE  BatchInv'
<1>1. BatchTypeOK'
  BY DEF BatchInv, BatchTypeOK, batchVars, Calls, Plans
<1>2. Frontier' /\ Answered' /\ EarlierGroupsOut'
  BY DEF BatchInv, Frontier, Answered, EarlierGroupsOut, batchVars, Calls
<1>3. StageOK'
  BY DEF BatchInv, StageOK, batchVars, Calls
<1> QED BY <1>1, <1>2, <1>3 DEF BatchInv

(* What a step of the loop makes of the batch.                             *)
LEMMA ToolStepKeepsBatch ==
    ASSUME BatchInv, ToolStep \/ ThrowInTools
    PROVE  /\ BatchInv'
           /\ turn' = turn
           /\ \/ emitted' = emitted /\ transcript' = transcript
              \/ /\ emitted' = Append(emitted, cursor)
                 /\ transcript' = Append(transcript, ToolResult(turn, cursor))
<1>1. BatchProgress \/ Throw
  BY DEF ToolStep, ThrowInTools, BatchProgress
<1>2. BatchInv'
  BY <1>1, BatchStepInv DEF BatchNext
<1>3. emitted' = emitted \/ emitted' = Append(emitted, cursor)
  BY <1>1 DEF BatchProgress, Throw, PrepareImmediate, PrepareRunnable, StartNextCall,
     RunGroup, FinishTool, EmitResult, NextGroup, FinishBatch, OrphanEnds,
     ThrowInPreparation, ThrowAtToolEnd, ThrowAtResult, BatchInv, BatchTypeOK
<1>4. emitted \in Seq(Calls)
  BY DEF BatchInv, BatchTypeOK
<1>5. emitted' = Append(emitted, cursor) => emitted' # emitted /\ Last(emitted') = cursor
  <2>1. /\ Len(Append(emitted, cursor)) = Len(emitted) + 1 /\ Len(emitted) \in Nat
        /\ Append(emitted, cursor)[Len(emitted) + 1] = cursor
    BY <1>4
  <2> QED BY <2>1 DEF Last
<1>6. ReduceToolEvents /\ turn' = turn
  BY DEF ToolStep, ThrowInTools, loopVars
<1> QED BY <1>2, <1>3, <1>5, <1>6 DEF ReduceToolEvents

LEMMA BatchOfTurnInit == Init => BatchOfTurn
BY BatchInitInv DEF Init, OneBatchInit, BatchInit, BatchOfTurn

LEMMA BatchOfTurnStep == ASSUME BatchOfTurn, [Next]_vars PROVE BatchOfTurn'
<1> USE DEF BatchOfTurn
<1>0. aborted \in BOOLEAN
  BY DEF BatchInv, BatchTypeOK
<1>1. ASSUME UNCHANGED <<batchVars, aborted>>,
             \/ pc \notin {"tools", "failure"} \/ pc' = pc
      PROVE  BatchOfTurn'
  <2>1. BatchInv'
    BY <1>0, <1>1, BatchOutlivesAbort
  <2> QED BY <1>1, <2>1 DEF batchVars
<1>2. CASE ToolStep \/ ThrowInTools
  <2>1. pc = "tools" /\ pc' \in {"tools", "failure"}
    BY <1>2 DEF ToolStep, ThrowInTools, Unwind, loopVars
  <2> QED BY <2>1, <1>2, ToolStepKeepsBatch
<1>3. CASE ToolsDone
  <2>1. ForgetBatch /\ aborted' = aborted
    BY <1>3 DEF ToolsDone
  <2> QED BY <2>1, <1>0, ForgetsBatch
<1>4. ASSUME AgentEnd \/ \E arrived \in BOOLEAN : HandleRunFailure(arrived)
      PROVE  BatchOfTurn'
  <2>1. ForgetBatch /\ aborted' = FALSE
    BY <1>4 DEF AgentEnd, HandleRunFailure, FinishRun
  <2> QED BY <2>1, ForgetsBatch
<1>5. ASSUME NEW n \in 1..MaxCalls, NEW seq \in BOOLEAN, NEW g \in Plans(n),
             AnswerToolCalls(n, g, seq)
      PROVE  BatchOfTurn'
  <2>1. pc = "stream" /\ pc' = "tools" /\ BeginBatch(n, g, seq) /\ UNCHANGED aborted
    BY <1>5 DEF AnswerToolCalls, AnswerWith
  <2>2. stage = "idle"
    BY <2>1
  <2>3. Begin
    BY <2>1, <2>2 DEF Begin
  <2> QED BY <2>1, <2>3, BatchStepInv DEF BatchNext
<1>6. CASE AbortRun
  <2>1. UNCHANGED batchVars /\ aborted' = TRUE /\ UNCHANGED pc
    BY <1>6 DEF AbortRun, loopVars
  <2>2. BatchInv'
    BY <2>1, BatchOutlivesAbort
  <2> QED BY <2>1, <2>2 DEF batchVars
<1>7. ASSUME \/ AnnouncePrompt \/ InitialSteeringPoll \/ InjectMessage \/ RequestResponse
             \/ AnswerText \/ AnswerErrorOrAborted
             \/ StopAfterTurn \/ PollSteering \/ PollFollowUps
      PROVE  BatchOfTurn'
  BY <1>1, <1>7 DEF AnnouncePrompt, InitialSteeringPoll, InjectMessage, RequestResponse,
     AnswerText, AnswerErrorOrAborted, AnswerWith, StopAfterTurn, PollSteering,
     PollFollowUps
<1>8. ASSUME \/ \E arrived \in BOOLEAN : ThrowAtMessage(arrived) \/ ThrowInStream(arrived)
             \/ ThrowAtTurnOrAgentEnd
      PROVE  BatchOfTurn'
  BY <1>1, <1>8 DEF ThrowAtMessage, ThrowInStream, ThrowAtTurnOrAgentEnd
<1>9. ASSUME \/ Prompt \/ ContinueWithSteering \/ ContinueWithFollowUps
             \/ ContinueTranscript
      PROVE  BatchOfTurn'
  BY <1>1, <1>9 DEF Prompt, ContinueWithSteering, ContinueWithFollowUps,
     ContinueTranscript, StartRun, Active
<1>10. ASSUME \/ Steer \/ FollowUp \/ Reset
              \/ \E s, f \in BOOLEAN : ClearQueues(s, f)
              \/ \E mode \in Modes : SetSteeringMode(mode) \/ SetFollowUpMode(mode)
              \/ OrphanStep \/ UNCHANGED vars
       PROVE  BatchOfTurn'
  BY <1>1, <1>10 DEF Steer, FollowUp, Reset, ClearQueues, SetSteeringMode,
     SetFollowUpMode, OrphanStep, OrphanToolEnds, loopVars, vars
<1> QED BY <1>2, <1>3, <1>4, <1>5, <1>6, <1>7, <1>8, <1>9, <1>10
        DEF Next, LoopStep, ThrowStep, ApplicationCall

-----------------------------------------------------------------------------
(***************************************************************************)
(* Types, and where messages are pending: only while they are announced or *)
(* injected.                                                               *)
(***************************************************************************)
AgentTypeOK ==
    /\ transcript \in Seq(Entries) /\ context \in Seq(Entries)
    /\ steeringQueue \in Seq(UserMessages) /\ followUpQueue \in Seq(UserMessages)
    /\ pending \in Seq(UserMessages)
    /\ turn \in Nat
    /\ submitted \in 0..MaxMessages
    /\ pc \notin {"prompts", "inject"} => pending = << >>

LEMMA EntryTypes ==
    /\ UserMessages \subseteq Entries
    /\ \A k \in Nat, n \in 0..MaxCalls : Assistant(k, n) \in Entries
    /\ \A k \in Nat, i \in 1..MaxCalls : ToolResult(k, i) \in Entries
BY DEF Entries, Assistant, ToolResult

LEMMA NewMessageType ==
    ASSUME AgentTypeOK, submitted < MaxMessages, NEW kind \in Kinds
    PROVE  NewMessage(kind) \in UserMessages
BY BoundsAssumption DEF AgentTypeOK, NewMessage, UserMessages

LEMMA AgentTypeInit == Init => AgentTypeOK
BY BoundsAssumption DEF Init, AgentTypeOK

LEMMA StartRunType ==
    ASSUME AgentTypeOK, NEW prompts \in Seq(UserMessages), NEW skip,
           StartRun(prompts, skip),
           steeringQueue' \in Seq(UserMessages), followUpQueue' \in Seq(UserMessages),
           submitted' \in 0..MaxMessages
    PROVE  AgentTypeOK'
<1>1. prompts \in Seq(Entries)
  BY EntryTypes, SeqMonotonic
<1>2. transcript \o prompts \in Seq(Entries)
  BY <1>1 DEF AgentTypeOK
<1> QED BY <1>2 DEF StartRun, AgentTypeOK

LEMMA AgentTypeStep == ASSUME AgentTypeOK, BatchOfTurn, [Next]_vars PROVE AgentTypeOK'
<1> USE DEF AgentTypeOK
<1>1. /\ Drained(steeringQueue, steeringMode) \in Seq(UserMessages)
      /\ Left(steeringQueue, steeringMode) \in Seq(UserMessages)
      /\ Drained(followUpQueue, followUpMode) \in Seq(UserMessages)
      /\ Left(followUpQueue, followUpMode) \in Seq(UserMessages)
  BY Drain
<1>2. pending # << >> => /\ Head(pending) \in Entries /\ Tail(pending) \in Seq(UserMessages)
                         /\ Append(transcript, Head(pending)) \in Seq(Entries)
                         /\ Append(context, Head(pending)) \in Seq(Entries)
  BY EntryTypes
<1>3. ASSUME NEW n \in 0..MaxCalls
      PROVE  /\ Append(transcript, Assistant(turn + 1, n)) \in Seq(Entries)
             /\ Append(context, Assistant(turn + 1, n)) \in Seq(Entries)
  <2>1. Assistant(turn + 1, n) \in Entries
    BY EntryTypes
  <2> QED BY <2>1
<1>4. /\ Append(transcript, Assistant(turn + 1, 0)) \in Seq(Entries)
      /\ Append(context, Assistant(turn + 1, 0)) \in Seq(Entries)
      /\ turn + 1 \in Nat
  <2>1. 0 \in 0..MaxCalls
    BY MaxCallsAssumption
  <2> QED BY <2>1, <1>3
<1>5. submitted < MaxMessages => submitted + 1 \in 0..MaxMessages
  BY BoundsAssumption
<1>6. CASE AnnouncePrompt \/ InjectMessage
  BY <1>2, <1>6 DEF AnnouncePrompt, InjectMessage, queueVars
<1>7. CASE InitialSteeringPoll
  BY <1>1, <1>7 DEF InitialSteeringPoll, stateVars
<1>8. CASE RequestResponse \/ StopAfterTurn
  BY <1>8 DEF RequestResponse, StopAfterTurn, queueVars, stateVars
<1>9. CASE AnswerText \/ AnswerErrorOrAborted
  BY <1>4, <1>9 DEF AnswerText, AnswerErrorOrAborted, AnswerWith, queueVars
<1>10. ASSUME NEW n \in 1..MaxCalls, NEW seq \in BOOLEAN, NEW g \in Plans(n),
              AnswerToolCalls(n, g, seq)
       PROVE  AgentTypeOK'
  BY <1>3, <1>10 DEF AnswerToolCalls, AnswerWith, queueVars
<1>11. ASSUME ToolStep \/ ThrowInTools
       PROVE  AgentTypeOK'
  <2>1. transcript' \in Seq(Entries) /\ turn' = turn
    <3>1. cursor \in Nat /\ (emitted' = Append(emitted, cursor) => cursor \in 1..MaxCalls)
      <4>1. BatchInv /\ BatchInv'
        BY <1>11, ToolStepKeepsBatch DEF BatchOfTurn
      <4>2. /\ emitted \in Seq(Calls) /\ emitted' \in Seq(Calls') /\ cursor \in Nat
            /\ size' \in 1..MaxCalls
        BY <4>1 DEF BatchInv, BatchTypeOK
      <4>3. ASSUME emitted' = Append(emitted, cursor) PROVE cursor \in 1..MaxCalls
        <5>1. /\ Len(emitted') = Len(emitted) + 1 /\ Len(emitted) \in Nat
              /\ emitted'[Len(emitted) + 1] = cursor
          BY <4>2, <4>3
        <5>2. cursor \in Calls'
          BY <5>1, <4>2, ElementOfSeq
        <5> QED BY <5>2, <4>2, MaxCallsAssumption DEF Calls
      <4> QED BY <4>2, <4>3
    <3>2. CASE emitted' = Append(emitted, cursor)
      <4>1. ToolResult(turn, cursor) \in Entries
        BY <3>1, <3>2, EntryTypes
      <4>2. Append(transcript, ToolResult(turn, cursor)) \in Seq(Entries)
        BY <4>1
      <4> QED BY <4>2, <1>11, ToolStepKeepsBatch DEF BatchOfTurn
    <3>3. CASE emitted' # Append(emitted, cursor)
      BY <3>3, <1>11, ToolStepKeepsBatch DEF BatchOfTurn
    <3> QED BY <3>2, <3>3
  <2> QED BY <2>1, <1>11 DEF ToolStep, ThrowInTools, Unwind, queueVars, loopVars
<1>12. CASE ToolsDone
  <2> DEFINE R == [k \in 1..Len(emitted) |-> ToolResult(turn, emitted[k])]
  <2>1. R \in Seq(Entries)
    <3>1. emitted \in Seq(Calls) /\ size \in 1..MaxCalls /\ Len(emitted) \in Nat
      BY DEF BatchOfTurn, BatchInv, BatchTypeOK
    <3>2. \A k \in 1..Len(emitted) : ToolResult(turn, emitted[k]) \in Entries
      <4>1. \A k \in 1..Len(emitted) : emitted[k] \in 1..MaxCalls
        BY <3>1, ElementOfSeq, MaxCallsAssumption DEF Calls
      <4> QED BY <4>1, EntryTypes
    <3> QED BY <3>1, <3>2
  <2>2. context \o R \in Seq(Entries)
    BY <2>1
  <2> QED BY <2>2, <1>12 DEF ToolsDone, queueVars, stateVars
<1>13. CASE PollSteering \/ PollFollowUps
  BY <1>1, <1>13 DEF PollSteering, PollFollowUps, stateVars
<1>14. ASSUME AgentEnd \/ \E arrived \in BOOLEAN : HandleRunFailure(arrived)
       PROVE  AgentTypeOK'
  <2>1. /\ pc' = "idle" /\ pending' = << >> /\ context' = << >>
        /\ UNCHANGED <<steeringQueue, followUpQueue, submitted>>
    BY <1>14 DEF AgentEnd, HandleRunFailure, FinishRun, queueVars
  <2>2. transcript' \in Seq(Entries) /\ turn' \in Nat
    BY <1>4, <1>14 DEF AgentEnd, HandleRunFailure
  <2> QED BY <2>1, <2>2
<1>15. ASSUME \/ \E arrived \in BOOLEAN : ThrowAtMessage(arrived) \/ ThrowInStream(arrived)
              \/ ThrowAtTurnOrAgentEnd
       PROVE  AgentTypeOK'
  <2>1. /\ pc' = "failure" /\ pending' = << >> /\ context' = << >>
        /\ UNCHANGED <<steeringQueue, followUpQueue, submitted>>
    BY <1>15 DEF ThrowAtMessage, ThrowInStream, ThrowAtTurnOrAgentEnd, Unwind, queueVars
  <2>2. transcript' \in Seq(Entries) /\ turn' \in Nat
    BY <1>2, <1>4, <1>15 DEF ThrowAtMessage, ThrowInStream, ThrowAtTurnOrAgentEnd
  <2> QED BY <2>1, <2>2
<1>16. CASE Prompt
  <2>1. NewMessage("prompt") \in UserMessages
    BY <1>16, NewMessageType DEF Prompt, Kinds
  <2>2. <<NewMessage("prompt")>> \in Seq(UserMessages)
    BY <2>1
  <2> QED BY <2>2, <1>5, <1>16, StartRunType DEF Prompt
<1>17. CASE ContinueWithSteering \/ ContinueWithFollowUps \/ ContinueTranscript
  <2>1. << >> \in Seq(UserMessages)
    OBVIOUS
  <2> QED BY <2>1, <1>1, <1>17, StartRunType
          DEF ContinueWithSteering, ContinueWithFollowUps, ContinueTranscript
<1>18. CASE Steer \/ FollowUp
  <2>1. \A kind \in Kinds : NewMessage(kind) \in UserMessages
    BY <1>18, NewMessageType DEF Steer, FollowUp
  <2>2. /\ Append(steeringQueue, NewMessage("steer")) \in Seq(UserMessages)
        /\ Append(followUpQueue, NewMessage("followUp")) \in Seq(UserMessages)
    BY <2>1 DEF Kinds
  <2> QED BY <2>2, <1>5, <1>18 DEF Steer, FollowUp, loopVars, stateVars
<1>19. ASSUME \/ AbortRun \/ Reset
              \/ \E s, f \in BOOLEAN : ClearQueues(s, f)
              \/ \E mode \in Modes : SetSteeringMode(mode) \/ SetFollowUpMode(mode)
              \/ OrphanStep \/ UNCHANGED vars
       PROVE  AgentTypeOK'
  <2>1. CASE \E s, f \in BOOLEAN : ClearQueues(s, f)
    BY <2>1 DEF ClearQueues, loopVars, stateVars
  <2>2. CASE Reset
    BY <2>2 DEF Reset, loopVars
  <2> QED BY <2>1, <2>2, <1>19 DEF AbortRun, SetSteeringMode, SetFollowUpMode,
     OrphanStep, OrphanToolEnds, queueVars, loopVars, stateVars, vars
<1> QED BY <1>6, <1>7, <1>8, <1>9, <1>10, <1>11, <1>12, <1>13, <1>14, <1>15, <1>16,
           <1>17, <1>18, <1>19
        DEF Next, LoopStep, ThrowStep, ApplicationCall

-----------------------------------------------------------------------------
(***************************************************************************)
(* Messages are conserved.  A submitted message is in one place, a message *)
(* still to be submitted in none.                                          *)
(***************************************************************************)
UserMessage(kind, id) == [role |-> "user", kind |-> kind, id |-> id]

ConservedInv ==
    \A id \in 1..MaxMessages :
        IF id <= submitted
          THEN \E kind \in Kinds : Places(UserMessage(kind, id)) = 1
          ELSE \A kind \in Kinds : Places(UserMessage(kind, id)) = 0

LEMMA PlacesAreCounts ==
    ASSUME NEW m
    PROVE  Places(m) = Count(m, steeringQueue) + Count(m, followUpQueue)
                       + Count(m, pending) + Count(m, transcript) + Once(m \in gone)
BY DEF Places, Count, Found, Once

(* Steps that submit nothing leave each message in its place, or take it to *)
(* the next one.                                                            *)
LEMMA LoopKeepsPlaces ==
    ASSUME AgentTypeOK, AgentTypeOK', BatchOfTurn,
           NEW m \in UserMessages, LoopStep
    PROVE  Places(m)' = Places(m)
<1> DEFINE s == Count(m, steeringQueue)
           f == Count(m, followUpQueue)
           p == Count(m, pending)
           t == Count(m, transcript)
           g == Once(m \in gone)
           s1 == Count(m, steeringQueue')
           f1 == Count(m, followUpQueue')
           p1 == Count(m, pending')
           t1 == Count(m, transcript')
           g1 == Once(m \in gone')
<1>1. Places(m) = s + f + p + t + g
  BY PlacesAreCounts
<1>2. Places(m)' = s1 + f1 + p1 + t1 + g1
  BY DEF Places, Count, Found, Once
<1>3. s \in Nat /\ f \in Nat /\ p \in Nat /\ t \in Nat /\ g \in {0, 1}
  <2>1. s \in Nat /\ f \in Nat /\ p \in Nat /\ t \in Nat
    BY CountNat DEF AgentTypeOK
  <2>2. g \in {0, 1}
    BY DEF Once
  <2> QED BY <2>1, <2>2
<1>4. s1 \in Nat /\ f1 \in Nat /\ p1 \in Nat /\ t1 \in Nat
  BY CountNat DEF AgentTypeOK
<1>5. ASSUME NEW e, e.role # "user", transcript' = Append(transcript, e)
      PROVE  t1 = t
  <2>1. e # m
    BY <1>5 DEF UserMessages
  <2>2. Count(m, Append(transcript, e)) = t + Once(e = m)
    BY CountAppend DEF AgentTypeOK
  <2> QED BY <2>1, <2>2, <1>3, <1>5 DEF Once
<1>6. /\ \A k, n : Assistant(k, n).role # "user"
      /\ \A k, i : ToolResult(k, i).role # "user"
  BY DEF Assistant, ToolResult
<1>7. pending = << >> => p = 0
  BY CountEmpty
<1>8. pending' = << >> => p1 = 0
  BY CountEmpty
<1>9. steeringQueue' = steeringQueue => s1 = s
  OBVIOUS
<1>10. followUpQueue' = followUpQueue => f1 = f
  OBVIOUS
<1>11. pending' = pending => p1 = p
  OBVIOUS
<1>12. transcript' = transcript => t1 = t
  OBVIOUS
<1>13. gone' = gone => g1 = g
  OBVIOUS
<1>14. pc \notin {"prompts", "inject"} => p = 0
  BY <1>7 DEF AgentTypeOK
<1>15. /\ Count(m, Drained(steeringQueue, steeringMode))
            + Count(m, Left(steeringQueue, steeringMode)) = s
       /\ Count(m, Drained(followUpQueue, followUpMode))
            + Count(m, Left(followUpQueue, followUpMode)) = f
  BY Drain DEF AgentTypeOK
<1>16. ASSUME pending # << >>
       PROVE  \E h \in {0, 1} : /\ p = h + Count(m, Tail(pending))
                                /\ Count(m, Append(transcript, Head(pending))) = t + h
  <2>1. p = Once(Head(pending) = m) + Count(m, Tail(pending))
    BY <1>16, CountTail DEF AgentTypeOK
  <2>2. Count(m, Append(transcript, Head(pending))) = t + Once(Head(pending) = m)
    BY CountAppend DEF AgentTypeOK
  <2>3. Once(Head(pending) = m) \in {0, 1}
    BY DEF Once
  <2> HIDE DEF p, t
  <2> QED BY <2>1, <2>2, <2>3
<1> HIDE DEF s, f, p, t, g, s1, f1, p1, t1, g1
<1> SUFFICES s1 + f1 + p1 + t1 + g1 = s + f + p + t + g
  BY <1>1, <1>2
<1>20. CASE AnnouncePrompt \/ InjectMessage
  <2>1. /\ pending # << >> /\ transcript' = Append(transcript, Head(pending))
        /\ pending' = Tail(pending) /\ UNCHANGED <<steeringQueue, followUpQueue, gone>>
    BY <1>20 DEF AnnouncePrompt, InjectMessage, queueVars
  <2>2. \E h \in {0, 1} : p = h + p1 /\ t1 = t + h
    BY <2>1, <1>16 DEF t1, p1
  <2> QED BY <2>1, <2>2, <1>3, <1>4, <1>9, <1>10, <1>13
<1>21. CASE InitialSteeringPoll
  <2>1. /\ pending = << >> /\ UNCHANGED <<followUpQueue, transcript, gone>>
        /\ \/ UNCHANGED <<pending, steeringQueue>>
           \/ /\ pending' = Drained(steeringQueue, steeringMode)
              /\ steeringQueue' = Left(steeringQueue, steeringMode)
    BY <1>21 DEF InitialSteeringPoll, stateVars
  <2>2. p1 + s1 = p + s
    BY <2>1, <1>3, <1>4, <1>7, <1>9, <1>11, <1>15 DEF p1, s1
  <2> QED BY <2>1, <2>2, <1>3, <1>4, <1>10, <1>12, <1>13
<1>22. CASE RequestResponse \/ StopAfterTurn \/ ToolsDone
  <2>1. UNCHANGED <<steeringQueue, followUpQueue, pending, transcript, gone>>
    BY <1>22 DEF RequestResponse, StopAfterTurn, ToolsDone, queueVars, stateVars
  <2> QED BY <2>1, <1>9, <1>10, <1>11, <1>12, <1>13
<1>23. ASSUME \/ AnswerText \/ AnswerErrorOrAborted
              \/ \E n \in 1..MaxCalls, seq \in BOOLEAN :
                    \E h \in Plans(n) : AnswerToolCalls(n, h, seq)
       PROVE  s1 + f1 + p1 + t1 + g1 = s + f + p + t + g
  <2>1. /\ UNCHANGED <<steeringQueue, followUpQueue, pending, gone>>
        /\ \E n : transcript' = Append(transcript, Assistant(turn + 1, n))
    BY <1>23 DEF AnswerText, AnswerErrorOrAborted, AnswerToolCalls, AnswerWith, queueVars
  <2>2. t1 = t
    BY <2>1, <1>5, <1>6
  <2> QED BY <2>1, <2>2, <1>9, <1>10, <1>11, <1>13
<1>24. CASE ToolStep
  <2>1. UNCHANGED <<steeringQueue, followUpQueue, pending, gone>>
    BY <1>24 DEF ToolStep, queueVars, loopVars
  <2>2. t1 = t
    BY <1>5, <1>6, <1>12, <1>24, ToolStepKeepsBatch DEF BatchOfTurn
  <2> QED BY <2>1, <2>2, <1>9, <1>10, <1>11, <1>13
<1>25. CASE PollSteering
  <2>1. /\ pc = "turnEnd" /\ UNCHANGED <<followUpQueue, transcript, gone>>
        /\ pending' = Drained(steeringQueue, steeringMode)
        /\ steeringQueue' = Left(steeringQueue, steeringMode)
    BY <1>25 DEF PollSteering, stateVars
  <2>2. p1 + s1 = p + s
    BY <2>1, <1>3, <1>4, <1>14, <1>15 DEF p1, s1
  <2> QED BY <2>1, <2>2, <1>3, <1>4, <1>10, <1>12, <1>13
<1>26. CASE PollFollowUps
  <2>1. /\ pc = "followUps" /\ UNCHANGED <<steeringQueue, transcript, gone>>
        /\ pending' = Drained(followUpQueue, followUpMode)
        /\ followUpQueue' = Left(followUpQueue, followUpMode)
    BY <1>26 DEF PollFollowUps, stateVars
  <2>2. p1 + f1 = p + f
    BY <2>1, <1>3, <1>4, <1>14, <1>15 DEF p1, f1
  <2> QED BY <2>1, <2>2, <1>3, <1>4, <1>9, <1>12, <1>13
<1>27. ASSUME AgentEnd \/ \E arrived \in BOOLEAN : HandleRunFailure(arrived)
       PROVE  s1 + f1 + p1 + t1 + g1 = s + f + p + t + g
  <2>1. /\ pc \in {"agentEnd", "failure"} /\ pending' = << >>
        /\ UNCHANGED <<steeringQueue, followUpQueue, gone>>
        /\ \/ transcript' = transcript
           \/ transcript' = Append(transcript, Assistant(turn + 1, 0))
    BY <1>27 DEF AgentEnd, HandleRunFailure, FinishRun, queueVars
  <2>2. t1 = t
    BY <2>1, <1>5, <1>6, <1>12
  <2>3. p = 0 /\ p1 = 0
    BY <2>1, <1>8, <1>14
  <2> QED BY <2>1, <2>2, <2>3, <1>9, <1>10, <1>13
<1> QED BY <1>20, <1>21, <1>22, <1>23, <1>24, <1>25, <1>26, <1>27 DEF LoopStep

(* A run that fails takes what it held in flight with it, once.            *)
LEMMA ThrowKeepsPlaces ==
    ASSUME AgentTypeOK, AgentTypeOK', BatchOfTurn,
           NEW m \in UserMessages, ThrowStep, Places(m) \in {0, 1}
    PROVE  Places(m)' = Places(m)
<1> DEFINE s == Count(m, steeringQueue)
           f == Count(m, followUpQueue)
           p == Count(m, pending)
           t == Count(m, transcript)
           t1 == Count(m, transcript')
           g == Once(m \in gone)
           g1 == Once(m \in gone')
<1>1. Places(m) = s + f + p + t + g
  BY PlacesAreCounts
<1>2. /\ Unwind /\ UNCHANGED <<steeringQueue, followUpQueue>> /\ pending' = << >>
      /\ gone' = gone \cup (Range(pending) \ Range(transcript'))
  BY DEF ThrowStep, ThrowAtMessage, ThrowInStream, ThrowInTools, ThrowAtTurnOrAgentEnd,
         Unwind, queueVars
<1>3. Places(m)' = s + f + 0 + t1 + g1
  <2>1. Places(m)' = Count(m, steeringQueue') + Count(m, followUpQueue')
                     + Count(m, pending') + t1 + g1
    BY DEF Places, Count, Found, Once
  <2> QED BY <2>1, <1>2, CountEmpty
<1>4. s \in Nat /\ f \in Nat /\ p \in Nat /\ t \in Nat /\ t1 \in Nat
  BY CountNat DEF AgentTypeOK
<1>5. /\ g \in {0, 1} /\ (g = 1 <=> m \in gone)
      /\ g1 \in {0, 1} /\ (g1 = 1 <=> m \in gone')
  BY DEF Once
<1>6. /\ m \in Range(pending) <=> p # 0
      /\ m \in Range(transcript') <=> t1 # 0
  BY CountRange DEF AgentTypeOK
<1>7. ASSUME NEW e, e.role # "user", transcript' = Append(transcript, e)
      PROVE  t1 = t
  <2>1. e # m
    BY <1>7 DEF UserMessages
  <2>2. Count(m, Append(transcript, e)) = t + Once(e = m)
    BY CountAppend DEF AgentTypeOK
  <2> QED BY <2>1, <2>2, <1>4, <1>7 DEF Once
<1>8. /\ \A k, n : Assistant(k, n).role # "user"
      /\ \A k, i : ToolResult(k, i).role # "user"
  BY DEF Assistant, ToolResult
<1>9. transcript' = transcript => t1 = t
  OBVIOUS
<1>10. ASSUME pending # << >>, transcript' = Append(transcript, Head(pending))
       PROVE  \E h \in {0, 1} : h <= p /\ t1 = t + h
  <2> DEFINE head == Once(Head(pending) = m)
             r == Count(m, Tail(pending))
  <2>1. p = head + r
    BY <1>10, CountTail DEF AgentTypeOK
  <2>2. t1 = t + head
    BY <1>10, CountAppend DEF AgentTypeOK
  <2>3. head \in {0, 1}
    BY DEF Once
  <2>4. r \in Nat
    <3>1. Tail(pending) \in Seq(UserMessages)
      BY <1>10 DEF AgentTypeOK
    <3> QED BY <3>1, CountNat
  <2> HIDE DEF p, t, t1, head, r
  <2>5. head <= p
    BY <2>1, <2>3, <2>4
  <2> QED BY <2>2, <2>3, <2>5
<1> HIDE DEF s, f, p, t, t1, g, g1
<1>11. \E h \in {0, 1} : h <= p /\ t1 = t + h
  <2>1. CASE \E arrived \in BOOLEAN : ThrowAtMessage(arrived)
    <3>1. \/ transcript' = transcript
          \/ pending # << >> /\ transcript' = Append(transcript, Head(pending))
      BY <2>1 DEF ThrowAtMessage
    <3> QED BY <3>1, <1>4, <1>9, <1>10
  <2>2. CASE \E arrived \in BOOLEAN : ThrowInStream(arrived)
    <3>1. \/ transcript' = transcript
          \/ transcript' = Append(transcript, Assistant(turn + 1, 0))
      BY <2>2 DEF ThrowInStream
    <3>2. t1 = t
      BY <3>1, <1>7, <1>8, <1>9
    <3> QED BY <3>2, <1>4
  <2>3. CASE ThrowInTools
    <3>1. t1 = t
      BY <2>3, <1>7, <1>8, <1>9, ToolStepKeepsBatch DEF BatchOfTurn
    <3> QED BY <3>1, <1>4
  <2>4. CASE ThrowAtTurnOrAgentEnd
    <3>1. t1 = t
      BY <2>4, <1>9 DEF ThrowAtTurnOrAgentEnd
    <3> QED BY <3>1, <1>4
  <2> QED BY <2>1, <2>2, <2>3, <2>4 DEF ThrowStep
<1>12. m \in gone' <=> m \in gone \/ (p # 0 /\ t1 = 0)
  BY <1>2, <1>6
<1> QED BY <1>1, <1>3, <1>4, <1>5, <1>11, <1>12

(* Calls of the application that submit nothing.                           *)
LEMMA CallKeepsPlaces ==
    ASSUME AgentTypeOK, AgentTypeOK', NEW m \in UserMessages, Places(m) \in {0, 1},
           \/ ContinueWithSteering \/ ContinueWithFollowUps \/ ContinueTranscript
           \/ AbortRun \/ Reset
           \/ \E s, f \in BOOLEAN : ClearQueues(s, f)
           \/ \E mode \in Modes : SetSteeringMode(mode) \/ SetFollowUpMode(mode)
           \/ OrphanStep \/ UNCHANGED vars
    PROVE  Places(m)' = Places(m)
<1> DEFINE s == Count(m, steeringQueue)
           f == Count(m, followUpQueue)
           p == Count(m, pending)
           t == Count(m, transcript)
           g == Once(m \in gone)
           s1 == Count(m, steeringQueue')
           f1 == Count(m, followUpQueue')
           p1 == Count(m, pending')
           t1 == Count(m, transcript')
           g1 == Once(m \in gone')
<1>1. Places(m) = s + f + p + t + g
  BY PlacesAreCounts
<1>2. Places(m)' = s1 + f1 + p1 + t1 + g1
  BY DEF Places, Count, Found, Once
<1>3. s \in Nat /\ f \in Nat /\ p \in Nat /\ t \in Nat
  BY CountNat DEF AgentTypeOK
<1>4. s1 \in Nat /\ f1 \in Nat /\ p1 \in Nat /\ t1 \in Nat
  BY CountNat DEF AgentTypeOK
<1>5. /\ g \in {0, 1} /\ (g = 1 <=> m \in gone)
      /\ g1 \in {0, 1} /\ (g1 = 1 <=> m \in gone')
  BY DEF Once
<1>6. /\ m \in Range(steeringQueue) <=> s # 0
      /\ m \in Range(followUpQueue) <=> f # 0
      /\ m \in Range(transcript) <=> t # 0
  BY CountRange DEF AgentTypeOK
<1>7. /\ steeringQueue' = steeringQueue => s1 = s
      /\ followUpQueue' = followUpQueue => f1 = f
      /\ pending' = pending => p1 = p
      /\ transcript' = transcript => t1 = t
      /\ gone' = gone => g1 = g
  OBVIOUS
<1>8. /\ steeringQueue' = << >> => s1 = 0
      /\ followUpQueue' = << >> => f1 = 0
      /\ pending' = << >> => p1 = 0
      /\ transcript' = << >> => t1 = 0
  BY CountEmpty
<1>9. pc = "idle" => p = 0
  BY CountEmpty DEF AgentTypeOK
<1>10. /\ Count(m, Drained(steeringQueue, steeringMode))
            + Count(m, Left(steeringQueue, steeringMode)) = s
       /\ Count(m, Drained(followUpQueue, followUpMode))
            + Count(m, Left(followUpQueue, followUpMode)) = f
  BY Drain DEF AgentTypeOK
<1> HIDE DEF s, f, p, t, g, s1, f1, p1, t1, g1
<1>11. CASE ContinueWithSteering
  <2>1. /\ pc = "idle" /\ UNCHANGED <<followUpQueue, transcript, gone>>
        /\ pending' = Drained(steeringQueue, steeringMode)
        /\ steeringQueue' = Left(steeringQueue, steeringMode)
    BY <1>11 DEF ContinueWithSteering, StartRun, Active
  <2>2. p1 + s1 = p + s
    BY <2>1, <1>3, <1>4, <1>9, <1>10 DEF p1, s1
  <2> QED BY <2>1, <2>2, <1>1, <1>2, <1>3, <1>4, <1>5, <1>7
<1>12. CASE ContinueWithFollowUps
  <2>1. /\ pc = "idle" /\ UNCHANGED <<steeringQueue, transcript, gone>>
        /\ pending' = Drained(followUpQueue, followUpMode)
        /\ followUpQueue' = Left(followUpQueue, followUpMode)
    BY <1>12 DEF ContinueWithFollowUps, StartRun, Active
  <2>2. p1 + f1 = p + f
    BY <2>1, <1>3, <1>4, <1>9, <1>10 DEF p1, f1
  <2> QED BY <2>1, <2>2, <1>1, <1>2, <1>3, <1>4, <1>5, <1>7
<1>13. CASE ContinueTranscript
  <2>1. /\ pc = "idle" /\ UNCHANGED <<steeringQueue, followUpQueue, transcript, gone>>
        /\ pending' = << >>
    BY <1>13 DEF ContinueTranscript, StartRun, Active
  <2> QED BY <2>1, <1>1, <1>2, <1>7, <1>8, <1>9
<1>14. CASE Reset
  <2>1. /\ steeringQueue' = << >> /\ followUpQueue' = << >> /\ transcript' = << >>
        /\ UNCHANGED pending
        /\ gone' = gone \cup UserMessagesIn(transcript) \cup Range(steeringQueue)
                        \cup Range(followUpQueue)
    BY <1>14 DEF Reset, loopVars
  <2>2. m \in UserMessagesIn(transcript) <=> t # 0
    BY <1>6 DEF UserMessagesIn, UserMessages
  <2>3. m \in gone' <=> m \in gone \/ t # 0 \/ s # 0 \/ f # 0
    BY <2>1, <2>2, <1>6
  <2>4. s1 = 0 /\ f1 = 0 /\ t1 = 0 /\ p1 = p
    BY <2>1, <1>7, <1>8
  <2> QED BY <2>3, <2>4, <1>1, <1>2, <1>3, <1>5
<1>15. ASSUME NEW x \in BOOLEAN, NEW y \in BOOLEAN, ClearQueues(x, y)
       PROVE  Places(m)' = Places(m)
  <2>1. /\ s1 = IF x THEN 0 ELSE s
        /\ f1 = IF y THEN 0 ELSE f
        /\ p1 = p /\ t1 = t
    BY <1>15, <1>7, <1>8 DEF ClearQueues, loopVars, stateVars
  <2>2. m \in gone' <=> m \in gone \/ (x /\ s # 0) \/ (y /\ f # 0)
    BY <1>15, <1>6 DEF ClearQueues
  <2> QED BY <2>1, <2>2, <1>1, <1>2, <1>3, <1>5
<1>16. ASSUME \/ AbortRun \/ OrphanStep \/ UNCHANGED vars
              \/ \E mode \in Modes : SetSteeringMode(mode) \/ SetFollowUpMode(mode)
       PROVE  Places(m)' = Places(m)
  <2>1. UNCHANGED <<steeringQueue, followUpQueue, pending, transcript, gone>>
    BY <1>16 DEF AbortRun, OrphanStep, OrphanToolEnds, SetSteeringMode, SetFollowUpMode,
                 queueVars, loopVars, stateVars, vars
  <2> QED BY <2>1, <1>1, <1>2, <1>7
<1> QED BY <1>11, <1>12, <1>13, <1>14, <1>15, <1>16

(* A submitted message gets its first place.                               *)
LEMMA SubmitAddsPlace ==
    ASSUME AgentTypeOK, AgentTypeOK', Prompt \/ Steer \/ FollowUp
    PROVE  \E kind \in Kinds :
               \A m \in UserMessages :
                   Places(m)' = Places(m) + Once(NewMessage(kind) = m)
<1> DEFINE kind == IF Prompt THEN "prompt" ELSE IF Steer THEN "steer" ELSE "followUp"
<1>1. kind \in Kinds
  BY DEF Kinds
<1> SUFFICES ASSUME NEW m \in UserMessages
             PROVE  Places(m)' = Places(m) + Once(NewMessage(kind) = m)
  BY <1>1
<1> DEFINE s == Count(m, steeringQueue)
           f == Count(m, followUpQueue)
           p == Count(m, pending)
           t == Count(m, transcript)
           g == Once(m \in gone)
           n == Once(NewMessage(kind) = m)
           s1 == Count(m, steeringQueue')
           f1 == Count(m, followUpQueue')
           p1 == Count(m, pending')
           t1 == Count(m, transcript')
           g1 == Once(m \in gone')
<1>2. Places(m) = s + f + p + t + g
  BY PlacesAreCounts
<1>3. Places(m)' = s1 + f1 + p1 + t1 + g1
  BY DEF Places, Count, Found, Once
<1>4. s \in Nat /\ f \in Nat /\ p \in Nat /\ t \in Nat
  BY CountNat DEF AgentTypeOK
<1>5. g \in {0, 1} /\ n \in {0, 1}
  BY DEF Once
<1>6. t1 = t /\ g1 = g
  BY DEF Prompt, StartRun, Steer, FollowUp, stateVars
<1>7. CASE Prompt
  <2>1. /\ kind = "prompt" /\ UNCHANGED <<steeringQueue, followUpQueue>>
        /\ pending = << >> /\ pending' = <<NewMessage("prompt")>>
    BY <1>7 DEF Prompt, StartRun, Active, AgentTypeOK
  <2>2. p = 0 /\ p1 = n
    BY <2>1, CountEmpty, CountOne
  <2>3. s1 = s /\ f1 = f
    BY <2>1
  <2> HIDE DEF s, f, p, t, g, n, s1, f1, p1, t1, g1
  <2>4. Places(m)' = Places(m) + n
    BY <2>2, <2>3, <1>2, <1>3, <1>4, <1>5, <1>6
  <2> QED BY <2>4 DEF n
<1>8. CASE ~Prompt /\ Steer
  <2>1. /\ kind = "steer" /\ UNCHANGED <<followUpQueue, pending>>
        /\ steeringQueue' = Append(steeringQueue, NewMessage("steer"))
    BY <1>8 DEF Steer, loopVars
  <2>2. s1 = s + n
    BY <2>1, CountAppend DEF AgentTypeOK
  <2>3. p1 = p /\ f1 = f
    BY <2>1
  <2> HIDE DEF s, f, p, t, g, n, s1, f1, p1, t1, g1
  <2>4. Places(m)' = Places(m) + n
    BY <2>2, <2>3, <1>2, <1>3, <1>4, <1>5, <1>6
  <2> QED BY <2>4 DEF n
<1>9. CASE ~Prompt /\ ~Steer /\ FollowUp
  <2>1. /\ kind = "followUp" /\ UNCHANGED <<steeringQueue, pending>>
        /\ followUpQueue' = Append(followUpQueue, NewMessage("followUp"))
    BY <1>9 DEF FollowUp, loopVars
  <2>2. f1 = f + n
    BY <2>1, CountAppend DEF AgentTypeOK
  <2>3. p1 = p /\ s1 = s
    BY <2>1
  <2> HIDE DEF s, f, p, t, g, n, s1, f1, p1, t1, g1
  <2>4. Places(m)' = Places(m) + n
    BY <2>2, <2>3, <1>2, <1>3, <1>4, <1>5, <1>6
  <2> QED BY <2>4 DEF n
<1> QED BY <1>7, <1>8, <1>9

LEMMA ConservedInit == Init => ConservedInv
<1> SUFFICES ASSUME Init PROVE ConservedInv
  OBVIOUS
<1>1. ASSUME NEW m PROVE Places(m) = 0
  <2>1. Once(m \in gone) = 0
    BY DEF Init, Once
  <2> QED BY <2>1, PlacesAreCounts, CountEmpty DEF Init
<1>2. \A id \in 1..MaxMessages : ~(id <= submitted)
  BY BoundsAssumption DEF Init
<1> QED BY <1>1, <1>2 DEF ConservedInv

LEMMA ConservedStep ==
    ASSUME AgentTypeOK, AgentTypeOK', BatchOfTurn, ConservedInv, [Next]_vars
    PROVE  ConservedInv'
<1>1. \A kind \in Kinds, id \in 1..MaxMessages : UserMessage(kind, id) \in UserMessages
  BY DEF UserMessage, UserMessages
<1>2. CASE Prompt \/ Steer \/ FollowUp
  <2>1. PICK kind \in Kinds : \A m \in UserMessages :
            Places(m)' = Places(m) + Once(NewMessage(kind) = m)
    BY <1>2, SubmitAddsPlace
  <2>2. submitted \in Nat /\ submitted < MaxMessages /\ submitted' = submitted + 1
    <3>1. submitted \in Nat
      BY BoundsAssumption DEF AgentTypeOK
    <3> QED BY <3>1, <1>2 DEF Prompt, Steer, FollowUp
  <2>3. ASSUME NEW k \in Kinds, NEW id \in 1..MaxMessages, id # submitted + 1
        PROVE  Places(UserMessage(k, id)) \in {0, 1} =>
                   Places(UserMessage(k, id))' = Places(UserMessage(k, id))
    <3>1. NewMessage(kind) # UserMessage(k, id)
      BY <2>3 DEF NewMessage, UserMessage
    <3> QED BY <3>1, <2>1, <1>1 DEF Once
  <2>4. ASSUME NEW id \in 1..MaxMessages, id = submitted + 1
        PROVE  Places(UserMessage(kind, id))' = 1
    <3> DEFINE m == UserMessage(kind, id)
    <3>1. Places(m) = 0
      BY <2>2, <2>4 DEF ConservedInv
    <3>2. NewMessage(kind) = m
      BY <2>4 DEF NewMessage, UserMessage
    <3>3. Once(NewMessage(kind) = m) = 1
      BY <3>2 DEF Once
    <3>4. Places(m)' = Places(m) + Once(NewMessage(kind) = m)
      BY <2>1, <1>1
    <3> QED BY <3>1, <3>3, <3>4
  <2>5. ASSUME NEW id \in 1..MaxMessages
        PROVE  IF id <= submitted'
                 THEN \E k \in Kinds : Places(UserMessage(k, id))' = 1
                 ELSE \A k \in Kinds : Places(UserMessage(k, id))' = 0
    <3>1. CASE id <= submitted
      BY <3>1, <2>2, <2>3 DEF ConservedInv
    <3>2. CASE id = submitted + 1
      BY <3>2, <2>2, <2>4
    <3>3. CASE id > submitted + 1
      BY <3>3, <2>2, <2>3 DEF ConservedInv
    <3> QED BY <3>1, <3>2, <3>3, <2>2
  <2> QED BY <2>5 DEF ConservedInv, UserMessage
<1>3. CASE ~(Prompt \/ Steer \/ FollowUp)
  <2>1. submitted' = submitted
    BY <1>3 DEF Next, LoopStep, ThrowStep, OrphanStep, ApplicationCall, AnnouncePrompt,
       InitialSteeringPoll, InjectMessage, RequestResponse, AnswerText,
       AnswerErrorOrAborted, AnswerToolCalls, AnswerWith, ToolStep, ToolsDone,
       StopAfterTurn, PollSteering, PollFollowUps, AgentEnd, HandleRunFailure, FinishRun,
       ThrowAtMessage, ThrowInStream, ThrowInTools, ThrowAtTurnOrAgentEnd, Unwind,
       OrphanToolEnds, ContinueWithSteering, ContinueWithFollowUps, ContinueTranscript,
       AbortRun, Reset, ClearQueues, SetSteeringMode, SetFollowUpMode, vars
  <2>2. \A m \in UserMessages : Places(m) \in {0, 1} => Places(m)' = Places(m)
    BY <1>3, LoopKeepsPlaces, ThrowKeepsPlaces, CallKeepsPlaces
       DEF Next, ApplicationCall
  <2>3. \A kind \in Kinds, id \in 1..MaxMessages :
            Places(UserMessage(kind, id)) \in {0, 1} =>
                Places(UserMessage(kind, id))' = Places(UserMessage(kind, id))
    BY <2>2, <1>1
  <2>4. ASSUME NEW id \in 1..MaxMessages
        PROVE  IF id <= submitted'
                 THEN \E k \in Kinds : Places(UserMessage(k, id))' = 1
                 ELSE \A k \in Kinds : Places(UserMessage(k, id))' = 0
    BY <2>1, <2>3 DEF ConservedInv
  <2> QED BY <2>4 DEF ConservedInv, UserMessage
<1> QED BY <1>2, <1>3

(* Every message submitted through prompt, steer or followUp is in exactly *)
(* one of the queues, the loop, the transcript, or was given up by a clear, *)
(* a reset or the failure of its run (PendingMessageQueue.drain, runLoop,  *)
(* handleRunFailure).                                                      *)
THEOREM MessagesAreConserved == Spec => []MessagesConserved
<1> DEFINE I == AgentTypeOK /\ BatchOfTurn /\ ConservedInv
<1>1. Init => I
  BY AgentTypeInit, BatchOfTurnInit, ConservedInit
<1>2. I /\ [Next]_vars => I'
  BY AgentTypeStep, BatchOfTurnStep, ConservedStep
<1>3. I => MessagesConserved
  <2> SUFFICES ASSUME I, NEW id \in 1..submitted
               PROVE  \E kind \in Kinds : Places(UserMessage(kind, id)) = 1
    BY DEF MessagesConserved, UserMessage
  <2>1. id \in 1..MaxMessages /\ id <= submitted
    BY BoundsAssumption DEF AgentTypeOK
  <2> QED BY <2>1 DEF ConservedInv
<1> QED BY <1>1, <1>2, <1>3, PTL DEF Spec

-----------------------------------------------------------------------------
(***************************************************************************)
(* What the model is asked with.  While prompts are announced the context  *)
(* has them already; while tools run it does not have their results yet;   *)
(* otherwise it ends with the transcript.  (A reset leaves less of the     *)
(* transcript, which is still the end of the context.)                     *)
(***************************************************************************)
Results(k, s) == [i \in 1..Len(s) |-> ToolResult(k, s[i])]

Level == {"inject", "stream", "turnEnd", "errorTurnEnd", "followUps", "agentEnd"}

SeenInv ==
    /\ pc = "prompts" => EndsWith(transcript \o pending, context)
    /\ pc \in Level => EndsWith(transcript, context)
    /\ pc = "tools" => EndsWith(transcript, context \o Results(turn, emitted))

LEMMA ResultsOfMore ==
    ASSUME NEW S, NEW s \in Seq(S), NEW e, NEW k
    PROVE  /\ Results(k, << >>) = << >>
           /\ Results(k, Append(s, e)) = Append(Results(k, s), ToolResult(k, e))
<1>1. Results(k, << >>) = << >>
  BY DEF Results
<1> DEFINE a == Append(s, e)
           u == Results(k, a)
           v == Append(Results(k, s), ToolResult(k, e))
           T == {ToolResult(k, a[i]) : i \in 1..Len(a)}
<1>2. /\ Len(s) \in Nat /\ Len(a) = Len(s) + 1
      /\ \A i \in 1..Len(s) : a[i] = s[i]
      /\ a[Len(s) + 1] = e
  OBVIOUS
<1> HIDE DEF a
<1>3. u \in Seq(T) /\ Len(u) = Len(a) /\ \A i \in 1..Len(a) : u[i] = ToolResult(k, a[i])
  BY <1>2 DEF Results
<1>4. Results(k, s) \in Seq(T) /\ ToolResult(k, e) \in T
  <2>1. \A i \in 1..Len(s) : ToolResult(k, s[i]) \in T
    BY <1>2
  <2>2. Results(k, s) \in [1..Len(s) -> T]
    BY <2>1 DEF Results
  <2>3. ToolResult(k, e) \in T
    BY <1>2
  <2> HIDE DEF T
  <2>4. Results(k, s) \in Seq(T)
    BY <2>2, <1>2
  <2> QED BY <2>3, <2>4
<1>5. /\ v \in Seq(T) /\ Len(v) = Len(s) + 1
      /\ \A i \in 1..Len(s) : v[i] = ToolResult(k, s[i])
      /\ v[Len(s) + 1] = ToolResult(k, e)
  <2>1. Len(Results(k, s)) = Len(s) /\ \A i \in 1..Len(s) : Results(k, s)[i] = ToolResult(k, s[i])
    BY <1>2 DEF Results
  <2> HIDE DEF T
  <2> QED BY <2>1, <1>2, <1>4
<1> HIDE DEF u, v, T
<1>6. \A i \in 1..Len(u) : u[i] = v[i]
  BY <1>2, <1>3, <1>5
<1>7. u = v
  BY <1>2, <1>3, <1>5, <1>6, SeqEqual
<1> QED BY <1>1, <1>7 DEF u, v, a

(* The next prompt is announced: it is not announced any more.             *)
LEMMA NextPrompt ==
    ASSUME NEW S, NEW s \in Seq(S), NEW p \in Seq(S), p # << >>
    PROVE  Append(s, Head(p)) \o Tail(p) = s \o p
<1>1. Append(s, Head(p)) = s \o <<Head(p)>> /\ <<Head(p)>> \in Seq(S) /\ Tail(p) \in Seq(S)
  OBVIOUS
<1>2. <<Head(p)>> \o Tail(p) = p
  OBVIOUS
<1>3. (s \o <<Head(p)>>) \o Tail(p) = s \o (<<Head(p)>> \o Tail(p))
  BY <1>1, ConcatAssociative
<1> QED BY <1>1, <1>2, <1>3

LEMMA SeenInit == Init => SeenInv
BY DEF Init, SeenInv, Level

LEMMA SeenStep ==
    ASSUME AgentTypeOK, AgentTypeOK', BatchOfTurn, SeenInv, [Next]_vars
    PROVE  SeenInv'
<1>0. /\ transcript \in Seq(Entries) /\ context \in Seq(Entries)
      /\ pending \in Seq(Entries) /\ emitted \in Seq(Calls)
      /\ Results(turn, emitted) \in Seq(Entries)
  <2>1. pending \in Seq(Entries)
    BY EntryTypes, SeqMonotonic DEF AgentTypeOK
  <2>2. emitted \in Seq(Calls) /\ size \in 1..MaxCalls /\ Len(emitted) \in Nat
    BY DEF BatchOfTurn, BatchInv, BatchTypeOK
  <2>3. \A k \in 1..Len(emitted) : ToolResult(turn, emitted[k]) \in Entries
    <3>1. \A k \in 1..Len(emitted) : emitted[k] \in 1..MaxCalls
      BY <2>2, ElementOfSeq, MaxCallsAssumption DEF Calls
    <3> QED BY <3>1, EntryTypes DEF AgentTypeOK
  <2>4. Results(turn, emitted) \in Seq(Entries)
    BY <2>2, <2>3 DEF Results
  <2> QED BY <2>1, <2>2, <2>4 DEF AgentTypeOK
<1>1. ASSUME pc' \notin {"prompts", "tools"} \cup Level PROVE SeenInv'
  BY <1>1 DEF SeenInv
<1>2. ASSUME pc' \in Level, EndsWith(transcript', context') PROVE SeenInv'
  BY <1>2 DEF SeenInv, Level
<1>3. CASE AnnouncePrompt
  <2>1. /\ pc = "prompts" /\ pc' = pc /\ pending # << >>
        /\ transcript' = Append(transcript, Head(pending)) /\ pending' = Tail(pending)
        /\ context' = context
    BY <1>3 DEF AnnouncePrompt
  <2>2. transcript' \o pending' = transcript \o pending
    BY <2>1, <1>0, NextPrompt
  <2> QED BY <2>1, <2>2 DEF SeenInv, Level
<1>4. CASE InitialSteeringPoll
  <2>1. /\ pc = "prompts" /\ pc' = "inject" /\ pending = << >>
        /\ transcript' = transcript /\ context' = context
    BY <1>4 DEF InitialSteeringPoll, stateVars
  <2>2. transcript \o pending = transcript
    BY <2>1, <1>0
  <2> QED BY <2>1, <2>2, <1>2 DEF SeenInv, Level
<1>5. CASE InjectMessage
  <2>1. /\ pc = "inject" /\ pc' = pc
        /\ transcript' = Append(transcript, Head(pending))
        /\ context' = Append(context, Head(pending))
    BY <1>5 DEF InjectMessage
  <2> QED BY <2>1, <1>0, <1>2, EndsWithAppend DEF SeenInv, Level
<1>6. CASE RequestResponse \/ StopAfterTurn \/ PollSteering \/ PollFollowUps
  <2>1. /\ pc \in Level /\ pc' \in Level
        /\ transcript' = transcript /\ context' = context
    BY <1>6 DEF RequestResponse, StopAfterTurn, PollSteering, PollFollowUps, stateVars, Level
  <2> QED BY <2>1, <1>2 DEF SeenInv
<1>7. ASSUME NEW n, AnswerWith(n)
      PROVE  EndsWith(transcript', context')
  <2>1. /\ pc = "stream"
        /\ transcript' = Append(transcript, Assistant(turn + 1, n))
        /\ context' = Append(context, Assistant(turn + 1, n))
    BY <1>7 DEF AnswerWith
  <2> QED BY <2>1, <1>0, EndsWithAppend DEF SeenInv, Level
<1>8. CASE AnswerText \/ AnswerErrorOrAborted
  <2>1. AnswerWith(0) /\ pc' \in Level
    BY <1>8 DEF AnswerText, AnswerErrorOrAborted, Level
  <2> QED BY <2>1, <1>2, <1>7
<1>9. ASSUME NEW n \in 1..MaxCalls, NEW seq \in BOOLEAN, NEW g \in Plans(n),
             AnswerToolCalls(n, g, seq)
      PROVE  SeenInv'
  <2>1. AnswerWith(n) /\ pc' = "tools" /\ emitted' = << >>
    BY <1>9 DEF AnswerToolCalls, BeginBatch
  <2>2. context' \o Results(turn', emitted') = context'
    <3>1. Results(turn', << >>) = << >>
      BY <1>0, ResultsOfMore
    <3>2. context' \in Seq(Entries)
      BY DEF AgentTypeOK
    <3> QED BY <3>1, <3>2, <2>1
  <2> QED BY <2>1, <2>2, <1>7 DEF SeenInv, Level
<1>10. CASE ToolStep
  <2>1. pc = "tools" /\ pc' = pc /\ context' = context
    BY <1>10 DEF ToolStep, loopVars
  <2>2. /\ turn' = turn
        /\ \/ emitted' = emitted /\ transcript' = transcript
           \/ /\ emitted' = Append(emitted, cursor)
              /\ transcript' = Append(transcript, ToolResult(turn, cursor))
    BY <1>10, ToolStepKeepsBatch DEF BatchOfTurn
  <2>3. CASE emitted' = emitted /\ transcript' = transcript
    BY <2>1, <2>2, <2>3 DEF SeenInv, Level
  <2>4. CASE /\ emitted' = Append(emitted, cursor)
             /\ transcript' = Append(transcript, ToolResult(turn, cursor))
    <3> DEFINE c == context \o Results(turn, emitted)
               e == ToolResult(turn, cursor)
    <3>1. c \in Seq(Entries) /\ EndsWith(transcript, c)
      BY <1>0, <2>1 DEF SeenInv
    <3>2. Results(turn, emitted') = Append(Results(turn, emitted), e)
      BY <1>0, <2>4, ResultsOfMore
    <3>3. context \o Append(Results(turn, emitted), e) = Append(c, e)
      <4> DEFINE R == Results(turn, emitted)
      <4>1. R \in Seq(Entries)
        BY <1>0
      <4> HIDE DEF R, e
      <4>2. context \o Append(R, e) = Append(context \o R, e)
        BY <4>1, <1>0
      <4> QED BY <4>2 DEF R
    <3>4. EndsWith(Append(transcript, e), Append(c, e))
      BY <1>0, <3>1, EndsWithAppend
    <3> QED BY <2>1, <2>2, <2>4, <3>2, <3>3, <3>4 DEF SeenInv, Level
  <2> QED BY <2>2, <2>3, <2>4
<1>11. CASE ToolsDone
  <2>1. /\ pc = "tools" /\ pc' = "turnEnd" /\ transcript' = transcript
        /\ context' = context \o Results(turn, emitted)
    BY <1>11 DEF ToolsDone, stateVars, Results
  <2> QED BY <2>1, <1>2 DEF SeenInv, Level
<1>12. ASSUME \/ AgentEnd \/ ThrowStep
              \/ \E arrived \in BOOLEAN : HandleRunFailure(arrived)
       PROVE  SeenInv'
  <2>1. pc' \in {"idle", "failure"}
    BY <1>12 DEF AgentEnd, HandleRunFailure, FinishRun, ThrowStep, ThrowAtMessage,
                 ThrowInStream, ThrowInTools, ThrowAtTurnOrAgentEnd, Unwind
  <2> QED BY <2>1, <1>1 DEF Level
<1>13. ASSUME \/ Prompt \/ ContinueWithSteering \/ ContinueWithFollowUps
              \/ ContinueTranscript
       PROVE  SeenInv'
  <2>1. /\ pc' = "prompts" /\ transcript' = transcript
        /\ context' = transcript' \o pending'
    BY <1>13 DEF Prompt, ContinueWithSteering, ContinueWithFollowUps, ContinueTranscript,
                 StartRun
  <2>2. EndsWith(transcript' \o pending', context')
    BY <2>1, EndsWithNothing DEF AgentTypeOK
  <2> QED BY <2>1, <2>2 DEF SeenInv, Level
<1>14. CASE Reset
  <2>1. /\ transcript' = << >>
        /\ UNCHANGED <<pc, context, pending, turn, emitted>>
    BY <1>14 DEF Reset, loopVars, batchVars
  <2>2. pc = "prompts" => EndsWith(transcript' \o pending', context')
    <3>1. << >> \o pending = pending
      BY <1>0
    <3> QED BY <3>1, <2>1, <1>0, EndsWithPart DEF SeenInv
  <2>3. EndsWith(<< >>, context)
    BY <1>0, EndsWithNothing
  <2>4. EndsWith(<< >>, context \o Results(turn, emitted))
    <3>1. context \o Results(turn, emitted) \in Seq(Entries)
      BY <1>0
    <3> QED BY <3>1, EndsWithNothing
  <2> QED BY <2>1, <2>2, <2>3, <2>4 DEF SeenInv
<1>15. ASSUME \/ AbortRun \/ OrphanStep \/ UNCHANGED vars \/ Steer \/ FollowUp
              \/ \E s, f \in BOOLEAN : ClearQueues(s, f)
              \/ \E mode \in Modes : SetSteeringMode(mode) \/ SetFollowUpMode(mode)
       PROVE  SeenInv'
  <2>1. UNCHANGED <<pc, transcript, context, pending, turn, emitted>>
    BY <1>15 DEF AbortRun, OrphanStep, OrphanToolEnds, Steer, FollowUp, ClearQueues,
       SetSteeringMode, SetFollowUpMode, loopVars, stateVars, batchVars, vars
  <2> QED BY <2>1 DEF SeenInv
<1> QED BY <1>3, <1>4, <1>5, <1>6, <1>8, <1>9, <1>10, <1>11, <1>12, <1>13, <1>14, <1>15
        DEF Next, LoopStep, ApplicationCall

(* When the model is asked (streamAssistantResponse), the transcript the   *)
(* application sees is the end of the context it is asked with.            *)
THEOREM ModelIsAskedWithTranscript == Spec => []ModelSeesTranscript
<1> DEFINE I == AgentTypeOK /\ BatchOfTurn /\ SeenInv
<1>1. Init => I
  BY AgentTypeInit, BatchOfTurnInit, SeenInit
<1>2. I /\ [Next]_vars => I'
  BY AgentTypeStep, BatchOfTurnStep, SeenStep
<1>3. I => ModelSeesTranscript
  BY EndsWithIsSuffix DEF ModelSeesTranscript, SeenInv, Level, AgentTypeOK
<1> QED BY <1>1, <1>2, <1>3, PTL DEF Spec

-----------------------------------------------------------------------------
(***************************************************************************)
(* Tool results follow their call.  While tools run, the last message of   *)
(* the transcript is the one that asked for them or the latest of their    *)
(* results (or a reset has emptied the transcript).                        *)
(***************************************************************************)
FollowsWell(s, e) ==
    e.role = "toolResult" /\ s # << >> =>
        /\ Last(s).id = e.id
        /\ \/ Last(s).role = "assistant" /\ e.call = 1
           \/ Last(s).role = "toolResult" /\ e.call = Last(s).call + 1

WellFollowed(s) ==
    \A i \in 2..Len(s) :
        s[i].role = "toolResult" =>
            /\ s[i - 1].id = s[i].id
            /\ \/ s[i - 1].role = "assistant" /\ s[i].call = 1
               \/ s[i - 1].role = "toolResult" /\ s[i].call = s[i - 1].call + 1

FollowInv ==
    /\ WellFollowed(transcript)
    /\ pc = "tools" /\ transcript # << >> =>
          IF emitted = << >> THEN \E n : Last(transcript) = Assistant(turn, n)
          ELSE Last(transcript) = ToolResult(turn, Len(emitted))

LEMMA WellFollowedAppend ==
    ASSUME NEW S, NEW s \in Seq(S), NEW e, WellFollowed(s), FollowsWell(s, e)
    PROVE  WellFollowed(Append(s, e)) /\ Append(s, e) # << >> /\ Last(Append(s, e)) = e
<1> DEFINE t == Append(s, e)
<1>1. /\ Len(s) \in Nat /\ Len(t) = Len(s) + 1
      /\ \A i \in 1..Len(s) : t[i] = s[i]
      /\ t[Len(s) + 1] = e /\ (Len(s) # 0 => s # << >>)
  OBVIOUS
<1>2. t # << >> /\ Last(t) = e
  BY <1>1 DEF Last
<1> HIDE DEF t
<1>3. ASSUME NEW i \in 2..Len(t), t[i].role = "toolResult"
      PROVE  /\ t[i - 1].id = t[i].id
             /\ \/ t[i - 1].role = "assistant" /\ t[i].call = 1
                \/ t[i - 1].role = "toolResult" /\ t[i].call = t[i - 1].call + 1
  <2>1. CASE i \in 2..Len(s)
    <3>1. t[i] = s[i] /\ t[i - 1] = s[i - 1]
      BY <2>1, <1>1
    <3> QED BY <3>1, <2>1, <1>3 DEF WellFollowed
  <2>2. CASE i = Len(s) + 1
    <3>1. t[i] = e /\ t[i - 1] = s[Len(s)] /\ s # << >>
      BY <2>2, <1>1
    <3> QED BY <3>1, <1>3 DEF FollowsWell, Last
  <2> QED BY <2>1, <2>2, <1>1
<1>4. WellFollowed(t)
  BY <1>3 DEF WellFollowed
<1> QED BY <1>2, <1>4 DEF t

LEMMA FollowInit == Init => FollowInv
BY DEF Init, FollowInv, WellFollowed

LEMMA FollowStep ==
    ASSUME AgentTypeOK, BatchOfTurn, FollowInv, [Next]_vars
    PROVE  FollowInv'
<1>0. transcript \in Seq(Entries)
  BY DEF AgentTypeOK
<1>1. ASSUME NEW e, e.role # "toolResult", transcript' = Append(transcript, e)
      PROVE  WellFollowed(transcript') /\ transcript' # << >> /\ Last(transcript') = e
  BY <1>0, <1>1, WellFollowedAppend DEF FollowsWell, FollowInv
<1>2. ASSUME pc' # "tools", \/ transcript' = transcript
                            \/ \E e : e.role # "toolResult" /\ transcript' = Append(transcript, e)
      PROVE  FollowInv'
  BY <1>1, <1>2 DEF FollowInv
<1>3. \A k, n : Assistant(k, n).role # "toolResult"
  BY DEF Assistant
<1>4. pending # << >> => Head(pending).role # "toolResult"
  <2>1. pending # << >> => Head(pending) \in UserMessages
    BY DEF AgentTypeOK
  <2> QED BY <2>1 DEF UserMessages
<1>5. CASE AnnouncePrompt \/ InjectMessage
  <2>1. /\ pc' # "tools" /\ pending # << >>
        /\ transcript' = Append(transcript, Head(pending))
    BY <1>5 DEF AnnouncePrompt, InjectMessage
  <2> QED BY <2>1, <1>2, <1>4
<1>6. CASE InitialSteeringPoll \/ RequestResponse \/ StopAfterTurn \/ PollSteering
             \/ PollFollowUps \/ ToolsDone \/ AgentEnd \/ ThrowAtTurnOrAgentEnd
  <2>1. pc' # "tools" /\ transcript' = transcript
    BY <1>6 DEF InitialSteeringPoll, RequestResponse, StopAfterTurn, PollSteering,
       PollFollowUps, ToolsDone, AgentEnd, FinishRun, ThrowAtTurnOrAgentEnd, Unwind,
       stateVars
  <2> QED BY <2>1, <1>2
<1>7. CASE AnswerText \/ AnswerErrorOrAborted
  <2>1. pc' # "tools" /\ transcript' = Append(transcript, Assistant(turn + 1, 0))
    BY <1>7 DEF AnswerText, AnswerErrorOrAborted, AnswerWith
  <2> QED BY <2>1, <1>2, <1>3
<1>8. ASSUME NEW n \in 1..MaxCalls, NEW seq \in BOOLEAN, NEW g \in Plans(n),
             AnswerToolCalls(n, g, seq)
      PROVE  FollowInv'
  <2>1. /\ transcript' = Append(transcript, Assistant(turn + 1, n))
        /\ turn' = turn + 1 /\ emitted' = << >>
    BY <1>8 DEF AnswerToolCalls, AnswerWith, BeginBatch
  <2> QED BY <2>1, <1>1, <1>3 DEF FollowInv
<1>9. ASSUME NEW arrived \in BOOLEAN,
             HandleRunFailure(arrived) \/ ThrowAtMessage(arrived) \/ ThrowInStream(arrived)
      PROVE  FollowInv'
  <2>1. /\ pc' # "tools"
        /\ \/ transcript' = transcript
           \/ transcript' = Append(transcript, Assistant(turn + 1, 0))
           \/ pending # << >> /\ transcript' = Append(transcript, Head(pending))
    BY <1>9 DEF HandleRunFailure, FinishRun, ThrowAtMessage, ThrowInStream, Unwind
  <2> QED BY <2>1, <1>2, <1>3, <1>4
<1>10. CASE ToolStep \/ ThrowInTools
  <2>1. pc = "tools"
    BY <1>10 DEF ToolStep, ThrowInTools
  <2>2. /\ turn' = turn
        /\ \/ emitted' = emitted /\ transcript' = transcript
           \/ /\ emitted' = Append(emitted, cursor)
              /\ transcript' = Append(transcript, ToolResult(turn, cursor))
    BY <1>10, ToolStepKeepsBatch DEF BatchOfTurn
  <2>3. CASE emitted' = emitted /\ transcript' = transcript
    BY <2>1, <2>2, <2>3 DEF FollowInv
  <2>4. CASE /\ emitted' = Append(emitted, cursor)
             /\ transcript' = Append(transcript, ToolResult(turn, cursor))
    <3> DEFINE e == ToolResult(turn, cursor)
    <3>1. /\ emitted \in Seq(Calls) /\ Len(emitted) \in Nat /\ Len(emitted) = cursor - 1
          /\ cursor \in Nat
      BY DEF BatchOfTurn, BatchInv, BatchTypeOK, Answered
    <3>2. emitted' # << >> /\ Len(emitted') = cursor
      BY <2>4, <3>1
    <3>3. FollowsWell(transcript, e)
      <4> SUFFICES ASSUME transcript # << >>
                   PROVE  /\ Last(transcript).id = e.id
                          /\ \/ Last(transcript).role = "assistant" /\ e.call = 1
                             \/ /\ Last(transcript).role = "toolResult"
                                /\ e.call = Last(transcript).call + 1
        BY DEF FollowsWell
      <4>1. e.id = turn /\ e.call = cursor
        BY DEF ToolResult
      <4>2. CASE emitted = << >>
        <5>1. \E n : Last(transcript) = Assistant(turn, n)
          BY <4>2, <2>1 DEF FollowInv
        <5>2. Last(transcript).id = turn /\ Last(transcript).role = "assistant"
          BY <5>1 DEF Assistant
        <5>3. cursor = 1
          BY <4>2, <3>1
        <5> QED BY <5>2, <5>3, <4>1
      <4>3. CASE emitted # << >>
        <5>1. Last(transcript) = ToolResult(turn, Len(emitted))
          BY <4>3, <2>1 DEF FollowInv
        <5>2. /\ Last(transcript).id = turn /\ Last(transcript).role = "toolResult"
              /\ Last(transcript).call = cursor - 1
          BY <5>1, <3>1 DEF ToolResult
        <5> QED BY <5>2, <4>1, <3>1
      <4> QED BY <4>2, <4>3
    <3>4. /\ WellFollowed(Append(transcript, e))
          /\ Last(Append(transcript, e)) = e
      BY <3>3, <1>0, WellFollowedAppend DEF FollowInv
    <3> QED BY <2>2, <2>4, <3>2, <3>4 DEF FollowInv
  <2> QED BY <2>2, <2>3, <2>4
<1>11. CASE Reset
  <2>1. transcript' = << >>
    BY <1>11 DEF Reset
  <2> QED BY <2>1 DEF FollowInv, WellFollowed
<1>12. ASSUME \/ Prompt \/ ContinueWithSteering \/ ContinueWithFollowUps
              \/ ContinueTranscript
       PROVE  FollowInv'
  <2>1. pc' # "tools" /\ transcript' = transcript
    BY <1>12 DEF Prompt, ContinueWithSteering, ContinueWithFollowUps, ContinueTranscript,
                 StartRun
  <2> QED BY <2>1, <1>2
<1>13. ASSUME \/ AbortRun \/ OrphanStep \/ UNCHANGED vars \/ Steer \/ FollowUp
              \/ \E s, f \in BOOLEAN : ClearQueues(s, f)
              \/ \E mode \in Modes : SetSteeringMode(mode) \/ SetFollowUpMode(mode)
       PROVE  FollowInv'
  <2>1. UNCHANGED <<pc, transcript, turn, emitted>>
    BY <1>13 DEF AbortRun, OrphanStep, OrphanToolEnds, Steer, FollowUp, ClearQueues,
       SetSteeringMode, SetFollowUpMode, loopVars, stateVars, batchVars, vars
  <2> QED BY <2>1 DEF FollowInv
<1> QED BY <1>5, <1>6, <1>7, <1>8, <1>9, <1>10, <1>11, <1>12, <1>13
        DEF Next, LoopStep, ThrowStep, ApplicationCall

(* Each tool result in the transcript comes right after the assistant      *)
(* message that asked for it or after the result of the call before it     *)
(* (processEvents, emitToolResultMessage), whatever throws, aborts or is   *)
(* queued meanwhile.                                                       *)
THEOREM ResultsFollowCalls == Spec => []ResultsFollowTheirCall
<1> DEFINE I == AgentTypeOK /\ BatchOfTurn /\ FollowInv
<1>1. Init => I
  BY AgentTypeInit, BatchOfTurnInit, FollowInit
<1>2. I /\ [Next]_vars => I'
  BY AgentTypeStep, BatchOfTurnStep, FollowStep
<1>3. I => ResultsFollowTheirCall
  BY DEF FollowInv, WellFollowed, ResultsFollowTheirCall
<1> QED BY <1>1, <1>2, <1>3, PTL DEF Spec

-----------------------------------------------------------------------------
(* What executeToolCalls promises of a batch on its own holds for every    *)
(* batch of every run of an agent, also when the application aborts,       *)
(* resets or queues messages meanwhile and when listeners throw: results   *)
(* in source order, one group after the other, all that was started ended  *)
(* and answered, and no call left without a result unless the run was      *)
(* aborted or the batch terminates it.                                     *)
THEOREM BatchesOfRunsKeepTheirPromises ==
    Spec => [](/\ ResultsInSourceOrder /\ GroupBarrier
               /\ StartedAreAnswered /\ NoCallUnanswered)
<1>1. BatchOfTurn => /\ ResultsInSourceOrder /\ GroupBarrier
                     /\ StartedAreAnswered /\ NoCallUnanswered
  <2> SUFFICES ASSUME BatchInv
               PROVE  ResultsInSourceOrder /\ StartedAreAnswered /\ NoCallUnanswered
    BY BatchKeepsGroups DEF BatchOfTurn
  <2> QED BY DEF BatchInv, BatchTypeOK, Frontier, Answered, StageOK, Calls,
                 ResultsInSourceOrder, StartedAreAnswered, NoCallUnanswered
<1>2. BatchOfTurn /\ [Next]_vars => BatchOfTurn'
  BY BatchOfTurnStep
<1> QED BY <1>1, <1>2, BatchOfTurnInit, PTL DEF Spec
=============================================================================
