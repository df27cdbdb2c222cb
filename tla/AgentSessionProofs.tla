-------------------------- MODULE AgentSessionProofs --------------------------
(***************************************************************************)
(* Proofs for AgentSession, for any number of prompts, retries and events: *)
(* the transcript is the one the session file gives back, tool results     *)
(* stay with their calls, nothing is left waiting when everything is at    *)
(* rest, and recovery from errors is bounded.                              *)
(*                                                                         *)
(* The invariant is built in layers, each proved with the ones before it:  *)
(*   StoreInv      types, cuts and what transcript and entries share;      *)
(*   ControlInv    who is busy, and who owns the run and the controllers;  *)
(*   PairsInv      tool calls and their results;                           *)
(*   HeadOK, Begun a transcript starts with a message, and has one;        *)
(*   ServedInv     whoever waits has somebody who will come to it;         *)
(*   RecoveryInv   what the errors in a row allow at each place.           *)
(* SeqFilterProofs has the lemmas about Keep.                              *)
(***************************************************************************)
EXTENDS AgentSession, SeqFilterProofs, FiniteSetTheorems

-----------------------------------------------------------------------------
(***************************************************************************)
(* The session that owns an agent (AgentSession).  First the types.        *)
(***************************************************************************)
Locations == Underway \cup {"unused", "held", "queued", "refused", "dropped",
                            "failed", "done", "cleared"}
Roles == {"user", "bash", "result", "summary", "compaction", "none", "assistant"}
Stops == {"", "stop", "tool", "error", "aborted"}
Whats == {"", "ok", "large", "over", "retryable", "fatal"}
Record == {m \in [role : Roles, id : Nat, stop : Stops, what : Whats, era : Nat] :
              m.stop = "tool" => m.role = "assistant"}
BashRecord == {m \in Record : m.role = "bash"}
Job == [why : {"none", "overflow", "threshold"}, keep : Nat]
ActiveRun == [owner : Inputs, at : {"poll", "ask", "tools", "turn", "end"},
              aborted : BOOLEAN, era : Nat, call : Nat]

RestTypeOK ==
    /\ pc \in [Inputs -> Locations]
    /\ how \in [Inputs -> {"none", "steer", "followUp"}]
    /\ stage \in [Inputs -> {"check", "pre", "main"}]
    /\ seen \in [Inputs -> Record]
    /\ job \in [Inputs -> Job]
    /\ run \in ActiveRun \cup {NoRun}
    /\ steering \in Seq(Inputs) /\ followUp \in Seq(Inputs)
    /\ last \in Record
    /\ retry \in Nat /\ tried \in BOOLEAN
    /\ retryCtl \in 0..MaxInputs /\ autoCtl \in 0..MaxInputs
    /\ cancelled \subseteq 0..MaxInputs
    /\ manual \in Nat \cup {Off, Waiting}
    /\ bash \in Seq(BashRecord)
    /\ held \in Seq(Inputs) /\ batch \in [Inputs -> Seq(Inputs)]
    /\ events \in Nat
    /\ overlapped \in BOOLEAN /\ cut \in BOOLEAN
    /\ burst \in [over : Nat, retryable : Nat]

SessionTypeOK ==
    /\ RestTypeOK
    /\ messages \in Seq(Record)
    /\ entries \in Seq(Record)

-----------------------------------------------------------------------------
(***************************************************************************)
(* Bounded sets of numbers have a least and a greatest member.             *)
(***************************************************************************)
LEMMA LeastNumber ==
    ASSUME NEW S \in SUBSET Nat, S # {}
    PROVE  \E k \in S : \A j \in S : k <= j
<1>1. PICK k \in S : \A j \in S : <<j, k>> \notin Smaller
    BY SmallerWellFounded, WFMin
<1>2. \A j \in S : j < k => <<j, k>> \in Smaller
    BY DEF Smaller
<1>3. \A j \in S : ~(j < k)
    BY <1>1, <1>2
<1> QED BY <1>3

\* A bounded set of numbers has a greatest member.
LEMMA GreatestNumber ==
    ASSUME NEW n \in Nat, NEW S \in SUBSET (1..n), S # {}
    PROVE  \E k \in S : \A j \in S : j <= k
<1> DEFINE M == {m \in Nat : \A j \in S : j <= m}
<1>1. n \in M
    OBVIOUS
<1>2. PICK m \in M : \A l \in M : m <= l
  <2>1. M \in SUBSET Nat /\ M # {}
    BY <1>1
  <2> HIDE DEF M
  <2> QED BY <2>1, LeastNumber
<1>3. m \in S
  <2> SUFFICES ASSUME m \notin S PROVE FALSE
    OBVIOUS
  <2>1. \A j \in S : j <= m - 1
    OBVIOUS
  <2>2. m - 1 \in Nat
    <3>1. PICK j \in S : TRUE
        OBVIOUS
    <3>2. j \in 1..n /\ j <= m
        OBVIOUS
    <3> QED BY <3>2
  <2>3. m - 1 \in M
    BY <2>1, <2>2
  <2>4. m <= m - 1
    BY <1>2, <2>3
  <2> QED BY <2>4
<1> QED BY <1>3

-----------------------------------------------------------------------------
(***************************************************************************)
(* Entries.  A compaction's cut lies before it and is no tool result; an   *)
(* answer has its position as its id.                                      *)
(***************************************************************************)
IsCut(k, s) == k \in 1..Len(s) /\ s[k].role # "result"

CutsBefore(s) ==
    \A k \in 1..Len(s) : s[k].role = "compaction" =>
        s[k].id \in 1..(k - 1) /\ s[s[k].id].role # "result"

AnswerIds(s) == \A k \in 1..Len(s) : IsAssistant(s[k]) => s[k].id = k

\* What the constructors make.
LEMMA MessageMade ==
    ASSUME NEW role \in Roles, NEW id \in Nat, NEW stop \in Stops, NEW what \in Whats,
           NEW era \in Nat, stop = "tool" => role = "assistant"
    PROVE  /\ Message(role, id, stop, what, era) \in Record
           /\ Message(role, id, stop, what, era).role = role
           /\ Message(role, id, stop, what, era).id = id
           /\ Message(role, id, stop, what, era).stop = stop
           /\ Message(role, id, stop, what, era).what = what
           /\ Message(role, id, stop, what, era).era = era
BY DEF Message, Record

\* The constructors of messages make records, and of which role.
LEMMA RecordsMade ==
    /\ \A n \in Nat : User(n) \in Record /\ User(n).role = "user" /\ User(n).stop = ""
    /\ \A n \in Nat : Bash(n) \in Record /\ Bash(n).role = "bash" /\ Bash(n).stop = ""
    /\ \A n \in Nat : /\ Result(n) \in Record /\ Result(n).role = "result"
                      /\ Result(n).id = n /\ Result(n).stop = ""
    /\ \A n \in Nat : /\ Compacted(n) \in Record /\ Compacted(n).role = "compaction"
                      /\ Compacted(n).id = n /\ Compacted(n).stop = ""
    /\ Summary \in Record /\ Summary.role = "summary" /\ Summary.stop = ""
    /\ NoMessage \in Record /\ NoMessage.role = "none" /\ NoMessage.stop = ""
<1>1. \A n \in Nat : User(n) \in Record /\ User(n).role = "user" /\ User(n).stop = ""
    BY DEF User, Message, Record, Roles, Stops, Whats
<1>2. \A n \in Nat : Bash(n) \in Record /\ Bash(n).role = "bash" /\ Bash(n).stop = ""
    BY DEF Bash, Message, Record, Roles, Stops, Whats
<1>3. \A n \in Nat : /\ Result(n) \in Record /\ Result(n).role = "result"
                     /\ Result(n).id = n /\ Result(n).stop = ""
    BY DEF Result, Message, Record, Roles, Stops, Whats
<1>4. \A n \in Nat : /\ Compacted(n) \in Record /\ Compacted(n).role = "compaction"
                     /\ Compacted(n).id = n /\ Compacted(n).stop = ""
    BY DEF Compacted, Message, Record, Roles, Stops, Whats
<1>5. Summary \in Record /\ Summary.role = "summary" /\ Summary.stop = ""
    BY DEF Summary, Message, Record, Roles, Stops, Whats
<1>6. NoMessage \in Record /\ NoMessage.role = "none" /\ NoMessage.stop = ""
    BY DEF NoMessage, Message, Record, Roles, Stops, Whats
<1> QED BY <1>1, <1>2, <1>3, <1>4, <1>5, <1>6

\* The latest compaction.
LEMMA LatestIs ==
    ASSUME NEW s \in Seq(Record), CompactionsIn(s) # {}
    PROVE  /\ LatestIn(s) \in 1..Len(s)
           /\ s[LatestIn(s)].role = "compaction"
           /\ \A j \in CompactionsIn(s) : j <= LatestIn(s)
<1>1. CompactionsIn(s) \in SUBSET (1..Len(s)) /\ Len(s) \in Nat
    BY LenProperties DEF CompactionsIn
<1>2. \E k \in CompactionsIn(s) : \A j \in CompactionsIn(s) : j <= k
    BY <1>1, GreatestNumber
<1>3. LatestIn(s) \in CompactionsIn(s) /\ \A j \in CompactionsIn(s) : j <= LatestIn(s)
    BY <1>2 DEF LatestIn
<1> QED BY <1>3 DEF CompactionsIn

\* A context is a sequence of records.
LEMMA ContextType ==
    ASSUME NEW s \in Seq(Record), CutsBefore(s)
    PROVE  /\ Context(s) \in Seq(Record)
           /\ Range(Context(s)) \subseteq Range(s) \cup {Summary}
<1>1. CASE CompactionsIn(s) = {}
    BY <1>1 DEF Context
<1>2. CASE CompactionsIn(s) # {}
  <2> DEFINE c == s[LatestIn(s)].id
             t == SubSeq(s, c, Len(s))
  <2>1. c \in 1..Len(s)
    BY <1>2, LatestIs DEF CutsBefore
  <2>2. t \in Seq(Record) /\ Range(t) \subseteq Range(s)
    BY <2>1 DEF Range
  <2>3. Keep(t, MessagesIn(s)) \in Seq(Record) /\ Range(Keep(t, MessagesIn(s))) \subseteq Range(t)
    <3> DEFINE M == MessagesIn(s)
    <3> HIDE DEF t, M
    <3>1. Keep(t, M) \in Seq(Record)
        BY <2>2, KeepType
    <3>2. Range(Keep(t, M)) = Range(t) \cap M
        BY <2>2, KeepSelects
    <3> QED BY <3>1, <3>2 DEF M
  <2>4. Context(s) = <<Summary>> \o Keep(t, MessagesIn(s))
    BY <1>2 DEF Context
  <2>5. <<Summary>> \in Seq(Record) /\ Range(<<Summary>>) = {Summary}
    <3>1. Summary \in Record
        BY RecordsMade
    <3> QED BY <3>1, RangeOfOne
  <2> DEFINE u == Keep(t, MessagesIn(s))
             v == <<Summary>>
  <2> HIDE DEF t, u, v
  <2>6. v \in Seq(Record) /\ u \in Seq(Record)
    BY <2>3, <2>5 DEF u, v
  <2>7. Range(v \o u) = Range(v) \cup Range(u) /\ v \o u \in Seq(Record)
    BY <2>6, RangeOfConcat
  <2> QED BY <2>2, <2>3, <2>4, <2>5, <2>7 DEF u, v
<1> QED BY <1>1, <1>2

-----------------------------------------------------------------------------
(***************************************************************************)
(* What is appended to the entries is appended to the context.             *)
(***************************************************************************)
LEMMA SubSeqConcat ==
    ASSUME NEW X, NEW s \in Seq(X), NEW t \in Seq(X), NEW c \in 1..Len(s)
    PROVE  SubSeq(s \o t, c, Len(s \o t)) = SubSeq(s, c, Len(s)) \o t
<1> DEFINE u == s \o t
           a == SubSeq(u, c, Len(u))
           b == SubSeq(s, c, Len(s))
           d == b \o t
<1>1. /\ u \in Seq(X) /\ Len(u) = Len(s) + Len(t)
      /\ Len(s) \in Nat /\ Len(t) \in Nat
      /\ \A k \in 1..Len(u) : u[k] = IF k <= Len(s) THEN s[k] ELSE t[k - Len(s)]
    BY ConcatProperties, LenProperties
<1> HIDE DEF u
<1>2. /\ a \in Seq(X) /\ Len(a) = Len(u) - c + 1
      /\ \A k \in 1..Len(a) : a[k] = u[k + c - 1]
    BY <1>1
<1>3. /\ b \in Seq(X) /\ Len(b) = Len(s) - c + 1
      /\ \A k \in 1..Len(b) : b[k] = s[k + c - 1]
    BY <1>1
<1> HIDE DEF a, b
<1>4. /\ d \in Seq(X) /\ Len(d) = Len(b) + Len(t)
      /\ \A k \in 1..Len(d) : d[k] = IF k <= Len(b) THEN b[k] ELSE t[k - Len(b)]
  <2>1. b \in Seq(X) /\ t \in Seq(X)
    BY <1>3
  <2> QED BY <2>1, ConcatProperties, LenProperties
<1> HIDE DEF d
<1>5. Len(a) = Len(d)
    BY <1>1, <1>2, <1>3, <1>4
<1>6. ASSUME NEW k \in 1..Len(a) PROVE a[k] = d[k]
  <2>1. a[k] = u[k + c - 1] /\ k + c - 1 \in 1..Len(u)
    BY <1>1, <1>2
  <2>2. CASE k <= Len(b)
    <3>1. k \in 1..Len(b) /\ k \in 1..Len(d) /\ k + c - 1 <= Len(s)
        BY <2>2, <1>1, <1>3, <1>5
    <3>2. u[k + c - 1] = s[k + c - 1]
        BY <3>1, <2>1, <1>1
    <3>3. d[k] = b[k] /\ b[k] = s[k + c - 1]
        BY <3>1, <1>3, <1>4, <2>2
    <3> QED BY <2>1, <3>2, <3>3
  <2>3. CASE k > Len(b)
    <3>1. k + c - 1 > Len(s) /\ (k + c - 1) - Len(s) = k - Len(b)
        BY <2>3, <1>1, <1>3
    <3>2. PICK n \in 1..Len(u) : n = k + c - 1
        BY <2>1
    <3>3. n > Len(s) /\ n \in Nat /\ n - Len(s) = k - Len(b)
        BY <3>1, <3>2
    <3>4. u[n] = t[n - Len(s)]
        BY <3>3, <1>1
    <3>5. d[k] = t[k - Len(b)]
        BY <2>3, <1>4, <1>5, <1>3, <1>1
    <3> QED BY <2>1, <3>2, <3>3, <3>4, <3>5
  <2> QED BY <2>2, <2>3, <1>1, <1>3
<1>7. a = d
    BY <1>2, <1>4, <1>5, <1>6, SeqEqual
<1> QED BY <1>7 DEF a, d, b, u

\* What is appended after the cut is appended to the context as it is.
LEMMA ContextConcat ==
    ASSUME NEW s \in Seq(Record), NEW ms \in Seq(Record), CutsBefore(s),
           \A e \in Range(ms) : e.role # "compaction"
    PROVE  Context(s \o ms) = Context(s) \o ms
<1> DEFINE u == s \o ms
<1>1. /\ u \in Seq(Record) /\ Len(u) = Len(s) + Len(ms)
      /\ Len(s) \in Nat /\ Len(ms) \in Nat
      /\ \A k \in 1..Len(s) : u[k] = s[k]
      /\ \A k \in 1..Len(u) : k > Len(s) => k - Len(s) \in 1..Len(ms) /\ u[k] = ms[k - Len(s)]
    BY ConcatProperties, LenProperties
<1>2. \A k \in 1..Len(ms) : ms[k] \in Range(ms)
    BY DEF Range
<1>3. Range(u) = Range(s) \cup Range(ms)
    BY RangeOfConcat
<1> HIDE DEF u
<1>4. CompactionsIn(u) = CompactionsIn(s)
  <2>1. ASSUME NEW k \in 1..Len(u), k > Len(s) PROVE u[k].role # "compaction"
    BY <1>1, <1>2, <2>1
  <2>2. \A k \in 1..Len(u) : u[k].role = "compaction" => k \in 1..Len(s)
    BY <1>1, <2>1
  <2> QED BY <1>1, <2>2 DEF CompactionsIn
<1>5. CASE CompactionsIn(s) = {}
    BY <1>4, <1>5 DEF Context, u
<1>6. CASE CompactionsIn(s) # {}
  <2> DEFINE c == s[LatestIn(s)].id
             t == SubSeq(s, c, Len(s))
             M == MessagesIn(u)
             N == MessagesIn(s)
  <2>1. c \in 1..Len(s) /\ LatestIn(s) \in 1..Len(s)
    BY <1>6, LatestIs DEF CutsBefore
  <2>2. LatestIn(u) = LatestIn(s)
    BY <1>4 DEF LatestIn
  <2>3. u[LatestIn(u)].id = c
    BY <1>1, <2>1, <2>2
  <2>4. SubSeq(u, c, Len(u)) = t \o ms
    BY <2>1, SubSeqConcat DEF u
  <2>5. t \in Seq(Record) /\ Range(t) \subseteq Range(s)
    BY <2>1 DEF Range
  <2> HIDE DEF c, t, M, N
  <2>6. Keep(t \o ms, M) = Keep(t, M) \o Keep(ms, M)
    BY <2>5, KeepConcat
  <2>7. Keep(ms, M) = ms
    <3>1. Range(ms) \subseteq M
        BY <1>3 DEF M, MessagesIn
    <3> QED BY <3>1, KeepSelects
  <2>8. Keep(t, M) = Keep(t, N)
    <3>1. Range(t) \cap M = Range(t) \cap N
        BY <1>3, <2>5 DEF M, N, MessagesIn
    <3> QED BY <3>1, <2>5, KeepSame
  <2>9. Context(s) = <<Summary>> \o Keep(t, N)
    BY <1>6 DEF Context, t, c, N
  <2>10. Context(u) = <<Summary>> \o (Keep(t, N) \o ms)
    BY <1>4, <1>6, <2>3, <2>4, <2>6, <2>7, <2>8 DEF Context, M
  <2>11. Keep(t, N) \in Seq(Record) /\ <<Summary>> \in Seq(Record)
    <3>1. Keep(t, N) \in Seq(Record)
        BY <2>5, KeepType
    <3>2. Summary \in Record
        BY RecordsMade
    <3> QED BY <3>1, <3>2
  <2>12. \A a, b, d \in Seq(Record) : a \o (b \o d) = (a \o b) \o d
    OBVIOUS
  <2> QED BY <2>9, <2>10, <2>11, <2>12 DEF u
<1> QED BY <1>5, <1>6

\* A compaction makes the context a summary and what its cut keeps.
LEMMA ContextOfCompaction ==
    ASSUME NEW s \in Seq(Record), NEW k \in 1..Len(s)
    PROVE  Context(Append(s, Compacted(k)))
              = <<Summary>> \o Keep(SubSeq(s, k, Len(s)), MessagesIn(s))
<1> DEFINE x == Compacted(k)
           u == Append(s, x)
           t == SubSeq(s, k, Len(s))
           M == MessagesIn(u)
           N == MessagesIn(s)
<1>1. x \in Record /\ x.role = "compaction" /\ x.id = k
  <2>1. k \in Nat
    BY LenProperties
  <2> QED BY <2>1, RecordsMade
<1> HIDE DEF x
<1>2. /\ u \in Seq(Record) /\ Len(u) = Len(s) + 1 /\ u[Len(u)] = x /\ Len(s) \in Nat
      /\ Len(u) \in 1..Len(u)
    BY <1>1
<1>3. CompactionsIn(u) # {} /\ Len(u) \in CompactionsIn(u)
    BY <1>1, <1>2 DEF CompactionsIn
<1>4. SubSeq(u, k, Len(u)) = Append(t, x)
    BY <1>1, <1>2
<1>5. t \in Seq(Record) /\ Range(t) \subseteq Range(s)
    BY DEF Range
<1>6. Range(u) = Range(s) \cup {x}
    BY <1>1, RangeOfAppend
<1> HIDE DEF u, t, M, N
<1>7. LatestIn(u) = Len(u)
  <2>1. LatestIn(u) \in 1..Len(u) /\ \A j \in CompactionsIn(u) : j <= LatestIn(u)
    BY <1>2, <1>3, LatestIs
  <2> QED BY <1>2, <1>3, <2>1
<1>8. Context(u) = <<Summary>> \o Keep(Append(t, x), M)
    BY <1>1, <1>2, <1>3, <1>4, <1>7 DEF Context, M
<1>9. Keep(Append(t, x), M) = Keep(t, M)
  <2>1. x \notin M
    BY <1>1 DEF M, MessagesIn
  <2> QED BY <2>1, <1>1, <1>5, KeepAppend
<1>10. Keep(t, M) = Keep(t, N)
  <2>1. Range(t) \cap M = Range(t) \cap N
    BY <1>5, <1>6 DEF M, N, MessagesIn
  <2> QED BY <2>1, <1>5, KeepSame
<1> QED BY <1>8, <1>9, <1>10 DEF u, x, t, N

\* Appending keeps what the entries promise.
LEMMA CutsConcat ==
    ASSUME NEW s \in Seq(Record), NEW ms \in Seq(Record), CutsBefore(s), AnswerIds(s),
           \A e \in Range(ms) : e.role # "compaction",
           \A k \in 1..Len(ms) : IsAssistant(ms[k]) => ms[k].id = Len(s) + k
    PROVE  /\ CutsBefore(s \o ms) /\ AnswerIds(s \o ms)
           /\ \A k \in Nat : IsCut(k, s) => IsCut(k, s \o ms)
<1> DEFINE u == s \o ms
<1>1. /\ u \in Seq(Record) /\ Len(u) = Len(s) + Len(ms)
      /\ Len(s) \in Nat /\ Len(ms) \in Nat
      /\ \A k \in 1..Len(s) : u[k] = s[k]
      /\ \A k \in 1..Len(u) : k > Len(s) => k - Len(s) \in 1..Len(ms) /\ u[k] = ms[k - Len(s)]
    BY ConcatProperties, LenProperties
<1>2. \A k \in 1..Len(ms) : ms[k] \in Range(ms)
    BY DEF Range
<1> HIDE DEF u
<1>3. CutsBefore(u)
  <2> SUFFICES ASSUME NEW k \in 1..Len(u), u[k].role = "compaction"
               PROVE  u[k].id \in 1..(k - 1) /\ u[u[k].id].role # "result"
    BY DEF CutsBefore
  <2>1. k \in 1..Len(s) /\ u[k] = s[k]
    BY <1>1, <1>2
  <2>2. s[k].id \in 1..(k - 1) /\ s[s[k].id].role # "result"
    BY <2>1 DEF CutsBefore
  <2>3. u[s[k].id] = s[s[k].id]
    <3>1. s[k].id \in 1..Len(s)
        BY <1>1, <2>1, <2>2
    <3> QED BY <1>1, <3>1
  <2> QED BY <2>1, <2>2, <2>3
<1>4. AnswerIds(u)
  <2> SUFFICES ASSUME NEW k \in 1..Len(u), IsAssistant(u[k]) PROVE u[k].id = k
    BY DEF AnswerIds
  <2>1. CASE k <= Len(s)
    BY <2>1, <1>1 DEF AnswerIds
  <2>2. CASE k > Len(s)
    <3>1. k - Len(s) \in 1..Len(ms) /\ u[k] = ms[k - Len(s)]
        BY <2>2, <1>1
    <3>2. ms[k - Len(s)].id = Len(s) + (k - Len(s))
        BY <3>1
    <3> QED BY <3>1, <3>2, <1>1
  <2> QED BY <2>1, <2>2, <1>1
<1>5. \A k \in Nat : IsCut(k, s) => IsCut(k, u)
    BY <1>1 DEF IsCut
<1> QED BY <1>3, <1>4, <1>5 DEF u

\* An entry of a compaction keeps the cuts and the ids of the answers.
LEMMA CutsCompacted ==
    ASSUME NEW s \in Seq(Record), CutsBefore(s), AnswerIds(s), NEW k \in Nat, IsCut(k, s)
    PROVE  /\ CutsBefore(Append(s, Compacted(k))) /\ AnswerIds(Append(s, Compacted(k)))
           /\ \A j \in Nat : IsCut(j, s) => IsCut(j, Append(s, Compacted(k)))
<1> DEFINE x == Compacted(k)
           u == Append(s, x)
<1>1. x \in Record /\ x.role = "compaction" /\ x.id = k
    BY RecordsMade
<1> HIDE DEF x
<1>2. /\ u \in Seq(Record) /\ Len(u) = Len(s) + 1 /\ u[Len(u)] = x /\ Len(s) \in Nat
      /\ \A j \in 1..Len(s) : u[j] = s[j]
    BY <1>1
<1> HIDE DEF u
<1>3. CutsBefore(u)
  <2> SUFFICES ASSUME NEW j \in 1..Len(u), u[j].role = "compaction"
               PROVE  u[j].id \in 1..(j - 1) /\ u[u[j].id].role # "result"
    BY DEF CutsBefore
  <2>1. CASE j = Len(u)
    BY <2>1, <1>1, <1>2 DEF IsCut
  <2>2. CASE j \in 1..Len(s)
    <3>1. s[j].id \in 1..(j - 1) /\ s[s[j].id].role # "result"
        BY <2>2, <1>2 DEF CutsBefore
    <3> QED BY <2>2, <3>1, <1>2
  <2> QED BY <2>1, <2>2, <1>2
<1>4. AnswerIds(u)
    BY <1>1, <1>2 DEF AnswerIds, IsAssistant
<1>5. \A j \in Nat : IsCut(j, s) => IsCut(j, u)
    BY <1>2 DEF IsCut
<1> QED BY <1>3, <1>4, <1>5 DEF u, x

-----------------------------------------------------------------------------
(***************************************************************************)
(* The transcript and the entries it comes from.                           *)
(***************************************************************************)
Persisted(ms, es) ==
    ms = Keep(Context(es), {e \in Range(Context(es)) : IsAssistant(e) => e \in Range(ms)})

\* t is ms without some of the answers at its end.
TrimOf(t, ms) ==
    /\ t \in Seq(Record)
    /\ \E r \in Seq(Record) : ms = t \o r /\ \A e \in Range(r) : IsAssistant(e)

UniqueAnswers(s) ==
    \A j, k \in 1..Len(s) : IsAssistant(s[j]) /\ s[j] = s[k] => j = k

\* The same messages appended to both.
LEMMA PersistedConcat ==
    ASSUME NEW ms \in Seq(Record), NEW es \in Seq(Record), NEW new \in Seq(Record),
           Persisted(ms, es), CutsBefore(es),
           \A e \in Range(new) : e.role # "compaction",
           \A e \in Range(new) : IsAssistant(e) => e \notin Range(es)
    PROVE  Persisted(ms \o new, es \o new)
<1> DEFINE C == Context(es)
           D == Context(es \o new)
           m == ms \o new
           S == {e \in Range(C) : IsAssistant(e) => e \in Range(ms)}
           R == {e \in Range(D) : IsAssistant(e) => e \in Range(m)}
<1>1. C \in Seq(Record) /\ Range(C) \subseteq Range(es) \cup {Summary}
    BY ContextType
<1>2. ms = Keep(C, S)
    BY DEF Persisted
<1>3. D = C \o new
    BY ContextConcat
<1> HIDE DEF C
<1>4. Range(C \o new) = Range(C) \cup Range(new)
    BY <1>1, RangeOfConcat
<1>5. Range(m) = Range(ms) \cup Range(new)
    BY RangeOfConcat
<1> HIDE DEF m
<1>6. Range(C) \cap R = Range(C) \cap S
  <2>1. ~IsAssistant(Summary)
    BY RecordsMade DEF IsAssistant
  <2>2. \A e \in Range(C) : IsAssistant(e) => e \notin Range(new)
    BY <1>1, <2>1
  <2> QED BY <1>3, <1>4, <1>5, <2>2
<1>7. Range(new) \subseteq R
    BY <1>3, <1>4, <1>5
<1> HIDE DEF R, S, D
<1>8. Keep(C \o new, R) = Keep(C, R) \o Keep(new, R)
    BY <1>1, KeepConcat
<1>9. Keep(C, R) = Keep(C, S)
    BY <1>1, <1>6, KeepSame
<1>10. Keep(new, R) = new
    BY <1>7, KeepSelects
<1>11. m = Keep(D, R)
    BY <1>2, <1>3, <1>8, <1>9, <1>10 DEF m
<1> QED BY <1>11 DEF Persisted, m, R, D

\* A fresh context is persisted.
LEMMA PersistedContext ==
    ASSUME NEW es \in Seq(Record), CutsBefore(es)
    PROVE  Persisted(Context(es), es)
<1> DEFINE C == Context(es)
           R == {e \in Range(C) : IsAssistant(e) => e \in Range(C)}
<1>1. C \in Seq(Record)
    BY ContextType
<1>2. Range(C) \subseteq R
    OBVIOUS
<1> HIDE DEF C, R
<1>3. Keep(C, R) = C
    BY <1>1, <1>2, KeepSelects
<1> QED BY <1>3 DEF Persisted, C, R

\* Answers with different ids are different.
LEMMA UniqueAppend ==
    ASSUME NEW s \in Seq(Record), NEW x \in Record
    PROVE  UniqueAnswers(Append(s, x))
              <=> UniqueAnswers(s) /\ (IsAssistant(x) => x \notin Range(s))
<1> DEFINE u == Append(s, x)
<1>1. /\ Len(u) = Len(s) + 1 /\ u[Len(s) + 1] = x /\ Len(s) \in Nat
      /\ \A k \in 1..Len(s) : u[k] = s[k]
    BY AppendProperties, LenProperties
<1>2. Range(s) = {s[k] : k \in 1..Len(s)}
    BY DEF Range
<1> HIDE DEF u
<1>3. UniqueAnswers(u) => UniqueAnswers(s)
    BY <1>1 DEF UniqueAnswers
<1>4. ASSUME UniqueAnswers(u), IsAssistant(x) PROVE x \notin Range(s)
  <2> SUFFICES ASSUME NEW k \in 1..Len(s), x = s[k] PROVE FALSE
    BY <1>2
  <2>1. k \in 1..Len(u) /\ Len(u) \in 1..Len(u) /\ u[Len(u)] = x /\ u[k] = x /\ k # Len(u)
    BY <1>1
  <2> QED BY <2>1, <1>4 DEF UniqueAnswers
<1>5. ASSUME UniqueAnswers(s), IsAssistant(x) => x \notin Range(s) PROVE UniqueAnswers(u)
  <2> SUFFICES ASSUME NEW j \in 1..Len(u), NEW k \in 1..Len(u), IsAssistant(u[j]), u[j] = u[k]
               PROVE  j = k
    BY DEF UniqueAnswers
  <2>1. \A l \in 1..Len(u) : l \in 1..Len(s) \/ l = Len(u)
    BY <1>1
  <2>2. CASE j \in 1..Len(s) /\ k \in 1..Len(s)
    BY <2>2, <1>1, <1>5 DEF UniqueAnswers
  <2>3. CASE j = Len(u) /\ k \in 1..Len(s)
    BY <2>3, <1>1, <1>2, <1>5
  <2>4. CASE k = Len(u) /\ j \in 1..Len(s)
    BY <2>4, <1>1, <1>2, <1>5
  <2> QED BY <2>1, <2>2, <2>3, <2>4
<1> QED BY <1>3, <1>4, <1>5 DEF u

\* Selecting keeps answers unique.
LEMMA UniqueKeep ==
    ASSUME NEW S
    PROVE  \A s \in Seq(Record) : UniqueAnswers(s) => UniqueAnswers(Keep(s, S))
<1> DEFINE T == {s \in Seq(Record) : UniqueAnswers(s) => UniqueAnswers(Keep(s, S))}
<1>1. <<>> \in T
    BY KeepEmpty DEF UniqueAnswers
<1>2. ASSUME NEW s \in Seq(Record), NEW x \in Record, s \in T PROVE Append(s, x) \in T
  <2> SUFFICES ASSUME UniqueAnswers(Append(s, x)) PROVE UniqueAnswers(Keep(Append(s, x), S))
    OBVIOUS
  <2>1. UniqueAnswers(s) /\ (IsAssistant(x) => x \notin Range(s))
    BY UniqueAppend
  <2>2. Keep(s, S) \in Seq(Record) /\ Range(Keep(s, S)) \subseteq Range(s)
    BY KeepType, KeepSelects
  <2>3. UniqueAnswers(Keep(s, S)) /\ (IsAssistant(x) => x \notin Range(Keep(s, S)))
    BY <1>2, <2>1, <2>2
  <2>4. UniqueAnswers(Append(Keep(s, S), x))
    BY <2>2, <2>3, UniqueAppend
  <2>5. Keep(Append(s, x), S) = IF x \in S THEN Append(Keep(s, S), x) ELSE Keep(s, S)
    BY KeepAppend
  <2> QED BY <2>3, <2>4, <2>5
<1> HIDE DEF T
<1>3. \A s \in Seq(Record) : s \in T
    BY <1>1, <1>2, InductionOnSeq
<1> QED BY <1>3 DEF T

\* No answer is twice in a context.
LEMMA UniqueContext ==
    ASSUME NEW s \in Seq(Record), CutsBefore(s), AnswerIds(s)
    PROVE  UniqueAnswers(Context(s))
<1>1. UniqueAnswers(s)
    BY DEF UniqueAnswers, AnswerIds
<1>2. CASE CompactionsIn(s) = {}
    BY <1>1, <1>2 DEF Context
<1>3. CASE CompactionsIn(s) # {}
  <2> DEFINE c == s[LatestIn(s)].id
             t == SubSeq(s, c, Len(s))
             u == Keep(t, MessagesIn(s))
             v == <<Summary>> \o u
  <2>1. c \in 1..Len(s)
    BY <1>3, LatestIs DEF CutsBefore
  <2>2. t \in Seq(Record) /\ UniqueAnswers(t)
    <3>1. /\ t \in Seq(Record) /\ Len(t) = Len(s) - c + 1
          /\ \A k \in 1..Len(t) : t[k] = s[k + c - 1]
        BY <2>1
    <3> HIDE DEF t
    <3>2. \A k \in 1..Len(t) : k + c - 1 \in 1..Len(s)
        BY <2>1, <3>1
    <3>3. ASSUME NEW j \in 1..Len(t), NEW k \in 1..Len(t), IsAssistant(t[j]), t[j] = t[k]
          PROVE  j = k
      <4>1. j + c - 1 = k + c - 1
        BY <3>1, <3>3, <3>2, <1>1 DEF UniqueAnswers
      <4> QED BY <4>1, <2>1
    <3> QED BY <3>1, <3>3 DEF UniqueAnswers
  <2>3. Context(s) = v
    BY <1>3 DEF Context
  <2> HIDE DEF t
  <2>4. u \in Seq(Record) /\ UniqueAnswers(u)
    BY <2>2, KeepType, UniqueKeep
  <2>5. Summary \in Record /\ ~IsAssistant(Summary)
    BY RecordsMade DEF IsAssistant
  <2> HIDE DEF u
  <2>6. /\ Len(v) = Len(u) + 1 /\ v[1] = Summary /\ Len(u) \in Nat
        /\ \A k \in 1..Len(v) : k # 1 => v[k] = u[k - 1] /\ k - 1 \in 1..Len(u)
    BY <2>4, <2>5
  <2> HIDE DEF v
  <2>7. UniqueAnswers(v)
    <3> SUFFICES ASSUME NEW j \in 1..Len(v), NEW k \in 1..Len(v), IsAssistant(v[j]), v[j] = v[k]
                 PROVE  j = k
        BY DEF UniqueAnswers
    <3>1. j # 1 /\ k # 1
        BY <2>5, <2>6
    <3>2. j - 1 = k - 1
        BY <3>1, <2>4, <2>6 DEF UniqueAnswers
    <3> QED BY <3>2
  <2> QED BY <2>3, <2>7
<1> QED BY <1>2, <1>3

\* Dropping answers from the end.
LEMMA PersistedTrim ==
    ASSUME NEW ms \in Seq(Record), NEW es \in Seq(Record), NEW t,
           Persisted(ms, es), CutsBefore(es), AnswerIds(es), TrimOf(t, ms)
    PROVE  Persisted(t, es)
<1> DEFINE C == Context(es)
           S == {e \in Range(C) : IsAssistant(e) => e \in Range(ms)}
           R == {e \in Range(C) : IsAssistant(e) => e \in Range(t)}
<1>1. C \in Seq(Record) /\ UniqueAnswers(C)
    BY ContextType, UniqueContext
<1>2. ms = Keep(C, S)
    BY DEF Persisted
<1>3. PICK r \in Seq(Record) : ms = t \o r /\ \A e \in Range(r) : IsAssistant(e)
    BY DEF TrimOf
<1>4. t \in Seq(Record)
    BY DEF TrimOf
<1> HIDE DEF C
<1>5. Range(ms) = Range(t) \cup Range(r)
    BY <1>3, <1>4, RangeOfConcat
<1>6. Range(r) \cap Range(t) = {}
  <2>1. UniqueAnswers(ms)
    <3> HIDE DEF S
    <3> QED BY <1>1, <1>2, UniqueKeep
  <2> SUFFICES ASSUME NEW e, e \in Range(r), e \in Range(t) PROVE FALSE
    OBVIOUS
  <2>2. PICK j \in 1..Len(r) : r[j] = e
    BY DEF Range
  <2>3. PICK k \in 1..Len(t) : t[k] = e
    BY <1>4 DEF Range
  <2>4. /\ Len(ms) = Len(t) + Len(r) /\ Len(t) \in Nat /\ Len(r) \in Nat
        /\ ms[k] = t[k] /\ ms[Len(t) + j] = r[j]
    BY <1>3, <1>4, ConcatProperties, LenProperties
  <2>5. k \in 1..Len(ms) /\ Len(t) + j \in 1..Len(ms) /\ k # Len(t) + j
    BY <2>4
  <2> QED BY <2>1, <2>2, <2>3, <2>4, <2>5, <1>3 DEF UniqueAnswers
<1>7. Range(ms) \subseteq S
    <2>1. Range(Keep(C, S)) = Range(C) \cap S
      <3> HIDE DEF S
      <3> QED BY <1>1, KeepSelects
    <2> QED BY <2>1, <1>2
<1>8. R \subseteq S /\ Range(t) \subseteq R /\ Range(r) \cap R = {}
    BY <1>3, <1>5, <1>6, <1>7
<1> HIDE DEF S, R
<1>9. Keep(ms, R) = Keep(C, S \cap R)
    BY <1>1, <1>2, KeepTwice
<1>10. S \cap R = R
    BY <1>8
<1>11. Keep(ms, R) = Keep(t, R) \o Keep(r, R)
    BY <1>3, <1>4, KeepConcat
<1>12. Keep(t, R) = t /\ Keep(r, R) = <<>>
    BY <1>4, <1>8, KeepSelects
<1>13. t \o <<>> = t
    BY <1>4
<1>14. t = Keep(C, R)
    BY <1>9, <1>10, <1>11, <1>12, <1>13
<1> QED BY <1>14 DEF Persisted, C, R

-----------------------------------------------------------------------------
(***************************************************************************)
(* What the session drops from the end of a transcript are answers.        *)
(***************************************************************************)
LEMMA TrimSelf ==
    ASSUME NEW s \in Seq(Record)
    PROVE  TrimOf(s, s)
<1>1. <<>> \in Seq(Record) /\ Range(<<>>) = {} /\ s = s \o <<>>
    BY DEF Range
<1> QED BY <1>1 DEF TrimOf

\* A prefix that ends before answers only is a trim.
LEMMA TrimPrefix ==
    ASSUME NEW s \in Seq(Record), NEW n \in 0..Len(s),
           \A j \in (n + 1)..Len(s) : IsAssistant(s[j])
    PROVE  TrimOf(SubSeq(s, 1, n), s)
<1> DEFINE t == SubSeq(s, 1, n)
           r == SubSeq(s, n + 1, Len(s))
<1>1. t \in Seq(Record) /\ r \in Seq(Record) /\ Len(s) \in Nat
    OBVIOUS
<1>2. s = t \o r
  <2> DEFINE u == t \o r
  <2>1. /\ u \in Seq(Record) /\ Len(u) = Len(t) + Len(r)
        /\ \A k \in 1..Len(u) : u[k] = IF k <= Len(t) THEN t[k] ELSE r[k - Len(t)]
    <3> HIDE DEF t, r
    <3> QED BY <1>1, ConcatProperties, LenProperties
  <2>2. /\ Len(t) = n /\ Len(r) = Len(s) - n
        /\ \A k \in 1..n : t[k] = s[k]
        /\ \A k \in 1..Len(r) : r[k] = s[k + n]
    OBVIOUS
  <2> HIDE DEF u, t, r
  <2>3. Len(u) = Len(s)
    BY <2>1, <2>2, <1>1
  <2>4. ASSUME NEW k \in 1..Len(s) PROVE u[k] = s[k]
    <3>1. CASE k <= n
        BY <3>1, <2>1, <2>2, <2>3
    <3>2. CASE k > n
      <4>1. k - n \in 1..Len(r) /\ (k - n) + n = k
        BY <3>2, <2>2, <1>1
      <4> QED BY <3>2, <4>1, <2>1, <2>2, <2>3
    <3> QED BY <3>1, <3>2, <1>1
  <2>5. u = s
    BY <2>1, <2>3, <2>4, SeqEqual
  <2> QED BY <2>5 DEF u
<1>3. /\ Len(r) = Len(s) - n
      /\ \A k \in 1..Len(r) : r[k] = s[k + n] /\ k + n \in (n + 1)..Len(s)
    OBVIOUS
<1> HIDE DEF r, t
<1>4. \A e \in Range(r) : IsAssistant(e)
  <2>1. Range(r) = {r[k] : k \in 1..Len(r)}
    BY <1>1 DEF Range
  <2> QED BY <1>3, <2>1
<1> QED BY <1>1, <1>2, <1>4 DEF TrimOf, t

\* A trim of a trim is a trim.
LEMMA TrimTwice ==
    ASSUME NEW s, NEW t, NEW u, TrimOf(t, s), TrimOf(u, t)
    PROVE  TrimOf(u, s)
<1>1. PICK r \in Seq(Record) : s = t \o r /\ \A e \in Range(r) : IsAssistant(e)
    BY DEF TrimOf
<1>2. PICK q \in Seq(Record) : t = u \o q /\ \A e \in Range(q) : IsAssistant(e)
    BY DEF TrimOf
<1>3. u \in Seq(Record)
    BY DEF TrimOf
<1>4. s = u \o (q \o r) /\ q \o r \in Seq(Record)
  <2>1. (u \o q) \o r = u \o (q \o r)
    BY <1>3, ConcatAssociative
  <2> QED BY <1>1, <1>2, <2>1
<1>5. Range(q \o r) = Range(q) \cup Range(r)
    BY RangeOfConcat
<1> QED BY <1>1, <1>2, <1>3, <1>4, <1>5 DEF TrimOf

\* Dropping the last answer is a trim.
LEMMA DropIsTrim ==
    ASSUME NEW s \in Seq(Record)
    PROVE  TrimOf(DropAssistant(s), s)
<1>1. CASE EndsOnAssistant(s)
  <2>1. Len(s) \in Nat /\ Len(s) # 0 /\ IsAssistant(s[Len(s)])
    BY <1>1 DEF EndsOnAssistant, Last
  <2>2. DropAssistant(s) = SubSeq(s, 1, Len(s) - 1)
    BY <1>1 DEF DropAssistant, Front
  <2>3. Len(s) - 1 \in 0..Len(s) /\ \A j \in ((Len(s) - 1) + 1)..Len(s) : IsAssistant(s[j])
    BY <2>1
  <2> QED BY <2>2, <2>3, TrimPrefix
<1>2. CASE ~EndsOnAssistant(s)
    BY <1>2, TrimSelf DEF DropAssistant
<1> QED BY <1>1, <1>2

\* _trimTrailingAssistantsForRetry trims, and stops at a tool call.
LEMMA TrimIsTrim ==
    ASSUME NEW s \in Seq(Record)
    PROVE  /\ TrimOf(TrimTrailingAssistants(s), s)
           /\ EndsOnAssistant(TrimTrailingAssistants(s))
                 => Last(TrimTrailingAssistants(s)).stop = "tool"
<1> DEFINE ends == {k \in 0..Len(s) :
                      \A j \in (k + 1)..Len(s) : IsAssistant(s[j]) /\ s[j].stop # "tool"}
           n == CHOOSE k \in ends : \A j \in ends : k <= j
           t == SubSeq(s, 1, n)
<1>1. TrimTrailingAssistants(s) = t
    BY DEF TrimTrailingAssistants
<1>2. Len(s) \in Nat /\ Len(s) \in ends /\ ends \in SUBSET Nat
    OBVIOUS
<1>3. \E k \in ends : \A j \in ends : k <= j
  <2> HIDE DEF ends
  <2> QED BY <1>2, LeastNumber
<1>4. n \in ends /\ \A j \in ends : n <= j
    BY <1>3
<1> HIDE DEF n
<1>5. n \in 0..Len(s) /\ \A j \in (n + 1)..Len(s) : IsAssistant(s[j]) /\ s[j].stop # "tool"
    BY <1>4
<1>6. TrimOf(t, s)
    BY <1>5, TrimPrefix
<1>7. ASSUME EndsOnAssistant(t), Last(t).stop # "tool" PROVE FALSE
  <2>1. Len(t) = n /\ t # <<>> /\ n # 0
    BY <1>5, <1>7 DEF EndsOnAssistant
  <2>2. t[Len(t)] = s[n] /\ Last(t) = t[Len(t)]
    BY <1>5, <2>1 DEF Last
  <2>3. IsAssistant(s[n]) /\ s[n].stop # "tool"
    BY <1>7, <2>1, <2>2 DEF EndsOnAssistant
  <2>4. n - 1 \in 0..Len(s) /\ \A j \in ((n - 1) + 1)..Len(s) : j = n \/ j \in (n + 1)..Len(s)
    BY <1>5, <2>1
  <2>5. n - 1 \in ends
    BY <2>3, <2>4, <1>5
  <2> QED BY <2>5, <1>4, <1>5
<1> QED BY <1>1, <1>6, <1>7

\* So does what a retry makes of the context after a compaction.
LEMMA ReadyIsTrim ==
    ASSUME NEW s \in Seq(Record)
    PROVE  TrimOf(ReadyToRetry(s), s)
<1>1. CASE EndsOnAssistant(s) /\ Last(s).stop = "error"
  <2>1. TrimOf(Front(s), s)
    BY <1>1, DropIsTrim DEF DropAssistant
  <2>2. Front(s) \in Seq(Record)
    BY <2>1 DEF TrimOf
  <2>3. TrimOf(TrimTrailingAssistants(Front(s)), Front(s))
    BY <2>2, TrimIsTrim
  <2> QED BY <1>1, <2>1, <2>3, TrimTwice DEF ReadyToRetry
<1>2. CASE ~(EndsOnAssistant(s) /\ Last(s).stop = "error")
    BY <1>2, TrimIsTrim DEF ReadyToRetry
<1> QED BY <1>1, <1>2

\* And what _safeAgentContinue makes of the transcript.
LEMMA TrimmedIsTrim ==
    ASSUME messages \in Seq(Record)
    PROVE  TrimOf(Trimmed, messages)
BY TrimIsTrim, TrimSelf DEF Trimmed

\* The first message stays.
LEMMA TrimKeepsHead ==
    ASSUME NEW s \in Seq(Record), NEW t, TrimOf(t, s), s # <<>>, ~IsAssistant(s[1])
    PROVE  t \in Seq(Record) /\ t # <<>> /\ ~IsAssistant(t[1])
<1>1. PICK r \in Seq(Record) : s = t \o r /\ \A e \in Range(r) : IsAssistant(e)
    BY DEF TrimOf
<1>2. t \in Seq(Record)
    BY DEF TrimOf
<1>3. t # <<>>
  <2> SUFFICES ASSUME t = <<>> PROVE FALSE
    OBVIOUS
  <2>1. s = r /\ 1 \in 1..Len(r)
    BY <1>1
  <2>2. r[1] \in Range(r)
    BY <2>1 DEF Range
  <2> QED BY <2>1, <2>2, <1>1
<1>4. t[1] = s[1]
    BY <1>1, <1>2, <1>3
<1> QED BY <1>2, <1>3, <1>4

-----------------------------------------------------------------------------
(***************************************************************************)
(* Answers that ask for a tool, and the results that follow them.          *)
(***************************************************************************)
Pairs(s) ==
    \A k \in 1..Len(s) :
        /\ s[k].role = "result" =>
              /\ k > 1
              /\ IsAssistant(s[k - 1])
              /\ s[k - 1].id = s[k].id
        /\ s[k].stop = "tool" /\ k < Len(s) => s[k + 1].role = "result"

\* The last answer waits for its result.
Open(s) == s # <<>> /\ s[Len(s)].stop = "tool"

Joins(s, x) ==
    /\ x.role = "result" =>
          s # <<>> /\ IsAssistant(s[Len(s)]) /\ s[Len(s)].id = x.id
    /\ Open(s) => x.role = "result"

\* When a message may be appended to well-formed pairs.
LEMMA PairsAppend ==
    ASSUME NEW s \in Seq(Record), NEW x \in Record
    PROVE  Pairs(Append(s, x)) <=> Pairs(s) /\ Joins(s, x)
<1> DEFINE u == Append(s, x)
<1>1. /\ Len(u) = Len(s) + 1 /\ u[Len(s) + 1] = x /\ Len(s) \in Nat
      /\ \A k \in 1..Len(s) : u[k] = s[k]
    BY AppendProperties, LenProperties
<1>2. s # <<>> <=> Len(s) # 0
    BY EmptySeq
<1> HIDE DEF u
<1>3. ASSUME Pairs(u) PROVE Pairs(s) /\ Joins(s, x)
  <2>1. ASSUME NEW k \in 1..Len(s)
        PROVE  /\ s[k].role = "result" => k > 1 /\ IsAssistant(s[k - 1]) /\ s[k - 1].id = s[k].id
               /\ s[k].stop = "tool" /\ k < Len(s) => s[k + 1].role = "result"
    <3>1. k \in 1..Len(u) /\ u[k] = s[k]
        BY <1>1
    <3>2. k > 1 => u[k - 1] = s[k - 1]
        BY <1>1
    <3>3. k < Len(s) => u[k + 1] = s[k + 1] /\ k < Len(u)
        BY <1>1
    <3> QED BY <3>1, <3>2, <3>3, <1>3 DEF Pairs
  <2>2. Pairs(s)
    BY <2>1 DEF Pairs
  <2>3. ASSUME x.role = "result"
        PROVE  s # <<>> /\ IsAssistant(s[Len(s)]) /\ s[Len(s)].id = x.id
    <3>1. Len(u) \in 1..Len(u) /\ u[Len(u)] = x
        BY <1>1
    <3>2. Len(u) > 1 /\ IsAssistant(u[Len(u) - 1]) /\ u[Len(u) - 1].id = x.id
        BY <3>1, <2>3, <1>3 DEF Pairs
    <3>3. Len(u) - 1 = Len(s) /\ Len(s) \in 1..Len(s)
        BY <3>2, <1>1
    <3> QED BY <3>2, <3>3, <1>1, <1>2
  <2>4. ASSUME Open(s) PROVE x.role = "result"
    <3>1. Len(s) \in 1..Len(u) /\ Len(s) \in 1..Len(s) /\ u[Len(s)].stop = "tool" /\ Len(s) < Len(u)
        BY <2>4, <1>1, <1>2 DEF Open
    <3> QED BY <3>1, <1>1, <1>3 DEF Pairs
  <2> QED BY <2>2, <2>3, <2>4 DEF Joins
<1>4. ASSUME Pairs(s), Joins(s, x) PROVE Pairs(u)
  <2> SUFFICES ASSUME NEW k \in 1..Len(u)
               PROVE  /\ u[k].role = "result" => k > 1 /\ IsAssistant(u[k - 1]) /\ u[k - 1].id = u[k].id
                      /\ u[k].stop = "tool" /\ k < Len(u) => u[k + 1].role = "result"
    BY DEF Pairs
  <2>1. CASE k = Len(u)
    <3>1. u[k] = x /\ k - 1 = Len(s)
        BY <2>1, <1>1
    <3>2. ASSUME x.role = "result" PROVE k > 1 /\ IsAssistant(u[k - 1]) /\ u[k - 1].id = u[k].id
      <4>1. Len(s) # 0 /\ IsAssistant(s[Len(s)]) /\ s[Len(s)].id = x.id
        BY <3>2, <1>2, <1>4 DEF Joins
      <4> QED BY <4>1, <3>1, <1>1
    <3> QED BY <3>1, <3>2, <2>1, <1>1
  <2>2. CASE k \in 1..Len(s)
    <3>1. u[k] = s[k] /\ (k > 1 => u[k - 1] = s[k - 1])
        BY <2>2, <1>1
    <3>2. k < Len(s) => u[k + 1] = s[k + 1]
        BY <2>2, <1>1
    <3>3. k = Len(s) /\ s[k].stop = "tool" => u[k + 1].role = "result"
        BY <2>2, <1>1, <1>2, <1>4 DEF Joins, Open
    <3> QED BY <3>1, <3>2, <3>3, <2>2, <1>1, <1>4 DEF Pairs
  <2> QED BY <2>1, <2>2, <1>1
<1> QED BY <1>3, <1>4 DEF u

\* Messages of the user and of bash.
Plain == {m \in Record : m.role \in {"user", "bash"}}

\* Messages of users and bash results may, unless a call is open.
LEMMA PairsPlain ==
    ASSUME NEW s \in Seq(Record), Pairs(s), ~Open(s)
    PROVE  \A ms \in Seq(Plain) : Pairs(s \o ms) /\ ~Open(s \o ms)
<1> DEFINE T == {ms \in Seq(Plain) : Pairs(s \o ms) /\ ~Open(s \o ms)}
<1>1. <<>> \in T
  <2>1. s \o <<>> = s
    OBVIOUS
  <2> QED BY <2>1
<1>2. ASSUME NEW ms \in Seq(Plain), NEW x \in Plain, ms \in T PROVE Append(ms, x) \in T
  <2> DEFINE u == s \o ms
  <2>0. ms \in Seq(Record)
    BY DEF Plain
  <2>1. u \in Seq(Record) /\ s \o Append(ms, x) = Append(u, x) /\ x \in Record
    BY <2>0 DEF Plain
  <2>2. Pairs(u) /\ ~Open(u)
    BY <1>2
  <2> HIDE DEF u
  <2>3. x.role # "result" /\ x.stop # "tool"
    BY DEF Plain, Record
  <2>4. Pairs(Append(u, x))
    BY <2>1, <2>2, <2>3, PairsAppend DEF Joins
  <2>5. Append(u, x)[Len(Append(u, x))] = x
    BY <2>1
  <2>6. ~Open(Append(u, x))
    BY <2>3, <2>5 DEF Open
  <2>7. Append(ms, x) \in Seq(Plain)
    OBVIOUS
  <2> QED BY <2>1, <2>4, <2>6, <2>7
<1> HIDE DEF T
<1>3. \A ms \in Seq(Plain) : ms \in T
    BY <1>1, <1>2, InductionOnSeq
<1> QED BY <1>3 DEF T

\* Dropping answers from the end.
LEMMA PairsTrim ==
    ASSUME NEW s \in Seq(Record), NEW t, Pairs(s), ~Open(s), TrimOf(t, s)
    PROVE  Pairs(t) /\ ~Open(t)
<1>1. PICK r \in Seq(Record) : s = t \o r /\ \A e \in Range(r) : IsAssistant(e)
    BY DEF TrimOf
<1>2. t \in Seq(Record)
    BY DEF TrimOf
<1>3. /\ Len(s) = Len(t) + Len(r) /\ Len(t) \in Nat /\ Len(r) \in Nat
      /\ \A k \in 1..Len(t) : s[k] = t[k]
      /\ \A k \in 1..Len(r) : s[Len(t) + k] = r[k]
    BY <1>1, <1>2, ConcatProperties, LenProperties
<1>4. Pairs(t)
  <2> SUFFICES ASSUME NEW k \in 1..Len(t)
               PROVE  /\ t[k].role = "result" => k > 1 /\ IsAssistant(t[k - 1]) /\ t[k - 1].id = t[k].id
                      /\ t[k].stop = "tool" /\ k < Len(t) => t[k + 1].role = "result"
    BY DEF Pairs
  <2>1. k \in 1..Len(s) /\ s[k] = t[k] /\ (k > 1 => s[k - 1] = t[k - 1])
    BY <1>3
  <2>2. k < Len(t) => s[k + 1] = t[k + 1] /\ k < Len(s)
    BY <1>3
  <2> QED BY <2>1, <2>2 DEF Pairs
<1>5. ASSUME Open(t) PROVE FALSE
  <2>1. Len(t) \in 1..Len(t) /\ t[Len(t)].stop = "tool"
    BY <1>2, <1>3, <1>5, EmptySeq DEF Open
  <2>2. CASE Len(r) = 0
    <3>1. s[Len(s)] = t[Len(t)] /\ s # <<>>
        BY <2>1, <2>2, <1>3
    <3> QED BY <3>1, <2>1 DEF Open
  <2>3. CASE Len(r) # 0
    <3>1. s[Len(t) + 1] = r[1] /\ Len(t) < Len(s) /\ Len(t) \in 1..Len(s) /\ 1 \in 1..Len(r)
        BY <2>1, <2>3, <1>3
    <3>2. s[Len(t) + 1].role = "result"
        BY <3>1, <2>1, <1>3 DEF Pairs
    <3>3. r[1] \in Range(r)
        BY <3>1 DEF Range
    <3> QED BY <3>1, <3>2, <3>3, <1>1 DEF IsAssistant
  <2> QED BY <2>2, <2>3
<1> QED BY <1>4, <1>5

-----------------------------------------------------------------------------
(***************************************************************************)
(* A compaction keeps pairs together: the cut is no result, and nothing    *)
(* lies between an answer that asks for a tool and its result.             *)
(***************************************************************************)
NoCompactions == {m \in Record : m.role # "compaction"}

\* The last element after an append.
LEMMA LastAppended ==
    ASSUME NEW X, NEW s \in Seq(X), NEW x \in X
    PROVE  /\ Append(s, x) \in Seq(X) /\ Append(s, x) # <<>>
           /\ Len(Append(s, x)) = Len(s) + 1
           /\ Append(s, x)[Len(Append(s, x))] = x
OBVIOUS

\* The elements behind a first one.
LEMMA FirstPrepended ==
    ASSUME NEW X, NEW x \in X, NEW s \in Seq(X)
    PROVE  /\ <<x>> \o s \in Seq(X) /\ <<x>> \o s # <<>>
           /\ Len(<<x>> \o s) = Len(s) + 1
           /\ (<<x>> \o s)[1] = x
           /\ \A j \in 1..Len(s) : (<<x>> \o s)[j + 1] = s[j]
<1> DEFINE a == <<x>>
<1>1. a \in Seq(X) /\ Len(a) = 1 /\ a[1] = x
    OBVIOUS
<1> HIDE DEF a
<1>2. /\ a \o s \in Seq(X) /\ Len(a \o s) = 1 + Len(s) /\ Len(s) \in Nat
      /\ \A j \in 1..Len(a \o s) : (a \o s)[j] = IF j <= 1 THEN a[j] ELSE s[j - 1]
    BY <1>1, ConcatProperties, LenProperties
<1>3. (a \o s)[1] = x /\ a \o s # <<>>
    BY <1>1, <1>2
<1>4. ASSUME NEW j \in 1..Len(s) PROVE (a \o s)[j + 1] = s[j]
  <2>1. j + 1 \in 1..Len(a \o s) /\ ~(j + 1 <= 1) /\ (j + 1) - 1 = j
    BY <1>2
  <2> QED BY <1>2, <2>1
<1> QED BY <1>2, <1>3, <1>4 DEF a

\* If the last element is selected it stays the last.
LEMMA KeepLast ==
    ASSUME NEW s \in Seq(Record), NEW S, s # <<>>, s[Len(s)] \in S
    PROVE  Keep(s, S) # <<>> /\ Keep(s, S)[Len(Keep(s, S))] = s[Len(s)]
<1> DEFINE f == SubSeq(s, 1, Len(s) - 1)
           x == s[Len(s)]
           q == Keep(f, S)
<1>1. f \in Seq(Record) /\ x \in Record /\ s = Append(f, x)
    OBVIOUS
<1> HIDE DEF f, x
<1>2. Keep(s, S) = Append(q, x)
  <2>1. x \in S
    BY DEF x
  <2>2. Keep(Append(f, x), S) = Append(q, x)
    BY <1>1, <2>1, KeepAppend
  <2> QED BY <1>1, <2>2
<1>3. q \in Seq(Record)
    BY <1>1, KeepType
<1> HIDE DEF q
<1>4. Append(q, x) # <<>> /\ Append(q, x)[Len(Append(q, x))] = x
    BY <1>1, <1>3
<1> QED BY <1>2, <1>4 DEF x

\* Leaving out the entries of compactions keeps pairs.
LEMMA PairsKeep ==
    \A s \in Seq(Record) :
        Pairs(s) => /\ Pairs(Keep(s, NoCompactions))
                    /\ Open(Keep(s, NoCompactions)) => Open(s)
<1> DEFINE S == NoCompactions
           T == {s \in Seq(Record) :
                    Pairs(s) => Pairs(Keep(s, S)) /\ (Open(Keep(s, S)) => Open(s))}
<1>1. <<>> \in T
    BY KeepEmpty DEF Pairs, Open
<1>2. ASSUME NEW s \in Seq(Record), NEW x \in Record, s \in T PROVE Append(s, x) \in T
  <2> SUFFICES ASSUME Pairs(Append(s, x))
               PROVE  /\ Pairs(Keep(Append(s, x), S))
                      /\ Open(Keep(Append(s, x), S)) => Open(Append(s, x))
    OBVIOUS
  <2> DEFINE q == Keep(s, S)
  <2>1. Pairs(s) /\ Joins(s, x)
    BY PairsAppend
  <2>2. Pairs(q) /\ (Open(q) => Open(s)) /\ q \in Seq(Record)
    BY <1>2, <2>1, KeepType
  <2>3. Keep(Append(s, x), S) = IF x \in S THEN Append(q, x) ELSE q
    BY KeepAppend
  <2>4. s # <<>> /\ s[Len(s)] \in S => q # <<>> /\ q[Len(q)] = s[Len(s)]
    BY KeepLast
  <2>5. s # <<>> => s[Len(s)] \in Record
    OBVIOUS
  <2>6. /\ Append(s, x)[Len(Append(s, x))] = x /\ Append(s, x) # <<>>
        /\ Append(q, x)[Len(Append(q, x))] = x
    BY <2>2
  <2> HIDE DEF q
  <2>7. CASE x \in S
    <3>1. Joins(q, x)
      <4>1. ASSUME x.role = "result"
            PROVE  q # <<>> /\ IsAssistant(q[Len(q)]) /\ q[Len(q)].id = x.id
        <5>1. s # <<>> /\ IsAssistant(s[Len(s)]) /\ s[Len(s)].id = x.id
            BY <4>1, <2>1 DEF Joins
        <5>2. s[Len(s)] \in S
            BY <5>1, <2>5 DEF NoCompactions, IsAssistant
        <5> QED BY <5>1, <5>2, <2>4
      <4>2. Open(q) => x.role = "result"
        BY <2>1, <2>2 DEF Joins
      <4> QED BY <4>1, <4>2 DEF Joins
    <3>2. Pairs(Append(q, x))
        BY <3>1, <2>2, PairsAppend
    <3>3. Open(Append(q, x)) => Open(Append(s, x))
        BY <2>6 DEF Open
    <3> QED BY <3>2, <3>3, <2>3, <2>7
  <2>8. CASE x \notin S
    <3>1. x.role # "result"
        BY <2>8 DEF NoCompactions
    <3>2. ~Open(q)
        BY <3>1, <2>1, <2>2 DEF Joins
    <3> QED BY <3>2, <2>2, <2>3, <2>8
  <2> QED BY <2>7, <2>8
<1> HIDE DEF T
<1>3. \A s \in Seq(Record) : s \in T
    BY <1>1, <1>2, InductionOnSeq
<1> QED BY <1>3 DEF T

\* A suffix that does not start with a result keeps pairs.
LEMMA PairsSuffix ==
    ASSUME NEW s \in Seq(Record), Pairs(s), NEW k \in Nat, IsCut(k, s)
    PROVE  /\ Pairs(SubSeq(s, k, Len(s)))
           /\ Open(SubSeq(s, k, Len(s))) => Open(s)
<1> DEFINE t == SubSeq(s, k, Len(s))
<1>1. k \in 1..Len(s) /\ s[k].role # "result" /\ Len(s) \in Nat
    BY DEF IsCut
<1>2. /\ Len(t) = Len(s) - k + 1 /\ t \in Seq(Record)
      /\ \A j \in 1..Len(t) : t[j] = s[j + k - 1] /\ j + k - 1 \in 1..Len(s)
    BY <1>1
<1> HIDE DEF t
<1>3. Pairs(t)
  <2> SUFFICES ASSUME NEW j \in 1..Len(t)
               PROVE  /\ t[j].role = "result" => j > 1 /\ IsAssistant(t[j - 1]) /\ t[j - 1].id = t[j].id
                      /\ t[j].stop = "tool" /\ j < Len(t) => t[j + 1].role = "result"
    BY DEF Pairs
  <2>1. t[j] = s[j + k - 1] /\ j + k - 1 \in 1..Len(s)
    BY <1>2
  <2>2. ASSUME t[j].role = "result" PROVE j > 1 /\ IsAssistant(t[j - 1]) /\ t[j - 1].id = t[j].id
    <3>1. j # 1
        BY <2>1, <2>2, <1>1
    <3>2. j > 1 /\ j - 1 \in 1..Len(t) /\ (j - 1) + k - 1 = (j + k - 1) - 1
        BY <3>1, <1>1, <1>2
    <3>3. t[j - 1] = s[(j + k - 1) - 1]
        BY <3>2, <1>2
    <3>4. IsAssistant(s[(j + k - 1) - 1]) /\ s[(j + k - 1) - 1].id = s[j + k - 1].id
        BY <2>1, <2>2 DEF Pairs
    <3> QED BY <2>1, <3>2, <3>3, <3>4
  <2>3. ASSUME t[j].stop = "tool", j < Len(t) PROVE t[j + 1].role = "result"
    <3>1. j + 1 \in 1..Len(t) /\ (j + 1) + k - 1 = (j + k - 1) + 1 /\ j + k - 1 < Len(s)
        BY <2>3, <1>1, <1>2
    <3>2. s[(j + k - 1) + 1].role = "result"
        BY <2>1, <2>3, <3>1 DEF Pairs
    <3>3. t[j + 1] = s[(j + k - 1) + 1]
      <4>1. t[j + 1] = s[(j + 1) + k - 1]
        BY <3>1, <1>2
      <4> QED BY <3>1, <4>1
    <3> QED BY <3>2, <3>3
  <2> QED BY <2>2, <2>3
<1>4. Open(t) => Open(s)
  <2>1. Len(t) \in 1..Len(t) /\ Len(t) + k - 1 = Len(s)
    BY <1>1, <1>2
  <2>2. t[Len(t)] = s[Len(s)] /\ s # <<>>
    <3>1. t[Len(t)] = s[Len(t) + k - 1]
        BY <2>1, <1>2
    <3>2. s # <<>>
        BY <1>1
    <3> QED BY <2>1, <3>1, <3>2
  <2> QED BY <2>2 DEF Open
<1> QED BY <1>3, <1>4 DEF t

\* The context after a compaction has pairs, and no open call.
LEMMA PairsCompacted ==
    ASSUME NEW s \in Seq(Record), Pairs(s), ~Open(s), NEW k \in Nat, IsCut(k, s)
    PROVE  /\ Pairs(Append(s, Compacted(k))) /\ ~Open(Append(s, Compacted(k)))
           /\ Pairs(Context(Append(s, Compacted(k))))
           /\ ~Open(Context(Append(s, Compacted(k))))
<1> DEFINE x == Compacted(k)
           t == SubSeq(s, k, Len(s))
           q == Keep(t, NoCompactions)
           v == <<Summary>> \o q
<1>1. x \in Record /\ x.role = "compaction" /\ x.stop = ""
    BY RecordsMade
<1> HIDE DEF x
<1>2. Pairs(Append(s, x))
    BY <1>1, PairsAppend DEF Joins
<1>3. ~Open(Append(s, x))
  <2>1. Append(s, x)[Len(Append(s, x))] = x
    BY <1>1, LastAppended
  <2> QED BY <1>1, <2>1 DEF Open
<1>4. k \in 1..Len(s)
    BY DEF IsCut
<1>5. t \in Seq(Record) /\ Range(t) \subseteq Range(s)
    BY <1>4 DEF Range
<1>6. Keep(t, MessagesIn(s)) = q
  <2>1. Range(s) \subseteq Record
    BY DEF Range
  <2> DEFINE M == MessagesIn(s)
  <2>2. Range(t) \cap M = Range(t) \cap NoCompactions
    BY <1>5, <2>1 DEF MessagesIn, NoCompactions
  <2> HIDE DEF M, t
  <2>3. Keep(t, M) = Keep(t, NoCompactions)
    BY <1>5, <2>2, KeepSame
  <2> QED BY <2>3 DEF M, t
<1>7. Context(Append(s, x)) = v
    BY <1>4, <1>6, ContextOfCompaction DEF x
<1>8. Pairs(t) /\ ~Open(t)
    BY PairsSuffix
<1> HIDE DEF t
<1>9. Pairs(q) /\ ~Open(q) /\ q \in Seq(Record)
    BY <1>5, <1>8, PairsKeep, KeepType
<1> HIDE DEF q
<1>10. Summary \in Record /\ Summary.role = "summary" /\ Summary.stop = ""
    BY RecordsMade
<1>11. /\ Len(v) = Len(q) + 1 /\ v[1] = Summary /\ Len(q) \in Nat
       /\ \A j \in 1..Len(q) : v[j + 1] = q[j]
  <2> DEFINE y == Summary
  <2>1. y \in Record /\ q \in Seq(Record)
    BY <1>9, <1>10
  <2> HIDE DEF y
  <2>2. /\ Len(<<y>> \o q) = Len(q) + 1 /\ (<<y>> \o q)[1] = y
        /\ \A j \in 1..Len(q) : (<<y>> \o q)[j + 1] = q[j]
    BY <2>1, FirstPrepended
  <2>3. Len(q) \in Nat
    BY <2>1, LenProperties
  <2> QED BY <2>2, <2>3 DEF y
<1> HIDE DEF v
<1>12. Pairs(v)
  <2> SUFFICES ASSUME NEW j \in 1..Len(v)
               PROVE  /\ v[j].role = "result" => j > 1 /\ IsAssistant(v[j - 1]) /\ v[j - 1].id = v[j].id
                      /\ v[j].stop = "tool" /\ j < Len(v) => v[j + 1].role = "result"
    BY DEF Pairs
  <2>1. CASE j = 1
    BY <2>1, <1>10, <1>11
  <2>2. CASE j # 1
    <3>1. j - 1 \in 1..Len(q) /\ (j - 1) + 1 = j
        BY <2>2, <1>11
    <3>2. v[j] = q[j - 1]
        BY <3>1, <1>11
    <3>3. /\ q[j - 1].role = "result" =>
                j - 1 > 1 /\ IsAssistant(q[(j - 1) - 1]) /\ q[(j - 1) - 1].id = q[j - 1].id
          /\ q[j - 1].stop = "tool" /\ j - 1 < Len(q) => q[(j - 1) + 1].role = "result"
        BY <3>1, <1>9 DEF Pairs
    <3>4. j - 1 > 1 => (j - 1) - 1 \in 1..Len(q) /\ ((j - 1) - 1) + 1 = j - 1
        BY <3>1, <1>11
    <3>5. j - 1 > 1 => v[j - 1] = q[(j - 1) - 1]
        BY <3>4, <1>11
    <3>6. j < Len(v) => j \in 1..Len(q) /\ j - 1 < Len(q)
        BY <3>1, <1>11
    <3>7. j < Len(v) => v[j + 1] = q[j]
        BY <3>6, <1>11
    <3>8. ASSUME v[j].role = "result"
          PROVE  j > 1 /\ IsAssistant(v[j - 1]) /\ v[j - 1].id = v[j].id
      <4>1. j - 1 > 1 /\ IsAssistant(q[(j - 1) - 1]) /\ q[(j - 1) - 1].id = q[j - 1].id
        BY <3>2, <3>3, <3>8
      <4>2. v[j - 1] = q[(j - 1) - 1]
        BY <4>1, <3>5
      <4> QED BY <4>1, <4>2, <3>2, <2>2
    <3>9. ASSUME v[j].stop = "tool", j < Len(v) PROVE v[j + 1].role = "result"
      <4>1. q[(j - 1) + 1].role = "result"
        BY <3>2, <3>3, <3>6, <3>9
      <4> QED BY <4>1, <3>1, <3>7, <3>9
    <3> QED BY <3>8, <3>9
  <2> QED BY <2>1, <2>2
<1>13. ~Open(v)
  <2>1. CASE Len(q) = 0
    <3>1. v[Len(v)] = Summary
        BY <2>1, <1>11
    <3> QED BY <3>1, <1>10 DEF Open
  <2>2. CASE Len(q) # 0
    <3>1. v[Len(v)] = q[Len(q)] /\ q # <<>>
        BY <2>2, <1>9, <1>11
    <3> QED BY <3>1, <1>9 DEF Open
  <2> QED BY <2>1, <2>2
<1> QED BY <1>2, <1>3, <1>7, <1>12, <1>13 DEF x

\* The context ends with the last entry, and starts with the summary.
LEMMA CompactedEnds ==
    ASSUME NEW s \in Seq(Record), NEW k \in 1..Len(s)
    PROVE  LET c == Context(Append(s, Compacted(k)))
           IN  /\ c \in Seq(Record) /\ c # <<>> /\ ~IsAssistant(c[1])
               /\ s[Len(s)].role # "compaction" => c[Len(c)] = s[Len(s)]
<1> DEFINE t == SubSeq(s, k, Len(s))
           M == MessagesIn(s)
           q == Keep(t, M)
           v == <<Summary>> \o q
<1>1. t \in Seq(Record) /\ t # <<>> /\ t[Len(t)] = s[Len(s)] /\ Len(s) \in 1..Len(s)
    OBVIOUS
<1>2. s[Len(s)].role # "compaction" => s[Len(s)] \in M
    BY <1>1 DEF MessagesIn, Range
<1>3. Context(Append(s, Compacted(k))) = v
    BY ContextOfCompaction
<1> HIDE DEF t, M
<1>4. q \in Seq(Record)
    BY <1>1, KeepType
<1>5. s[Len(s)].role # "compaction" => q # <<>> /\ q[Len(q)] = s[Len(s)]
    BY <1>1, <1>2, KeepLast
<1>6. Summary \in Record /\ ~IsAssistant(Summary)
    BY RecordsMade DEF IsAssistant
<1> HIDE DEF q
<1>7. /\ v \in Seq(Record) /\ v # <<>> /\ v[1] = Summary
      /\ q # <<>> => v[Len(v)] = q[Len(q)]
    BY <1>4, <1>6
<1> QED BY <1>3, <1>5, <1>6, <1>7

-----------------------------------------------------------------------------
(***************************************************************************)
(* Types of what the actions compute.                                      *)
(***************************************************************************)
LEMMA InputsAreNats == MaxInputs \in Nat /\ MaxRetries \in Nat /\ Inputs \subseteq Nat \ {0}
BY BoundsAssumption DEF Inputs

\* The era is a number.
LEMMA EraIsNat ==
    ASSUME entries \in Seq(Record)
    PROVE  Era \in Nat
<1>1. Len(entries) \in Nat
    BY LenProperties
<1>2. IsFiniteSet(1..Len(entries))
    BY <1>1, FS_Interval
<1>3. CompactionsIn(entries) \subseteq 1..Len(entries)
    BY DEF CompactionsIn
<1>4. IsFiniteSet(CompactionsIn(entries))
    BY <1>2, <1>3, FS_Subset
<1> QED BY <1>4, FS_CardinalityType DEF Era

\* What a queue gets of some inputs are inputs.
LEMMA QueuedType ==
    ASSUME NEW ids \in Seq(Inputs), NEW h
    PROVE  Queued(ids, h) \in Seq(Inputs) /\ Range(Queued(ids, h)) \subseteq Range(ids)
<1> DEFINE S == {j \in Inputs : how[j] = h}
<1> HIDE DEF S
<1>1. Keep(ids, S) \in Seq(Inputs)
    BY KeepType
<1>2. Range(Keep(ids, S)) = Range(ids) \cap S
    BY KeepSelects
<1> QED BY <1>1, <1>2 DEF Queued, S

\* A cut is a position of the entries or none.
LEMMA SomeCutType ==
    ASSUME entries \in Seq(Record)
    PROVE  \A k \in SomeCut : /\ k \in Nat
                              /\ k # NoCut => /\ IsCut(k, entries)
                                              /\ entries # <<>>
                                              /\ entries[Len(entries)].role # "compaction"
BY DEF SomeCut, Cuts, IsCut, NoCut, Last

\* flushCompactionQueue keeps the types.
LEMMA FlushTypes ==
    ASSUME RestTypeOK, NEW willRetry \in BOOLEAN, FlushHeld(willRetry)
    PROVE  /\ steering' \in Seq(Inputs) /\ followUp' \in Seq(Inputs)
           /\ held' \in Seq(Inputs) /\ batch' \in [Inputs -> Seq(Inputs)]
           /\ how' \in [Inputs -> {"none", "steer", "followUp"}]
<1> DEFINE rest == IF willRetry \/ held = <<>> THEN held ELSE Tail(held)
<1>1. held \in Seq(Inputs) /\ steering \in Seq(Inputs) /\ followUp \in Seq(Inputs)
    BY DEF RestTypeOK
<1>2. rest \in Seq(Inputs)
    BY <1>1
<1> HIDE DEF rest
<1>3. Queued(rest, "steer") \in Seq(Inputs) /\ Queued(rest, "followUp") \in Seq(Inputs)
    BY <1>2, QueuedType
<1>4. steering' = steering \o Queued(rest, "steer") /\ followUp' = followUp \o Queued(rest, "followUp")
    BY DEF FlushHeld, rest
<1>5. steering' \in Seq(Inputs) /\ followUp' \in Seq(Inputs)
    BY <1>1, <1>3, <1>4
<1>6. held' \in Seq(Inputs)
    BY DEF FlushHeld
<1>7. batch' \in [Inputs -> Seq(Inputs)]
    BY <1>1 DEF FlushHeld, RestTypeOK
<1>8. how' \in [Inputs -> {"none", "steer", "followUp"}]
    BY DEF FlushHeld, RestTypeOK
<1> QED BY <1>5, <1>6, <1>7, <1>8

\* So do the program counters after it.
LEMMA AfterFlushType ==
    ASSUME NEW c \in [Inputs -> Locations], NEW willRetry \in BOOLEAN
    PROVE  AfterFlush(c, willRetry) \in [Inputs -> Locations]
BY DEF AfterFlush, Locations, Underway, Busy

\* A rejected prompt keeps the types.
LEMMA RejectTypes ==
    ASSUME RestTypeOK, NEW i \in Inputs, NEW outcome \in Locations, Reject(i, outcome)
    PROVE  /\ pc' \in [Inputs -> Locations]
           /\ steering' \in Seq(Inputs) /\ followUp' \in Seq(Inputs)
           /\ held' \in Seq(Inputs) /\ batch' \in [Inputs -> Seq(Inputs)]
<1>1. "held" \in Locations
    BY DEF Locations
<1>2. CASE batch[i] = <<>>
    BY <1>2 DEF Reject, RestTypeOK, queues
<1>3. CASE batch[i] # <<>>
  <2>1. pc' = [j \in Inputs |-> IF j \in Range(batch[i]) THEN "held" ELSE pc[j]]
    BY <1>3 DEF Reject
  <2>2. pc' \in [Inputs -> Locations]
    BY <1>1, <2>1 DEF RestTypeOK
  <2>3. batch[i] \in Seq(Inputs)
    BY DEF RestTypeOK
  <2>4. /\ steering' = <<>> /\ followUp' = <<>> /\ held' = batch[i]
        /\ batch' = [batch EXCEPT ![i] = <<>>]
    BY <1>3 DEF Reject
  <2>5. batch' \in [Inputs -> Seq(Inputs)]
    BY <2>4 DEF RestTypeOK
  <2> QED BY <2>2, <2>3, <2>4, <2>5
<1> QED BY <1>2, <1>3

\* What a flush at the end of a compaction leaves.
LEMMA AnnounceTypes ==
    ASSUME RestTypeOK, NEW m, Announce(m)
    PROVE  /\ steering' \in Seq(Inputs) /\ followUp' \in Seq(Inputs)
           /\ held' \in Seq(Inputs) /\ batch' \in [Inputs -> Seq(Inputs)]
           /\ how' \in [Inputs -> {"none", "steer", "followUp"}]
<1>1. CASE GivesUp(m)
    BY <1>1, FlushTypes DEF Announce
<1>2. CASE ~GivesUp(m)
    BY <1>2 DEF Announce, queues, RestTypeOK
<1> QED BY <1>1, <1>2

\* The program counters after an overflow was announced.
LEMMA AfterwardsType ==
    ASSUME NEW c \in [Inputs -> Locations], NEW m
    PROVE  Afterwards(m, c) \in [Inputs -> Locations]
BY AfterFlushType DEF Afterwards

\* A compaction that begins keeps the types.
LEMMA StartCompactionTypes ==
    ASSUME RestTypeOK, entries \in Seq(Record), NEW i \in Inputs,
           NEW why \in {"overflow", "threshold"}, StartCompaction(i, why)
    PROVE  /\ pc' \in [Inputs -> Locations] /\ job' \in [Inputs -> Job]
           /\ tried' \in BOOLEAN /\ autoCtl' \in 0..MaxInputs
<1>1. PICK keep \in SomeCut : job' = [job EXCEPT ![i] = [why |-> why, keep |-> keep]]
    BY DEF StartCompaction
<1>2. keep \in Nat
    BY <1>1, SomeCutType
<1>3. job' \in [Inputs -> Job]
    BY <1>1, <1>2 DEF RestTypeOK, Job
<1>4. pc' \in [Inputs -> Locations]
    BY DEF StartCompaction, RestTypeOK, Locations, Underway, Busy
<1>5. tried' \in BOOLEAN
    BY DEF StartCompaction, RestTypeOK
<1>6. autoCtl' \in 0..MaxInputs
    BY InputsAreNats DEF StartCompaction, Inputs
<1> QED BY <1>3, <1>4, <1>5, <1>6

\* Why to compact, if at all.
LEMMA ReasonIs ==
    ASSUME NEW m, NEW skip \in BOOLEAN
    PROVE  Reason(m, skip) \in {"none", "overflow", "threshold"}
BY DEF Reason

-----------------------------------------------------------------------------
(***************************************************************************)
(* Every action keeps the types.                                           *)
(***************************************************************************)
LEMMA RunType ==
    ASSUME RestTypeOK
    PROVE  /\ Streaming <=> run \in ActiveRun
           /\ run \in ActiveRun => run.owner \in Inputs /\ run.at # "idle"
           /\ ~Streaming => run = NoRun /\ run.at = "idle"
           /\ AbortRun => run' \in ActiveRun \cup {NoRun}
<1>1. run \in ActiveRun \cup {NoRun}
    BY DEF RestTypeOK
<1>2. NoRun.at = "idle" /\ NoRun.aborted = FALSE
    BY DEF NoRun
<1>3. \A r \in ActiveRun : r.owner \in Inputs /\ r.at # "idle"
    BY DEF ActiveRun
<1>4. Streaming <=> run \in ActiveRun
    BY <1>1, <1>2, <1>3 DEF Streaming
<1>5. AbortRun => run' \in ActiveRun \cup {NoRun}
  <2>1. run \in ActiveRun => [run EXCEPT !.aborted = TRUE] \in ActiveRun
    BY DEF ActiveRun
  <2> QED BY <1>1, <1>4, <2>1 DEF AbortRun
<1> QED BY <1>1, <1>2, <1>3, <1>4, <1>5 DEF Streaming

\* So does a run that begins.
LEMMA StartRunTypes ==
    ASSUME RestTypeOK, entries \in Seq(Record), NEW i \in Inputs, NEW ms,
           NEW at \in {"poll", "ask"}, StartRun(i, ms, at)
    PROVE  /\ run' \in ActiveRun /\ tried' \in BOOLEAN /\ cut' \in BOOLEAN
           /\ pc' \in [Inputs -> Locations]
           /\ burst' \in [over : Nat, retryable : Nat]
<1>1. run' \in ActiveRun
    BY EraIsNat DEF StartRun, ActiveRun
<1>2. tried' \in BOOLEAN /\ cut' \in BOOLEAN
    BY DEF StartRun, RestTypeOK
<1>3. pc' \in [Inputs -> Locations]
    BY DEF StartRun, RestTypeOK, Locations, Underway, Busy
<1>4. burst' \in [over : Nat, retryable : Nat]
    BY DEF StartRun, RestTypeOK, NoErrors
<1> QED BY <1>1, <1>2, <1>3, <1>4

\* What the user does keeps the types.
LEMMA UserStepTypes ==
    ASSUME RestTypeOK, UserStep
    PROVE  RestTypeOK'
<1>0. NoErrors \in [over : Nat, retryable : Nat]
    BY DEF NoErrors
<1>1. ASSUME NEW i \in Inputs, NEW h \in {"none", "steer", "followUp"}, Submit(i, h)
      PROVE  RestTypeOK'
    BY <1>1 DEF RestTypeOK, Submit, Locations, Underway, Busy, queues, controls, history
<1>2. ASSUME NEW i \in Inputs, NEW h \in {"none", "steer", "followUp"}, Hold(i, h)
      PROVE  RestTypeOK'
    BY <1>2 DEF RestTypeOK, Hold, Locations, Underway, Busy, queues, controls, history
<1>21. ASSUME NEW i \in Inputs, NEW h \in {"none", "steer", "followUp"}, QueueDirectly(i, h)
       PROVE  RestTypeOK'
  <2>1. pc' \in [Inputs -> Locations] /\ how' \in [Inputs -> {"none", "steer", "followUp"}]
    BY <1>21 DEF QueueDirectly, RestTypeOK, Locations
  <2>2. steering' \in Seq(Inputs) /\ followUp' \in Seq(Inputs)
    <3>1. PICK s \in Seq(Inputs), t \in Seq(Inputs) : s = steering /\ t = followUp
        BY DEF RestTypeOK
    <3>2. Append(s, i) \in Seq(Inputs) /\ Append(t, i) \in Seq(Inputs)
        OBVIOUS
    <3>3. steering' \in {s, Append(s, i)} /\ followUp' \in {t, Append(t, i)}
        BY <1>21, <3>1 DEF QueueDirectly
    <3> QED BY <3>1, <3>2, <3>3
  <2> QED BY <1>21, <2>1, <2>2 DEF QueueDirectly, RestTypeOK, controls
<1>3. retryCtl \in 0..MaxInputs /\ {retryCtl} \ {0} \subseteq 0..MaxInputs
    BY DEF RestTypeOK
<1>4. CASE Abort
  <2>1. run' \in ActiveRun \cup {NoRun}
    BY <1>4, RunType DEF Abort
  <2>2. cancelled' \subseteq 0..MaxInputs
    BY <1>3, <1>4 DEF Abort, AbortRetry, RestTypeOK
  <2> QED BY <1>0, <1>4, <2>1, <2>2
       DEF RestTypeOK, Abort, Intervened, OthersUnchanged, queues, Event
<1>5. CASE Escape
  <2>1. pc' \in [Inputs -> Locations]
    BY <1>5 DEF Escape, RestTypeOK, Locations
  <2>2. run' \in ActiveRun \cup {NoRun}
    BY <1>5, RunType DEF Escape
  <2> QED BY <2>1, <2>2, <1>5 DEF RestTypeOK, Escape, OthersUnchanged, history, Event
<1>6. CASE AbortCompaction
  <2>1. cancelled' \subseteq 0..MaxInputs
    <3>1. 0 \in 0..MaxInputs /\ autoCtl \in 0..MaxInputs
        BY InputsAreNats DEF RestTypeOK
    <3> QED BY <1>6, <3>1 DEF AbortCompaction, RestTypeOK
  <2> QED BY <2>1, <1>6 DEF RestTypeOK, AbortCompaction, OthersUnchanged, queues, history, Event
<1>7. CASE RecordBash
  <2>1. events' \in Nat
    BY <1>7 DEF RecordBash, Event, RestTypeOK
  <2>2. Bash(events') \in BashRecord
    BY <2>1, RecordsMade DEF BashRecord
  <2>3. bash' \in Seq(BashRecord)
    <3>1. bash \in Seq(BashRecord)
        BY DEF RestTypeOK
    <3> QED BY <3>1, <2>2, <1>7 DEF RecordBash
  <2> QED BY <1>0, <2>1, <2>3, <1>7 DEF RestTypeOK, RecordBash, OthersUnchanged, queues, Intervened
<1>8. CASE CompactStarts
  <2>1. manual' \in Nat \cup {Off, Waiting} /\ cut' \in BOOLEAN
    BY <1>8 DEF CompactStarts, RestTypeOK
  <2>2. run' \in ActiveRun \cup {NoRun}
    BY <1>8, RunType DEF CompactStarts
  <2>3. cancelled' \subseteq 0..MaxInputs
    BY <1>3, <1>8 DEF CompactStarts, AbortRetry, RestTypeOK
  <2> QED BY <1>0, <2>1, <2>2, <2>3, <1>8
       DEF RestTypeOK, CompactStarts, Intervened, OthersUnchanged, queues, Event
<1> QED BY <1>1, <1>2, <1>21, <1>4, <1>5, <1>6, <1>7, <1>8 DEF UserStep

\* The kinds of answers.
LEMMA KindsAre ==
    \A kind \in Finished \cup Stopped :
        /\ kind[1] \in {"stop", "tool", "error", "aborted"} /\ kind[1] \in Stops
        /\ kind[2] \in {"ok", "large", "over", "retryable", "fatal"} /\ kind[2] \in Whats
        /\ kind[1] = "error" => kind[2] \in {"over", "retryable", "fatal"}
<1> SUFFICES ASSUME NEW kind \in Finished \cup Stopped
             PROVE  /\ kind[1] \in {"stop", "tool", "error", "aborted"} /\ kind[1] \in Stops
                    /\ kind[2] \in {"ok", "large", "over", "retryable", "fatal"} /\ kind[2] \in Whats
                    /\ kind[1] = "error" => kind[2] \in {"over", "retryable", "fatal"}
    OBVIOUS
<1>1. PICK a \in {"stop", "tool", "error", "aborted"},
           b \in {"ok", "large", "over", "retryable", "fatal"} :
              kind = <<a, b>> /\ (a = "error" => b \in {"over", "retryable", "fatal"})
    BY DEF Finished, Stopped
<1>2. kind[1] = a /\ kind[2] = b
    BY <1>1
<1> QED BY <1>1, <1>2 DEF Stops, Whats

\* The agent's run keeps the types.
LEMMA RunStepTypes ==
    ASSUME SessionTypeOK, RunStep
    PROVE  RestTypeOK'
<1>0. NoErrors \in [over : Nat, retryable : Nat] /\ RestTypeOK /\ entries \in Seq(Record)
    BY DEF NoErrors, SessionTypeOK
<1>1. steering \in Seq(Inputs) /\ followUp \in Seq(Inputs)
    BY <1>0 DEF RestTypeOK
<1>2. steering # <<>> => Head(steering) \in Inputs /\ Tail(steering) \in Seq(Inputs)
    BY <1>1
<1>3. followUp # <<>> => Head(followUp) \in Inputs /\ Tail(followUp) \in Seq(Inputs)
    BY <1>1
<1>4. ASSUME NEW i \in Inputs, Inject(i)
      PROVE  /\ tried' \in BOOLEAN /\ pc' \in [Inputs -> Locations]
             /\ burst' \in [over : Nat, retryable : Nat]
    BY <1>0, <1>4 DEF Inject, RestTypeOK, Locations
<1>5. ASSUME Ask, run \in ActiveRun PROVE run' \in ActiveRun
    BY <1>0, <1>5, EraIsNat DEF Ask, ActiveRun
<1>6. run.at # "idle" => run \in ActiveRun
    BY <1>0, RunType
<1>7. ASSUME UNCHANGED RunUnchanged
      PROVE  /\ how' = how /\ stage' = stage /\ seen' = seen /\ job' = job
             /\ retryCtl' = retryCtl /\ autoCtl' = autoCtl /\ cancelled' = cancelled
             /\ manual' = manual /\ bash' = bash /\ held' = held /\ batch' = batch
             /\ overlapped' = overlapped /\ cut' = cut
    BY <1>7 DEF RunUnchanged, controls
<1>8. ASSUME TakeSteering \/ TakeFollowUp
      PROVE  /\ tried' \in BOOLEAN /\ pc' \in [Inputs -> Locations]
             /\ burst' \in [over : Nat, retryable : Nat]
             /\ steering' \in Seq(Inputs) /\ followUp' \in Seq(Inputs)
    BY <1>1, <1>2, <1>3, <1>4, <1>8 DEF TakeSteering, TakeFollowUp
<1>9. ASSUME UNCHANGED <<queues, messages, entries, tried, pc, burst>>
      PROVE  /\ tried' \in BOOLEAN /\ pc' \in [Inputs -> Locations]
             /\ burst' \in [over : Nat, retryable : Nat]
             /\ steering' \in Seq(Inputs) /\ followUp' \in Seq(Inputs)
    BY <1>0, <1>9 DEF queues, RestTypeOK
<1>10. CASE Poll
  <2>1. run' \in ActiveRun
    BY <1>10, <1>5, <1>6 DEF Poll
  <2>2. /\ tried' \in BOOLEAN /\ pc' \in [Inputs -> Locations]
        /\ burst' \in [over : Nat, retryable : Nat]
        /\ steering' \in Seq(Inputs) /\ followUp' \in Seq(Inputs)
    BY <1>10, <1>8, <1>9 DEF Poll
  <2>3. UNCHANGED RunUnchanged /\ last' = last /\ retry' = retry /\ events' = events
    BY <1>10 DEF Poll
  <2> QED BY <1>0, <1>7, <2>1, <2>2, <2>3 DEF RestTypeOK
<1>11. CASE Turn
  <2>1. run' \in ActiveRun
    <3>1. run \in ActiveRun
        BY <1>11, <1>6 DEF Turn
    <3>2. [run EXCEPT !.at = "end"] \in ActiveRun
        BY <3>1 DEF ActiveRun
    <3> QED BY <3>1, <3>2, <1>11, <1>5 DEF Turn
  <2>2. /\ tried' \in BOOLEAN /\ pc' \in [Inputs -> Locations]
        /\ burst' \in [over : Nat, retryable : Nat]
        /\ steering' \in Seq(Inputs) /\ followUp' \in Seq(Inputs)
    BY <1>11, <1>8, <1>9 DEF Turn
  <2>3. UNCHANGED RunUnchanged /\ last' = last /\ retry' = retry /\ events' = events
    BY <1>11 DEF Turn
  <2> QED BY <1>0, <1>7, <2>1, <2>2, <2>3 DEF RestTypeOK
<1>12. CASE ToolsDone
  <2>1. run' \in ActiveRun
    BY <1>12, <1>6 DEF ToolsDone, ActiveRun
  <2>2. UNCHANGED RunUnchanged /\ UNCHANGED <<queues, pc, last, retry, tried, events, burst>>
    BY <1>12 DEF ToolsDone
  <2> QED BY <1>0, <1>7, <2>1, <2>2 DEF RestTypeOK, queues
<1>13. CASE EndRun
  <2>1. run' \in {NoRun} /\ run.owner \in Inputs
    BY <1>13, <1>0, <1>6, RunType DEF EndRun
  <2>2. pc' \in [Inputs -> Locations]
    BY <1>13, <1>0, <2>1 DEF EndRun, RestTypeOK, Locations, Underway, Busy
  <2>3. UNCHANGED RunUnchanged /\ UNCHANGED <<queues, last, retry, tried, events, burst>>
    BY <1>13 DEF EndRun
  <2> QED BY <1>0, <1>7, <2>1, <2>2, <2>3 DEF RestTypeOK, queues
<1>14. ASSUME NEW kind \in Finished \cup Stopped, Answer(kind) PROVE RestTypeOK'
  <2> DEFINE m == Message("assistant", Len(entries) + 1, kind[1], kind[2], run.era)
  <2>1. run \in ActiveRun
    BY <1>14, <1>6 DEF Answer
  <2>2. m \in Record /\ m.id \in Nat
    <3>1. kind[1] \in Stops /\ kind[2] \in Whats
        BY KindsAre
    <3>2. Len(entries) + 1 \in Nat /\ run.era \in Nat
        BY <1>0, <2>1 DEF ActiveRun
    <3>3. "assistant" \in Roles
        BY DEF Roles
    <3> QED BY <3>1, <3>2, <3>3, MessageMade
  <2>3. /\ Answered(m) /\ burst' = CountErrors(m)
        /\ run' = [run EXCEPT !.call = m.id,
                              !.at = CASE kind[1] = "tool" -> "tools"
                                       [] kind[1] = "stop" -> "turn"
                                       [] OTHER            -> "end"]
        /\ UNCHANGED RunUnchanged /\ UNCHANGED <<queues, pc>>
        /\ events' = events \/ Event
    BY <1>14 DEF Answer
  <2> HIDE DEF m
  <2>4. run' \in ActiveRun
    BY <2>1, <2>2, <2>3 DEF ActiveRun
  <2>5. events' \in Nat
    BY <1>0, <2>3 DEF Event, RestTypeOK
  <2>6. burst' \in [over : Nat, retryable : Nat]
    <3>1. burst.over \in Nat /\ burst.retryable \in Nat
        BY <1>0 DEF RestTypeOK
    <3> QED BY <2>3, <3>1 DEF CountErrors, NoErrors
  <2>7. last' \in Record /\ retry' \in Nat /\ tried' \in BOOLEAN
    <3>1. last \in Record /\ retry \in Nat /\ tried \in BOOLEAN
        BY <1>0 DEF RestTypeOK
    <3>2. CASE Connected
      <4>1. /\ last' = m /\ retry' = IF m.stop = "error" THEN retry ELSE 0
            /\ tried' = (tried /\ m.stop = "error")
        BY <2>3, <3>2 DEF Answered
      <4> QED BY <2>2, <3>1, <4>1
    <3>3. CASE ~Connected
        BY <2>3, <3>1, <3>3 DEF Answered
    <3> QED BY <3>2, <3>3
  <2> QED BY <1>0, <1>7, <2>3, <2>4, <2>5, <2>6, <2>7 DEF RestTypeOK, queues
<1> QED BY <1>10, <1>11, <1>12, <1>13, <1>14 DEF RunStep

\* compact() keeps the types.
LEMMA CompactStepTypes ==
    ASSUME SessionTypeOK, CompactStep
    PROVE  RestTypeOK'
<1>0. RestTypeOK /\ entries \in Seq(Record)
    BY DEF SessionTypeOK
<1>1. CASE CompactPrepares
  <2>1. manual' \in Nat
    BY <1>0, <1>1, SomeCutType DEF CompactPrepares
  <2> QED BY <1>0, <1>1, <2>1
        DEF RestTypeOK, CompactPrepares, OthersUnchanged, queues, history
<1>2. ASSUME NEW ok \in BOOLEAN, CompactEnds(ok) PROVE RestTypeOK'
  <2>1. /\ steering' \in Seq(Inputs) /\ followUp' \in Seq(Inputs)
        /\ held' \in Seq(Inputs) /\ batch' \in [Inputs -> Seq(Inputs)]
        /\ how' \in [Inputs -> {"none", "steer", "followUp"}]
    BY <1>0, <1>2, FlushTypes DEF CompactEnds
  <2>2. pc' \in [Inputs -> Locations]
    <3>1. pc \in [Inputs -> Locations]
        BY <1>0 DEF RestTypeOK
    <3> QED BY <1>2, <3>1, AfterFlushType DEF CompactEnds
  <2>3. /\ manual' = Off /\ cancelled' \subseteq cancelled
        /\ UNCHANGED <<OthersUnchanged, run, retryCtl, bash, events, history>>
    BY <1>2 DEF CompactEnds
  <2> QED BY <1>0, <2>1, <2>2, <2>3 DEF RestTypeOK, OthersUnchanged, history
<1> QED BY <1>1, <1>2 DEF CompactStep

\* The places of the loop are locations.
LEMMA PlacesAre ==
    {"preflight", "send", "running", "post", "sleep", "compacting", "continue", "finish",
     "input", "unused", "held", "queued", "refused", "dropped", "failed", "done",
     "cleared"} = Locations
BY DEF Locations, Underway, Busy

\* The decision after a run keeps the types.
LEMMA CompactOrResumeTypes ==
    ASSUME RestTypeOK, entries \in Seq(Record), NEW i \in Inputs, NEW m, CompactOrResume(i, m)
    PROVE  /\ steering' \in Seq(Inputs) /\ followUp' \in Seq(Inputs)
           /\ held' \in Seq(Inputs) /\ batch' \in [Inputs -> Seq(Inputs)]
           /\ how' \in [Inputs -> {"none", "steer", "followUp"}]
           /\ pc' \in [Inputs -> Locations] /\ job' \in [Inputs -> Job]
           /\ tried' \in BOOLEAN /\ autoCtl' \in 0..MaxInputs
<1>1. /\ steering' \in Seq(Inputs) /\ followUp' \in Seq(Inputs)
      /\ held' \in Seq(Inputs) /\ batch' \in [Inputs -> Seq(Inputs)]
      /\ how' \in [Inputs -> {"none", "steer", "followUp"}]
    BY AnnounceTypes DEF CompactOrResume
<1>2. CASE Reason(m, TRUE) # "none"
  <2>1. Reason(m, TRUE) \in {"overflow", "threshold"}
    BY <1>2, ReasonIs
  <2>2. StartCompaction(i, Reason(m, TRUE))
    BY <1>2 DEF CompactOrResume
  <2> QED BY <1>1, <2>1, <2>2, StartCompactionTypes
<1>3. CASE Reason(m, TRUE) = "none"
  <2> DEFINE then == IF HasQueued' THEN "continue" ELSE "finish"
  <2>1. /\ pc' = Afterwards(m, [pc EXCEPT ![i] = then])
        /\ UNCHANGED <<job, messages, tried, autoCtl>>
    BY <1>3 DEF CompactOrResume
  <2>2. [pc EXCEPT ![i] = then] \in [Inputs -> Locations]
    BY PlacesAre DEF RestTypeOK
  <2> HIDE DEF then
  <2>3. pc' \in [Inputs -> Locations]
    BY <2>1, <2>2, AfterwardsType
  <2> QED BY <1>1, <2>1, <2>3 DEF RestTypeOK
<1> QED BY <1>2, <1>3

\* The end of an automatic compaction keeps the types.
LEMMA AutoDoneTypes ==
    ASSUME RestTypeOK, NEW i \in Inputs, NEW ok \in BOOLEAN, NEW willRetry \in BOOLEAN,
           AutoDone(i, ok, willRetry)
    PROVE  RestTypeOK'
<1> DEFINE goOn == willRetry \/ ((ok \/ ~(stage[i] = "check")) /\ HasQueued')
           then == IF goOn THEN "continue" ELSE IF stage[i] = "check" THEN "send" ELSE "finish"
<1>1. /\ steering' \in Seq(Inputs) /\ followUp' \in Seq(Inputs)
      /\ held' \in Seq(Inputs) /\ batch' \in [Inputs -> Seq(Inputs)]
      /\ how' \in [Inputs -> {"none", "steer", "followUp"}]
    BY FlushTypes DEF AutoDone
<1>2. pc' = AfterFlush([pc EXCEPT ![i] = then], willRetry)
    BY DEF AutoDone
<1>3. [pc EXCEPT ![i] = then] \in [Inputs -> Locations]
    BY PlacesAre DEF RestTypeOK
<1> HIDE DEF then
<1>4. pc' \in [Inputs -> Locations]
    BY <1>2, <1>3, AfterFlushType
<1>5. job' \in [Inputs -> Job]
    BY DEF AutoDone, RestTypeOK, NoJob, NoCut, Job
<1>6. autoCtl' \in 0..MaxInputs /\ cancelled' \subseteq 0..MaxInputs
    BY InputsAreNats DEF AutoDone, RestTypeOK
<1>7. UNCHANGED <<frontEnd, seen, run, last, retry, tried,
                  retryCtl, manual, bash, events, history>>
    BY DEF AutoDone
<1>8. stage' \in [Inputs -> {"check", "pre", "main"}]
    BY DEF AutoDone, RestTypeOK
<1> QED BY <1>1, <1>4, <1>5, <1>6, <1>7, <1>8 DEF RestTypeOK, history

\* Every step of prompt() keeps the types.
LEMMA PromptStepTypes ==
    ASSUME SessionTypeOK, NEW i \in Inputs, PromptStep(i)
    PROVE  RestTypeOK'
<1>0. /\ NoErrors \in [over : Nat, retryable : Nat] /\ RestTypeOK /\ entries \in Seq(Record)
      /\ <<>> \in Seq(BashRecord)
    BY DEF NoErrors, SessionTypeOK
<1>01. \A p \in Locations : [pc EXCEPT ![i] = p] \in [Inputs -> Locations]
    BY <1>0 DEF RestTypeOK
<1>1. CASE AdmitStreaming(i)
  <2>1. overlapped' \in BOOLEAN
    BY <1>0, <1>1 DEF AdmitStreaming, RestTypeOK
  <2>2. UNCHANGED <<frontEnd, how, stage, seen, job, messages, entries, run, last,
                    retry, tried, controls, bash, events, cut, burst, strays>>
    BY <1>1 DEF AdmitStreaming
  <2>3. /\ pc' \in [Inputs -> Locations]
        /\ steering' \in Seq(Inputs) /\ followUp' \in Seq(Inputs)
        /\ held' \in Seq(Inputs) /\ batch' \in [Inputs -> Seq(Inputs)]
    <3>1. CASE how[i] = "none"
      <4>1. Reject(i, "refused") /\ "refused" \in Locations
        BY <1>1, <3>1, PlacesAre DEF AdmitStreaming
      <4> QED BY <1>0, <4>1, RejectTypes
    <3>2. CASE how[i] # "none"
      <4>1. <<i>> \in Seq(Inputs)
        OBVIOUS
      <4>2. Queued(<<i>>, "steer") \in Seq(Inputs) /\ Queued(<<i>>, "followUp") \in Seq(Inputs)
        BY <4>1, QueuedType
      <4>3. /\ pc' = [pc EXCEPT ![i] = "queued"]
            /\ steering' = steering \o Queued(<<i>>, "steer")
            /\ followUp' = followUp \o Queued(<<i>>, "followUp")
            /\ UNCHANGED <<held, batch>>
        BY <1>1, <3>2 DEF AdmitStreaming
      <4>4. steering' \in Seq(Inputs) /\ followUp' \in Seq(Inputs)
        BY <1>0, <4>2, <4>3 DEF RestTypeOK
      <4> QED BY <1>0, <1>01, <4>3, <4>4, PlacesAre DEF RestTypeOK
    <3> QED BY <3>1, <3>2
  <2> QED BY <1>0, <2>1, <2>2, <2>3 DEF RestTypeOK, controls
<1>2. CASE AdmitIdle(i)
  <2>1. overlapped' \in BOOLEAN
    BY <1>0, <1>2 DEF AdmitIdle, RestTypeOK
  <2>2. pc' \in [Inputs -> Locations]
    BY <1>2, <1>01, PlacesAre DEF AdmitIdle
  <2>3. how' \in [Inputs -> {"none", "steer", "followUp"}]
    BY <1>0, <1>2 DEF AdmitIdle, RestTypeOK
  <2> QED BY <1>0, <1>2, <2>1, <2>2, <2>3
        DEF RestTypeOK, AdmitIdle, FlushPendingBash, Intervened, queues, controls
<1>3. CASE Precheck(i)
  <2> DEFINE why == IF LastAssistant = NoMessage THEN "none" ELSE Reason(LastAssistant, FALSE)
  <2>1. /\ steering' \in Seq(Inputs) /\ followUp' \in Seq(Inputs)
        /\ held' \in Seq(Inputs) /\ batch' \in [Inputs -> Seq(Inputs)]
        /\ how' \in [Inputs -> {"none", "steer", "followUp"}]
    BY <1>0, <1>3, AnnounceTypes DEF Precheck
  <2>2. UNCHANGED <<frontEnd, stage, seen, entries, run, last, retry, retryCtl,
                    cancelled, manual, bash, events, history>>
    BY <1>3 DEF Precheck
  <2>3. /\ pc' \in [Inputs -> Locations] /\ job' \in [Inputs -> Job]
        /\ tried' \in BOOLEAN /\ autoCtl' \in 0..MaxInputs
    <3>1. CASE why # "none"
      <4>1. why \in {"overflow", "threshold"}
        BY <3>1, ReasonIs
      <4>2. StartCompaction(i, why)
        BY <1>3, <3>1 DEF Precheck
      <4> HIDE DEF why
      <4> QED BY <1>0, <4>1, <4>2, StartCompactionTypes
    <3>2. CASE why = "none"
      <4>1. /\ pc' = Afterwards(LastAssistant, [pc EXCEPT ![i] = "send"])
            /\ UNCHANGED <<job, messages, tried, autoCtl>>
        BY <1>3, <3>2 DEF Precheck
      <4>2. [pc EXCEPT ![i] = "send"] \in [Inputs -> Locations]
        BY <1>01, PlacesAre
      <4>3. pc' \in [Inputs -> Locations]
        BY <4>1, <4>2, AfterwardsType
      <4> QED BY <1>0, <4>1, <4>3 DEF RestTypeOK
    <3> QED BY <3>1, <3>2
  <2> QED BY <1>0, <2>1, <2>2, <2>3 DEF RestTypeOK, history
<1>4. CASE Send(i)
  <2>1. /\ run' \in ActiveRun /\ tried' \in BOOLEAN /\ cut' \in BOOLEAN
        /\ pc' \in [Inputs -> Locations]
        /\ burst' \in [over : Nat, retryable : Nat]
    BY <1>0, <1>4, StartRunTypes DEF Send
  <2>2. stage' \in [Inputs -> {"check", "pre", "main"}]
    BY <1>0, <1>4 DEF Send, RestTypeOK
  <2> QED BY <1>0, <1>4, <2>1, <2>2 DEF Send, RestTypeOK, queues, controls
<1>5. CASE SendFails(i)
  <2>1. /\ pc' \in [Inputs -> Locations]
        /\ steering' \in Seq(Inputs) /\ followUp' \in Seq(Inputs)
        /\ held' \in Seq(Inputs) /\ batch' \in [Inputs -> Seq(Inputs)]
    BY <1>0, <1>5, RejectTypes, PlacesAre DEF SendFails
  <2> QED BY <1>0, <1>5, <2>1 DEF SendFails, FlushPendingBash, RestTypeOK, controls, history
<1>6. CASE Post(i)
  <2>1. /\ last' = NoMessage
        /\ UNCHANGED PostUnchanged /\ cancelled' = cancelled
    BY <1>6 DEF Post
  <2>2. CASE /\ last = NoMessage
             /\ pc' = [pc EXCEPT ![i] = "finish"]
             /\ UNCHANGED <<QueuesUnchanged, seen, messages, retry, retryCtl, job, tried, autoCtl>>
    BY <1>0, <1>01, <2>1, <2>2, RecordsMade, PlacesAre
       DEF RestTypeOK, PostUnchanged, QueuesUnchanged, queues, history
  <2>3. CASE /\ last # NoMessage /\ MayRetry(last)
             /\ seen' = [seen EXCEPT ![i] = last]
             /\ retry' = retry + 1
             /\ messages' = DropAssistant(messages)
             /\ retryCtl' = i
             /\ pc' = [pc EXCEPT ![i] = "sleep"]
             /\ UNCHANGED <<QueuesUnchanged, job, tried, autoCtl>>
    <3>1. pc' \in [Inputs -> Locations]
        BY <2>3, <1>01, PlacesAre
    <3>2. retryCtl' \in 0..MaxInputs /\ seen' \in [Inputs -> Record] /\ retry' \in Nat
        BY <1>0, <2>3, InputsAreNats DEF RestTypeOK, Inputs
    <3> QED BY <1>0, <2>1, <2>3, <3>1, <3>2, RecordsMade
          DEF RestTypeOK, PostUnchanged, QueuesUnchanged, queues, history
  <2>4. CASE /\ last # NoMessage /\ ~MayRetry(last)
             /\ retry' = IF last.stop = "error" THEN 0 ELSE retry
             /\ UNCHANGED <<seen, retryCtl>>
             /\ CompactOrResume(i, last)
    <3>1. /\ steering' \in Seq(Inputs) /\ followUp' \in Seq(Inputs)
          /\ held' \in Seq(Inputs) /\ batch' \in [Inputs -> Seq(Inputs)]
          /\ how' \in [Inputs -> {"none", "steer", "followUp"}]
          /\ pc' \in [Inputs -> Locations] /\ job' \in [Inputs -> Job]
          /\ tried' \in BOOLEAN /\ autoCtl' \in 0..MaxInputs
        BY <1>0, <2>4, CompactOrResumeTypes
    <3>2. retry' \in Nat
        BY <1>0, <2>4 DEF RestTypeOK
    <3> QED BY <1>0, <2>1, <2>4, <3>1, <3>2, RecordsMade DEF RestTypeOK, PostUnchanged, history
  <2> QED BY <1>6, <2>2, <2>3, <2>4 DEF Post
<1>7. CASE WakeRetry(i)
  <2>1. pc' \in [Inputs -> Locations]
    BY <1>7, <1>01, PlacesAre DEF WakeRetry
  <2>2. seen' \in [Inputs -> Record] /\ retryCtl' \in 0..MaxInputs
    <3>1. NoMessage \in Record
        BY RecordsMade
    <3>2. 0 \in 0..MaxInputs
        BY InputsAreNats
    <3>3. seen \in [Inputs -> Record] /\ seen' = [seen EXCEPT ![i] = NoMessage] /\ retryCtl' = 0
        BY <1>0, <1>7 DEF WakeRetry, RestTypeOK
    <3> QED BY <3>1, <3>2, <3>3
  <2> QED BY <1>0, <1>7, <2>1, <2>2
        DEF WakeRetry, RestTypeOK, PostUnchanged, QueuesUnchanged, queues, history
<1>8. CASE RetryCancelled(i)
  <2>1. /\ steering' \in Seq(Inputs) /\ followUp' \in Seq(Inputs)
        /\ held' \in Seq(Inputs) /\ batch' \in [Inputs -> Seq(Inputs)]
        /\ how' \in [Inputs -> {"none", "steer", "followUp"}]
        /\ pc' \in [Inputs -> Locations] /\ job' \in [Inputs -> Job]
        /\ tried' \in BOOLEAN /\ autoCtl' \in 0..MaxInputs
    BY <1>0, <1>8, CompactOrResumeTypes DEF RetryCancelled
  <2>2. seen' \in [Inputs -> Record] /\ retryCtl' \in 0..MaxInputs
    <3>1. NoMessage \in Record
        BY RecordsMade
    <3>2. 0 \in 0..MaxInputs
        BY InputsAreNats
    <3>3. seen \in [Inputs -> Record] /\ seen' = [seen EXCEPT ![i] = NoMessage] /\ retryCtl' = 0
        BY <1>0, <1>8 DEF RetryCancelled, RestTypeOK
    <3> QED BY <3>1, <3>2, <3>3
  <2> QED BY <1>0, <1>8, <2>1, <2>2 DEF RetryCancelled, RestTypeOK, PostUnchanged, history
<1>9. CASE AutoCompacted(i)
    BY <1>0, <1>9, AutoDoneTypes DEF AutoCompacted
<1>10. CASE AutoFailed(i)
    BY <1>0, <1>10, AutoDoneTypes DEF AutoFailed
<1>11. CASE ContinueFails(i)
  <2>1. /\ pc' \in [Inputs -> Locations]
        /\ steering' \in Seq(Inputs) /\ followUp' \in Seq(Inputs)
        /\ held' \in Seq(Inputs) /\ batch' \in [Inputs -> Seq(Inputs)]
    BY <1>0, <1>11, RejectTypes, PlacesAre DEF ContinueFails
  <2> QED BY <1>0, <1>11, <2>1 DEF ContinueFails, RestTypeOK, controls, history
<1>12. CASE ContinueWithQueued(i)
  <2>1. /\ run' \in ActiveRun /\ tried' \in BOOLEAN /\ cut' \in BOOLEAN
        /\ pc' \in [Inputs -> Locations]
        /\ burst' \in [over : Nat, retryable : Nat]
    BY <1>0, <1>12, StartRunTypes DEF ContinueWithQueued
  <2>2. steering' \in Seq(Inputs) /\ followUp' \in Seq(Inputs)
    <3>1. steering # <<>> => Tail(steering) \in Seq(Inputs)
        BY <1>0 DEF RestTypeOK
    <3>2. followUp # <<>> => Tail(followUp) \in Seq(Inputs)
        BY <1>0 DEF RestTypeOK
    <3>3. steering # <<>> \/ followUp # <<>>
        BY <1>12 DEF ContinueWithQueued, Answering, HasQueued
    <3> QED BY <1>0, <1>12, <3>1, <3>2, <3>3 DEF ContinueWithQueued, RestTypeOK
  <2> QED BY <1>0, <1>12, <2>1, <2>2 DEF ContinueWithQueued, RestTypeOK, controls
<1>13. CASE ContinueTranscript(i)
  <2>1. pc' \in [Inputs -> Locations]
    BY <1>13, <1>01, PlacesAre DEF ContinueTranscript
  <2>2. run' \in ActiveRun \cup {NoRun} /\ cut' \in BOOLEAN
    <3>1. [owner |-> i, at |-> "poll", aborted |-> FALSE, era |-> Era, call |-> 0] \in ActiveRun
        BY <1>0, EraIsNat DEF ActiveRun
    <3> QED BY <1>0, <1>13, <3>1 DEF ContinueTranscript, RestTypeOK
  <2> QED BY <1>0, <1>13, <2>1, <2>2 DEF ContinueTranscript, RestTypeOK, queues, controls
<1>14. CASE Finish(i)
  <2>1. pc' \in [Inputs -> Locations]
    BY <1>14, <1>01, PlacesAre DEF Finish
  <2> QED BY <1>0, <1>14, <2>1 DEF Finish, FlushPendingBash, RestTypeOK, queues, controls, history
<1> QED BY <1>1, <1>2, <1>3, <1>4, <1>5, <1>6, <1>7, <1>8, <1>9, <1>10, <1>11, <1>12,
           <1>13, <1>14 DEF PromptStep

\* Every step keeps the types.
LEMMA StepTypes ==
    ASSUME SessionTypeOK, [SessionNext]_sessionVars
    PROVE  RestTypeOK'
<1>1. RestTypeOK
    BY DEF SessionTypeOK
<1>2. CASE UNCHANGED sessionVars
    BY <1>1, <1>2 DEF sessionVars, inputVars, queues, controls, history, RestTypeOK
<1> QED BY <1>1, <1>2, UserStepTypes, RunStepTypes, CompactStepTypes, PromptStepTypes
        DEF SessionNext

-----------------------------------------------------------------------------
(***************************************************************************)
(* What a step does to the transcript and to the entries.  Unless nothing  *)
(* happens to them, messages of the user or of bash are appended to both,  *)
(* answers may be dropped from the end of the transcript before, an answer *)
(* or a result of the run is appended, or a compaction is.                 *)
(***************************************************************************)
JobsOK == \A i \in Inputs : job[i].keep # NoCut => IsCut(job[i].keep, entries)
ManualOK == manual > 0 => IsCut(manual, entries)
RunIsHeard == Streaming /\ ~cut => Connected

StoreInv ==
    /\ SessionTypeOK
    /\ CutsBefore(entries) /\ AnswerIds(entries)
    /\ JobsOK /\ ManualOK
    /\ RunIsHeard
    /\ TranscriptPersisted

SomeoneElse == \E i \in Inputs : pc[i] \in Busy /\ pc[i] # "running"

NoToolsUnderway == run.at # "tools" \/ SomeoneElse \/ cut

ToolsSame ==
    /\ (run'.at = "tools") <=> (run.at = "tools")
    /\ run.at = "tools" => run'.call = run.call

Unmoved == messages' = messages /\ entries' = entries

PlainEffect ==
    \E t : \E ms \in Seq(Plain) :
        /\ TrimOf(t, messages)
        /\ messages' = t \o ms
        /\ entries' = entries \o ms \/ (entries' = entries /\ cut')

AnswerEffect ==
    /\ run.at = "ask"
    /\ \E m \in Record :
        /\ IsAssistant(m) /\ m.id = Len(entries) + 1
        /\ messages' = Append(messages, m)
        /\ entries' = Append(entries, m) \/ (entries' = entries /\ cut')
        /\ (run'.at = "tools") <=> (m.stop = "tool")
        /\ run'.call = m.id

ResultEffect ==
    /\ run.at = "tools" /\ run'.at = "poll"
    /\ messages' = Append(messages, Result(run.call))
    /\ entries' = Append(entries, Result(run.call)) \/ (entries' = entries /\ cut')

CompactEffect ==
    \E k \in Nat : /\ IsCut(k, entries)
                   /\ entries' = Append(entries, Compacted(k))
                   /\ TrimOf(messages', Context(entries'))

Effect ==
    \/ Unmoved /\ ToolsSame
    \/ NoToolsUnderway /\ ToolsSame /\ PlainEffect
    \/ AnswerEffect
    \/ ResultEffect
    \/ NoToolsUnderway /\ ToolsSame /\ CompactEffect

\* Where a prompt is busy.
LEMMA BusyPlaces ==
    Busy = {"preflight", "send", "running", "post", "sleep", "compacting", "continue", "finish"}
BY DEF Busy

\* Messages of users and bash results, appended to both.
LEMMA PlainAppended ==
    ASSUME SessionTypeOK, NEW ms \in Seq(Plain), messages' = messages \o ms,
           entries' = entries \o ms \/ (entries' = entries /\ cut')
    PROVE  PlainEffect
<1>1. TrimOf(messages, messages)
    BY TrimSelf DEF SessionTypeOK
<1> QED BY <1>1 DEF PlainEffect

\* Answers may be dropped and nothing be appended.
LEMMA PlainDropped ==
    ASSUME SessionTypeOK, TrimOf(messages', messages), entries' = entries
    PROVE  PlainEffect
<1>1. messages' \in Seq(Record)
    BY DEF TrimOf
<1>2. <<>> \in Seq(Plain) /\ messages' = messages' \o <<>> /\ entries' = entries \o <<>>
    BY <1>1 DEF SessionTypeOK
<1> QED BY <1>2 DEF PlainEffect

\* Pending bash results are plain messages.
LEMMA BashIsPlain ==
    ASSUME RestTypeOK
    PROVE  bash \in Seq(Plain)
<1>1. BashRecord \subseteq Plain
    BY DEF BashRecord, Plain
<1>2. bash \in Seq(BashRecord)
    BY DEF RestTypeOK
<1> QED BY <1>1, <1>2

\* _flushPendingBashMessages appends to both.
LEMMA FlushEffect ==
    ASSUME SessionTypeOK, FlushPendingBash
    PROVE  PlainEffect
BY BashIsPlain, PlainAppended DEF FlushPendingBash, SessionTypeOK

\* Aborting a run leaves it where it is.
LEMMA AbortRunSame ==
    ASSUME RestTypeOK, AbortRun
    PROVE  /\ run'.at = run.at /\ run'.call = run.call /\ run'.owner = run.owner
           /\ run'.era = run.era
           /\ Streaming' = Streaming
<1>1. CASE Streaming
  <2>1. run \in ActiveRun /\ run' = [run EXCEPT !.aborted = TRUE]
    BY <1>1, RunType DEF AbortRun
  <2>2. /\ run'.at = run.at /\ run'.call = run.call /\ run'.owner = run.owner
        /\ run'.era = run.era /\ run.at # "idle"
    BY <2>1 DEF ActiveRun
  <2>3. NoRun.at = "idle"
    BY DEF NoRun
  <2> QED BY <1>1, <2>2, <2>3 DEF Streaming
<1>2. CASE ~Streaming
    BY <1>2 DEF AbortRun, Streaming
<1> QED BY <1>1, <1>2

\* What the user does to the transcript and the entries.
LEMMA UserStepEffect ==
    ASSUME SessionTypeOK, UserStep
    PROVE  Effect
<1>0. RestTypeOK
    BY DEF SessionTypeOK
<1>1. ASSUME NEW i \in Inputs, NEW h, Submit(i, h) \/ Hold(i, h) \/ QueueDirectly(i, h)
      PROVE  Effect
    BY <1>1 DEF Submit, Hold, QueueDirectly, Effect, Unmoved, ToolsSame
<1>2. CASE Abort
    BY <1>0, <1>2, AbortRunSame DEF Abort, Effect, Unmoved, ToolsSame
<1>3. CASE Escape
    BY <1>0, <1>3, AbortRunSame DEF Escape, Effect, Unmoved, ToolsSame
<1>4. CASE AbortCompaction
    BY <1>4 DEF AbortCompaction, Effect, Unmoved, ToolsSame
<1>5. CASE CompactStarts
    BY <1>0, <1>5, AbortRunSame DEF CompactStarts, Effect, Unmoved, ToolsSame
<1>6. CASE RecordBash
  <2>1. run' = run /\ cut' = cut /\ events' \in Nat
    BY <1>0, <1>6 DEF RecordBash, Event, RestTypeOK
  <2>2. CASE Streaming
    BY <1>6, <2>1, <2>2 DEF RecordBash, Effect, Unmoved, ToolsSame
  <2>3. CASE ~Streaming
    <3> DEFINE b == Bash(events')
    <3>1. b \in Plain
        BY <2>1, RecordsMade DEF Plain
    <3>2. messages' = Append(messages, b) /\ entries' = Append(entries, b)
        BY <1>6, <2>3 DEF RecordBash
    <3> HIDE DEF b
    <3>3. b \in Record
        BY <3>1 DEF Plain
    <3>4. messages' = messages \o <<b>> /\ entries' = entries \o <<b>> /\ <<b>> \in Seq(Plain)
        BY <3>1, <3>2, <3>3 DEF SessionTypeOK
    <3>5. PlainEffect
        BY <3>4, PlainAppended
    <3>6. run.at # "tools"
        BY <1>0, <2>3, RunType
    <3> QED BY <3>5, <3>6, <2>1 DEF Effect, NoToolsUnderway, ToolsSame
  <2> QED BY <2>2, <2>3
<1> QED BY <1>1, <1>2, <1>3, <1>4, <1>5, <1>6 DEF UserStep

\* What a run says is heard, or the history says that it was not.
LEMMA HeardEffect ==
    ASSUME SessionTypeOK, RunIsHeard, Streaming \/ cut' = (cut \/ ~Connected),
           Streaming => cut' = cut, NEW ms \in Seq(Record), Heard(ms)
    PROVE  /\ messages' = messages \o ms
           /\ entries' = entries \o ms \/ (entries' = entries /\ cut')
BY DEF Heard, RunIsHeard, SessionTypeOK, RestTypeOK

\* What the agent's run does to them.
LEMMA RunStepEffect ==
    ASSUME SessionTypeOK, RunIsHeard, RunStep
    PROVE  Effect
<1>0. RestTypeOK
    BY DEF SessionTypeOK
<1>1. UNCHANGED RunUnchanged => cut' = cut
    BY DEF RunUnchanged
<1>2. run.at # "idle" => Streaming /\ run \in ActiveRun
    BY <1>0, RunType
<1>3. ASSUME NEW j \in Inputs, Inject(j), Streaming, cut' = cut PROVE PlainEffect
  <2>1. User(j) \in Plain /\ User(j) \in Record
    <3>1. j \in Nat
        BY InputsAreNats
    <3> QED BY <3>1, RecordsMade DEF Plain
  <2>2. <<User(j)>> \in Seq(Plain) /\ <<User(j)>> \in Seq(Record)
    BY <2>1
  <2>3. Heard(<<User(j)>>)
    BY <1>3 DEF Inject
  <2> QED BY <1>3, <2>2, <2>3, HeardEffect, PlainAppended
<1>4. ASSUME TakeSteering \/ TakeFollowUp, Streaming, cut' = cut PROVE PlainEffect
  <2>1. /\ steering # <<>> => Head(steering) \in Inputs
        /\ followUp # <<>> => Head(followUp) \in Inputs
    BY <1>0 DEF RestTypeOK
  <2> QED BY <1>3, <1>4, <2>1 DEF TakeSteering, TakeFollowUp
<1>5. ASSUME Ask, run \in ActiveRun PROVE run'.at = "ask" /\ run'.call = run.call
    BY <1>5 DEF Ask, ActiveRun
<1>6. CASE Poll
  <2>1. run.at = "poll" /\ cut' = cut /\ Streaming /\ run'.at = "ask"
    BY <1>1, <1>2, <1>5, <1>6 DEF Poll
  <2>2. CASE TakeSteering
    BY <2>1, <2>2, <1>4 DEF Effect, NoToolsUnderway, ToolsSame
  <2>3. CASE UNCHANGED <<queues, messages, entries, tried, pc, burst>>
    BY <2>1, <2>3 DEF Effect, Unmoved, ToolsSame
  <2> QED BY <1>6, <2>2, <2>3 DEF Poll
<1>7. CASE Turn
  <2>1. run.at = "turn" /\ cut' = cut /\ Streaming /\ run \in ActiveRun
    BY <1>1, <1>2, <1>7 DEF Turn
  <2>2. CASE (TakeSteering \/ TakeFollowUp) /\ Ask
    BY <2>1, <2>2, <1>4, <1>5 DEF Effect, NoToolsUnderway, ToolsSame
  <2>3. CASE /\ run' = [run EXCEPT !.at = "end"]
             /\ UNCHANGED <<queues, messages, entries, tried, pc, burst>>
    <3>1. run'.at = "end"
        BY <2>1, <2>3 DEF ActiveRun
    <3> QED BY <2>1, <2>3, <3>1 DEF Effect, Unmoved, ToolsSame
  <2> QED BY <1>7, <2>2, <2>3 DEF Turn
<1>8. CASE ToolsDone
  <2>1. run.at = "tools" /\ cut' = cut /\ Streaming /\ run \in ActiveRun
    BY <1>1, <1>2, <1>8 DEF ToolsDone
  <2>2. Result(run.call) \in Record
    BY <2>1, RecordsMade DEF ActiveRun
  <2>3. Heard(<<Result(run.call)>>) /\ run'.at = "poll"
    BY <1>8, <2>1 DEF ToolsDone, ActiveRun
  <2> DEFINE x == Result(run.call)
  <2> HIDE DEF x
  <2>4. <<x>> \in Seq(Record) /\ Heard(<<x>>)
    BY <2>2, <2>3 DEF x
  <2>5. /\ messages' = messages \o <<x>>
        /\ entries' = entries \o <<x>> \/ (entries' = entries /\ cut')
    BY <2>1, <2>4, HeardEffect
  <2>6. messages \o <<x>> = Append(messages, x) /\ entries \o <<x>> = Append(entries, x)
    BY <2>2 DEF SessionTypeOK, x
  <2> QED BY <2>1, <2>3, <2>5, <2>6 DEF Effect, ResultEffect, x
<1>9. CASE EndRun
  <2>1. run'.at = "idle" /\ run.at = "end"
    BY <1>9 DEF EndRun, NoRun
  <2> QED BY <1>9, <2>1 DEF EndRun, Effect, Unmoved, ToolsSame
<1>10. ASSUME NEW kind \in Finished \cup Stopped, Answer(kind) PROVE Effect
  <2> DEFINE m == Message("assistant", Len(entries) + 1, kind[1], kind[2], run.era)
  <2>1. run.at = "ask" /\ cut' = cut /\ Streaming /\ run \in ActiveRun
    BY <1>1, <1>2, <1>10 DEF Answer
  <2>2. /\ m \in Record /\ m.id = Len(entries) + 1 /\ m.id \in Nat /\ m.role = "assistant"
        /\ m.stop = kind[1]
    <3>1. kind[1] \in Stops /\ kind[2] \in Whats
        BY KindsAre
    <3>2. Len(entries) + 1 \in Nat /\ run.era \in Nat
        BY <2>1 DEF ActiveRun, SessionTypeOK
    <3>3. "assistant" \in Roles
        BY DEF Roles
    <3> QED BY <3>1, <3>2, <3>3, MessageMade
  <2>3. /\ Heard(<<m>>)
        /\ run' = [run EXCEPT !.call = m.id,
                              !.at = CASE kind[1] = "tool" -> "tools"
                                       [] kind[1] = "stop" -> "turn"
                                       [] OTHER            -> "end"]
    BY <1>10 DEF Answer
  <2> HIDE DEF m
  <2>4. run'.call = m.id /\ ((run'.at = "tools") <=> (kind[1] = "tool"))
    BY <2>1, <2>3 DEF ActiveRun
  <2>5. /\ messages' = messages \o <<m>>
        /\ entries' = entries \o <<m>> \/ (entries' = entries /\ cut')
    <3>1. <<m>> \in Seq(Record)
        BY <2>2
    <3> QED BY <2>1, <2>3, <3>1, HeardEffect
  <2>6. messages \o <<m>> = Append(messages, m) /\ entries \o <<m>> = Append(entries, m)
    BY <2>2 DEF SessionTypeOK
  <2> QED BY <2>1, <2>2, <2>4, <2>5, <2>6 DEF Effect, AnswerEffect, IsAssistant
<1> QED BY <1>6, <1>7, <1>8, <1>9, <1>10 DEF RunStep

\* What compact() does to them.
LEMMA CompactStepEffect ==
    ASSUME SessionTypeOK, RunIsHeard, ManualOK, CompactStep
    PROVE  Effect
<1>0. RestTypeOK
    BY DEF SessionTypeOK
<1>1. CASE CompactPrepares
    BY <1>1 DEF CompactPrepares, Effect, Unmoved, ToolsSame
<1>2. ASSUME NEW ok \in BOOLEAN, CompactEnds(ok) PROVE Effect
  <2>1. run' = run /\ manual >= 0
    BY <1>2 DEF CompactEnds
  <2>2. CASE ~ok
    BY <1>2, <2>1, <2>2 DEF CompactEnds, Effect, Unmoved, ToolsSame
  <2>3. CASE ok
    <3>1. /\ manual # NoCut /\ entries' = Append(entries, Compacted(manual))
          /\ messages' = Context(entries')
        BY <1>2, <2>3 DEF CompactEnds
    <3>2. manual \in Nat /\ IsCut(manual, entries)
        BY <1>0, <2>1, <3>1 DEF RestTypeOK, ManualOK, NoCut, Off, Waiting
    <3>3. manual \in 1..Len(entries)
        BY <3>2 DEF IsCut
    <3>4. Context(Append(entries, Compacted(manual))) \in Seq(Record)
        BY <3>3, CompactedEnds DEF SessionTypeOK
    <3>5. TrimOf(messages', Context(entries'))
        BY <3>1, <3>4, TrimSelf
    <3>6. run.at # "tools" \/ cut
      <4>1. ~Connected
        BY <2>1 DEF Connected, Off
      <4>2. run.at = "tools" => Streaming
        BY <1>0, RunType
      <4> QED BY <4>1, <4>2 DEF RunIsHeard
    <3>7. CompactEffect
        BY <3>1, <3>2, <3>5 DEF CompactEffect
    <3> QED BY <2>1, <3>6, <3>7 DEF Effect, NoToolsUnderway, ToolsSame
  <2> QED BY <2>2, <2>3
<1> QED BY <1>1, <1>2 DEF CompactStep

\* A prompt that drops an answer, or none, while it is busy.
LEMMA DropEffect ==
    ASSUME SessionTypeOK, NEW i \in Inputs, pc[i] \in Busy, pc[i] # "running",
           messages' = DropAssistant(messages) \/ messages' = messages,
           entries' = entries, run' = run
    PROVE  Effect
<1>1. TrimOf(messages', messages)
    BY DropIsTrim, TrimSelf DEF SessionTypeOK
<1>2. PlainEffect
    BY <1>1, PlainDropped
<1> QED BY <1>2 DEF Effect, NoToolsUnderway, SomeoneElse, ToolsSame

\* A run that begins appends its messages.
LEMMA StartRunEffect ==
    ASSUME SessionTypeOK, ~Streaming, NEW i \in Inputs, NEW ms \in Seq(Inputs),
           NEW at \in {"poll", "ask"}, StartRun(i, ms, at)
    PROVE  Effect
<1>0. RestTypeOK
    BY DEF SessionTypeOK
<1> DEFINE us == [k \in 1..Len(ms) |-> User(ms[k])]
<1>1. us \in Seq(Plain)
  <2>1. \A k \in 1..Len(ms) : User(ms[k]) \in Plain
    <3> SUFFICES ASSUME NEW k \in 1..Len(ms) PROVE User(ms[k]) \in Plain
        OBVIOUS
    <3>1. ms[k] \in Nat
        BY ElementOfSeq, InputsAreNats
    <3> QED BY <3>1, RecordsMade DEF Plain
  <2>2. us \in [1..Len(ms) -> Plain] /\ Len(ms) \in Nat
    BY <2>1, LenProperties
  <2> HIDE DEF us
  <2> QED BY <2>2, SeqDef
<1>2. /\ messages' = messages \o us
      /\ entries' = IF Connected THEN entries \o us ELSE entries
      /\ cut' = (cut \/ ~Connected)
      /\ run'.at = at
    BY DEF StartRun, Heard
<1> HIDE DEF us
<1>3. PlainEffect
    BY <1>1, <1>2, PlainAppended
<1>4. run.at = "idle"
    BY <1>0, RunType
<1> QED BY <1>2, <1>3, <1>4 DEF Effect, NoToolsUnderway, ToolsSame

\* The decision after a run drops an answer at most.
LEMMA CompactOrResumeEffect ==
    ASSUME SessionTypeOK, NEW i \in Inputs, pc[i] \in Busy, pc[i] # "running", NEW m,
           CompactOrResume(i, m), entries' = entries, run' = run
    PROVE  Effect
<1>1. messages' = DropAssistant(messages) \/ messages' = messages
    BY DEF CompactOrResume, StartCompaction
<1> QED BY <1>1, DropEffect

\* What the steps of prompt() do to them.
LEMMA PromptStepEffect ==
    ASSUME SessionTypeOK, RunIsHeard, JobsOK, NEW i \in Inputs, PromptStep(i)
    PROVE  Effect
<1>0. RestTypeOK
    BY DEF SessionTypeOK
<1>01. ~Streaming => run.at = "idle"
    BY <1>0, RunType
<1>02. ASSUME pc[i] \in Busy, pc[i] # "running" PROVE SomeoneElse
    BY <1>02 DEF SomeoneElse
<1>1. CASE AdmitStreaming(i)
    BY <1>1 DEF AdmitStreaming, Effect, Unmoved, ToolsSame
<1>2. CASE AdmitIdle(i)
  <2>1. PlainEffect /\ run' = run /\ ~Streaming
    BY <1>2, FlushEffect DEF AdmitIdle
  <2> QED BY <1>01, <2>1 DEF Effect, NoToolsUnderway, ToolsSame
<1>3. CASE Precheck(i)
  <2>1. /\ messages' = DropAssistant(messages) \/ messages' = messages
        /\ entries' = entries /\ run' = run /\ pc[i] = "preflight"
    BY <1>3 DEF Precheck, StartCompaction
  <2> QED BY <2>1, DropEffect, BusyPlaces
<1>4. CASE Send(i)
  <2>1. StartRun(i, <<i>>, "poll") /\ ~Streaming /\ <<i>> \in Seq(Inputs)
    BY <1>4 DEF Send
  <2> QED BY <2>1, StartRunEffect
<1>5. CASE SendFails(i)
  <2>1. PlainEffect /\ run' = run /\ pc[i] = "send"
    BY <1>5, FlushEffect DEF SendFails
  <2> QED BY <1>02, <2>1, BusyPlaces DEF Effect, NoToolsUnderway, ToolsSame
<1>6. CASE Post(i)
  <2>1. entries' = entries /\ run' = run /\ pc[i] = "post"
    BY <1>6 DEF Post, PostUnchanged
  <2>2. pc[i] \in Busy /\ pc[i] # "running"
    BY <2>1, BusyPlaces
  <2>3. \/ messages' = messages \/ messages' = DropAssistant(messages)
        \/ CompactOrResume(i, last)
    BY <1>6 DEF Post
  <2> QED BY <2>1, <2>2, <2>3, DropEffect, CompactOrResumeEffect
<1>7. CASE WakeRetry(i)
    BY <1>7 DEF WakeRetry, PostUnchanged, Effect, Unmoved, ToolsSame
<1>8. CASE RetryCancelled(i)
  <2>1. /\ entries' = entries /\ run' = run /\ pc[i] = "sleep"
        /\ CompactOrResume(i, seen[i])
    BY <1>8 DEF RetryCancelled, PostUnchanged
  <2>2. pc[i] \in Busy /\ pc[i] # "running"
    BY <2>1, BusyPlaces
  <2> QED BY <2>1, <2>2, CompactOrResumeEffect
<1>9. CASE AutoCompacted(i)
  <2>1. /\ pc[i] = "compacting" /\ job[i].keep # NoCut /\ run' = run
        /\ entries' = Append(entries, Compacted(job[i].keep))
        /\ messages' = ReadyToRetry(Context(entries')) \/ messages' = Context(entries')
    BY <1>9 DEF AutoCompacted, AutoDone
  <2>2. job[i].keep \in Nat /\ IsCut(job[i].keep, entries)
    BY <1>0, <2>1 DEF JobsOK, RestTypeOK, Job
  <2>3. job[i].keep \in 1..Len(entries)
    BY <2>2 DEF IsCut
  <2>4. Context(Append(entries, Compacted(job[i].keep))) \in Seq(Record)
    BY <2>3, CompactedEnds DEF SessionTypeOK
  <2>5. TrimOf(messages', Context(entries'))
    BY <2>1, <2>4, TrimSelf, ReadyIsTrim
  <2>6. CompactEffect
    BY <2>1, <2>2, <2>5 DEF CompactEffect
  <2> QED BY <1>02, <2>1, <2>6, BusyPlaces DEF Effect, NoToolsUnderway, ToolsSame
<1>10. CASE AutoFailed(i)
    BY <1>10 DEF AutoFailed, AutoDone, Effect, Unmoved, ToolsSame
<1>11. CASE ContinueFails(i)
  <2>1. /\ pc[i] = "continue" /\ run' = run
        /\ messages' = Trimmed \o bash /\ entries' = entries \o bash
    BY <1>11 DEF ContinueFails
  <2>2. bash \in Seq(Plain)
    BY <1>0, BashIsPlain
  <2>3. TrimOf(Trimmed, messages)
    BY TrimmedIsTrim DEF SessionTypeOK
  <2>4. PlainEffect
    BY <2>1, <2>2, <2>3 DEF PlainEffect
  <2> QED BY <1>02, <2>1, <2>4, BusyPlaces DEF Effect, NoToolsUnderway, ToolsSame
<1>12. CASE ContinueWithQueued(i)
  <2>1. /\ ~Streaming
        /\ \/ steering # <<>> /\ StartRun(i, <<Head(steering)>>, "ask")
           \/ steering = <<>> /\ StartRun(i, <<Head(followUp)>>, "poll")
        /\ HasQueued
    BY <1>12 DEF ContinueWithQueued, Answering
  <2>2. /\ steering # <<>> => <<Head(steering)>> \in Seq(Inputs)
        /\ followUp # <<>> => <<Head(followUp)>> \in Seq(Inputs)
    BY <1>0 DEF RestTypeOK
  <2> QED BY <2>1, <2>2, StartRunEffect DEF HasQueued
<1>13. CASE ContinueTranscript(i)
  <2>1. /\ pc[i] = "continue" /\ messages' = Trimmed /\ entries' = entries
        /\ run' = run \/ (~Streaming /\ run'.at = "poll")
    BY <1>13 DEF ContinueTranscript
  <2>2. TrimOf(messages', messages)
    BY <2>1, TrimmedIsTrim DEF SessionTypeOK
  <2>3. PlainEffect
    BY <2>1, <2>2, PlainDropped
  <2> QED BY <1>01, <1>02, <2>1, <2>3, BusyPlaces DEF Effect, NoToolsUnderway, ToolsSame
<1>14. CASE Finish(i)
  <2>1. PlainEffect /\ run' = run /\ pc[i] = "finish"
    BY <1>14, FlushEffect DEF Finish
  <2> QED BY <1>02, <2>1, BusyPlaces DEF Effect, NoToolsUnderway, ToolsSame
<1> QED BY <1>1, <1>2, <1>3, <1>4, <1>5, <1>6, <1>7, <1>8, <1>9, <1>10, <1>11, <1>12,
           <1>13, <1>14 DEF PromptStep

\* Every step has one of these effects.
LEMMA StepEffect ==
    ASSUME StoreInv, [SessionNext]_sessionVars
    PROVE  Effect
<1>1. SessionTypeOK /\ RunIsHeard /\ JobsOK /\ ManualOK
    BY DEF StoreInv
<1>2. CASE UNCHANGED sessionVars
    BY <1>2 DEF sessionVars, Effect, Unmoved, ToolsSame
<1> QED BY <1>1, <1>2, UserStepEffect, RunStepEffect, CompactStepEffect, PromptStepEffect
        DEF SessionNext

\* The transcript is what the file gives back, after every step.
LEMMA StoreStep ==
    ASSUME StoreInv, [SessionNext]_sessionVars
    PROVE  /\ messages' \in Seq(Record) /\ entries' \in Seq(Record)
           /\ CutsBefore(entries') /\ AnswerIds(entries')
           /\ \A k \in Nat : IsCut(k, entries) => IsCut(k, entries')
           /\ cut' \/ Persisted(messages', entries')
<1>0. /\ messages \in Seq(Record) /\ entries \in Seq(Record) /\ RestTypeOK
      /\ CutsBefore(entries) /\ AnswerIds(entries)
      /\ cut \/ Persisted(messages, entries)
    BY DEF StoreInv, SessionTypeOK, TranscriptPersisted, Persisted
<1>1. cut => cut'
  <2>1. ASSUME NEW i \in Inputs, PromptStep(i), cut PROVE cut'
    BY <2>1 DEF PromptStep, AdmitStreaming, AdmitIdle, Precheck, Send, SendFails, Post,
          WakeRetry, RetryCancelled, AutoCompacted, AutoFailed, AutoDone, ContinueFails,
          ContinueWithQueued, ContinueTranscript, Finish, StartRun, PostUnchanged, history
  <2>2. ASSUME UserStep, cut PROVE cut'
    BY <2>2 DEF UserStep, Submit, Hold, QueueDirectly, Abort, Escape, AbortCompaction, RecordBash,
          CompactStarts, history
  <2>3. ASSUME RunStep, cut PROVE cut'
    BY <2>3 DEF RunStep, Poll, ToolsDone, Turn, EndRun, Answer, RunUnchanged
  <2>4. ASSUME CompactStep, cut PROVE cut'
    BY <2>4 DEF CompactStep, CompactPrepares, CompactEnds, history
  <2>5. ASSUME UNCHANGED sessionVars, cut PROVE cut'
    BY <2>5 DEF sessionVars, history
  <2> QED BY <2>1, <2>2, <2>3, <2>4, <2>5 DEF SessionNext
<1>2. Effect
    BY StepEffect
<1>3. CASE Unmoved
    BY <1>0, <1>1, <1>3 DEF Unmoved
<1>4. CASE PlainEffect
  <2>0. PICK t : \E ms \in Seq(Plain) :
            /\ TrimOf(t, messages)
            /\ messages' = t \o ms
            /\ entries' = entries \o ms \/ (entries' = entries /\ cut')
    BY <1>4 DEF PlainEffect
  <2>1. PICK ms \in Seq(Plain) :
            /\ TrimOf(t, messages)
            /\ messages' = t \o ms
            /\ entries' = entries \o ms \/ (entries' = entries /\ cut')
    BY <2>0
  <2>2. t \in Seq(Record) /\ ms \in Seq(Record)
    BY <2>1 DEF TrimOf, Plain
  <2>3. \A e \in Range(ms) : e.role # "compaction" /\ ~IsAssistant(e)
    BY DEF Range, Plain, IsAssistant
  <2>4. \A k \in 1..Len(ms) : ~IsAssistant(ms[k])
    BY <2>3 DEF Range
  <2>5. messages' \in Seq(Record)
    BY <2>1, <2>2
  <2>6. CASE entries' = entries \o ms
    <3>1. entries' \in Seq(Record)
        BY <1>0, <2>2, <2>6
    <3>2. /\ CutsBefore(entries') /\ AnswerIds(entries')
          /\ \A k \in Nat : IsCut(k, entries) => IsCut(k, entries')
        BY <1>0, <2>2, <2>3, <2>4, <2>6, CutsConcat
    <3>3. ASSUME ~cut' PROVE Persisted(messages', entries')
      <4>1. Persisted(t, entries)
        BY <1>0, <1>1, <2>1, <3>3, PersistedTrim
      <4> QED BY <1>0, <2>1, <2>2, <2>3, <2>6, <4>1, PersistedConcat
    <3> QED BY <2>5, <3>1, <3>2, <3>3
  <2>7. CASE entries' = entries /\ cut'
    BY <1>0, <2>5, <2>7
  <2> QED BY <2>1, <2>6, <2>7
<1>5. ASSUME NEW m \in Record, m.role # "compaction",
             IsAssistant(m) => m.id = Len(entries) + 1,
             messages' = Append(messages, m),
             entries' = Append(entries, m) \/ (entries' = entries /\ cut')
      PROVE  /\ messages' \in Seq(Record) /\ entries' \in Seq(Record)
             /\ CutsBefore(entries') /\ AnswerIds(entries')
             /\ \A k \in Nat : IsCut(k, entries) => IsCut(k, entries')
             /\ cut' \/ Persisted(messages', entries')
  <2>1. <<m>> \in Seq(Record) /\ messages' = messages \o <<m>>
    BY <1>0, <1>5
  <2>2. messages' \in Seq(Record)
    BY <1>0, <1>5
  <2>3. CASE entries' = Append(entries, m)
    <3>1. entries' \in Seq(Record) /\ entries' = entries \o <<m>>
        BY <1>0, <1>5, <2>3
    <3>2. \A e \in Range(<<m>>) : e = m
        BY DEF Range
    <3>3. \A k \in 1..Len(<<m>>) : IsAssistant(<<m>>[k]) => <<m>>[k].id = Len(entries) + k
        BY <1>5
    <3>4. /\ CutsBefore(entries') /\ AnswerIds(entries')
          /\ \A k \in Nat : IsCut(k, entries) => IsCut(k, entries')
        BY <1>0, <1>5, <2>1, <3>1, <3>2, <3>3, CutsConcat
    <3>5. IsAssistant(m) => m \notin Range(entries)
      <4> SUFFICES ASSUME IsAssistant(m), m \in Range(entries) PROVE FALSE
        OBVIOUS
      <4>1. PICK k \in 1..Len(entries) : entries[k] = m
        BY <1>0 DEF Range
      <4>2. m.id = k
        BY <1>0, <4>1 DEF AnswerIds
      <4>3. Len(entries) \in Nat
        BY <1>0, LenProperties
      <4> QED BY <1>5, <4>1, <4>2, <4>3
    <3>6. ASSUME ~cut' PROVE Persisted(messages', entries')
        BY <1>0, <1>1, <1>5, <2>1, <3>1, <3>2, <3>5, <3>6, PersistedConcat
    <3> QED BY <2>2, <3>1, <3>4, <3>6
  <2>4. CASE entries' = entries /\ cut'
    BY <1>0, <2>2, <2>4
  <2> QED BY <1>5, <2>3, <2>4
<1>6. CASE AnswerEffect
    BY <1>5, <1>6 DEF AnswerEffect, IsAssistant
<1>7. CASE ResultEffect
  <2>1. run \in ActiveRun
    BY <1>0, <1>7, RunType DEF ResultEffect
  <2>2. run.call \in Nat
    BY <2>1 DEF ActiveRun
  <2>3. /\ Result(run.call) \in Record /\ Result(run.call).role = "result"
    BY <2>2, RecordsMade
  <2> DEFINE r == Result(run.call)
  <2>4. r \in Record /\ r.role # "compaction" /\ ~IsAssistant(r)
    BY <2>3 DEF IsAssistant
  <2>5. messages' = Append(messages, r) /\ (entries' = Append(entries, r) \/ (entries' = entries /\ cut'))
    BY <1>7 DEF ResultEffect
  <2> HIDE DEF r
  <2> QED BY <1>5, <2>4, <2>5
<1>8. CASE CompactEffect
  <2>1. PICK k \in Nat : /\ IsCut(k, entries)
                         /\ entries' = Append(entries, Compacted(k))
                         /\ TrimOf(messages', Context(entries'))
    BY <1>8 DEF CompactEffect
  <2>2. entries' \in Seq(Record)
    <3>1. Compacted(k) \in Record
        BY RecordsMade
    <3> QED BY <1>0, <2>1, <3>1
  <2>3. messages' \in Seq(Record)
    BY <2>1 DEF TrimOf
  <2>4. /\ CutsBefore(entries') /\ AnswerIds(entries')
        /\ \A j \in Nat : IsCut(j, entries) => IsCut(j, entries')
    BY <1>0, <2>1, CutsCompacted
  <2>5. k \in 1..Len(entries)
    BY <2>1 DEF IsCut
  <2>6. Context(entries') \in Seq(Record)
    BY <1>0, <2>1, <2>5, CompactedEnds
  <2>7. Persisted(Context(entries'), entries')
    BY <2>2, <2>4, PersistedContext
  <2>8. Persisted(messages', entries')
    BY <2>1, <2>2, <2>4, <2>6, <2>7, PersistedTrim
  <2> QED BY <2>2, <2>3, <2>4, <2>8
<1> QED BY <1>2, <1>3, <1>4, <1>6, <1>7, <1>8 DEF Effect

\* A compaction underway keeps its cut, and a new one has one of the entries.
LEMMA JobStep ==
    ASSUME SessionTypeOK, [SessionNext]_sessionVars
    PROVE  \A i \in Inputs : \/ job'[i] = job[i] \/ job'[i].keep = NoCut
                             \/ job'[i].keep \in SomeCut /\ entries' = entries
<1>1. CASE job' = job
    BY <1>1
<1>2. ASSUME NEW i \in Inputs, NEW why, StartCompaction(i, why), entries' = entries
      PROVE  \A j \in Inputs : \/ job'[j] = job[j] \/ job'[j].keep = NoCut
                               \/ job'[j].keep \in SomeCut /\ entries' = entries
  <2>1. PICK keep \in SomeCut : job' = [job EXCEPT ![i] = [why |-> why, keep |-> keep]]
    BY <1>2 DEF StartCompaction
  <2> QED BY <1>2, <2>1 DEF SessionTypeOK, RestTypeOK
<1>3. ASSUME NEW i \in Inputs, job' = [job EXCEPT ![i] = NoJob]
      PROVE  \A j \in Inputs : job'[j] = job[j] \/ job'[j].keep = NoCut
    BY <1>3 DEF SessionTypeOK, RestTypeOK, NoJob
<1>4. ASSUME NEW i \in Inputs, PromptStep(i)
      PROVE  \/ job' = job \/ job' = [job EXCEPT ![i] = NoJob]
             \/ entries' = entries /\ \E why : StartCompaction(i, why)
    BY <1>4 DEF PromptStep, AdmitStreaming, AdmitIdle, Precheck, Send, SendFails, Post,
          WakeRetry, RetryCancelled, AutoCompacted, AutoFailed, AutoDone, ContinueFails,
          ContinueWithQueued, ContinueTranscript, Finish, CompactOrResume, PostUnchanged
<1>5. CASE UserStep
    BY <1>1, <1>5 DEF UserStep, Submit, Hold, QueueDirectly, Abort, Escape, AbortCompaction, RecordBash,
          CompactStarts, OthersUnchanged
<1>6. CASE RunStep
    BY <1>1, <1>6 DEF RunStep, Poll, ToolsDone, Turn, EndRun, Answer, RunUnchanged
<1>7. CASE CompactStep
    BY <1>1, <1>7 DEF CompactStep, CompactPrepares, CompactEnds, OthersUnchanged
<1>8. CASE UNCHANGED sessionVars
    BY <1>1, <1>8 DEF sessionVars, inputVars
<1> QED BY <1>1, <1>2, <1>3, <1>4, <1>5, <1>6, <1>7, <1>8 DEF SessionNext

\* The same for compact().
LEMMA ManualStep ==
    ASSUME SessionTypeOK, [SessionNext]_sessionVars
    PROVE  manual' = manual \/ manual' \in {Off, Waiting} \/ (manual' \in SomeCut /\ entries' = entries)
<1>1. ASSUME NEW i \in Inputs, PromptStep(i) PROVE manual' = manual
    BY <1>1 DEF PromptStep, AdmitStreaming, AdmitIdle, Precheck, Send, SendFails, Post,
          WakeRetry, RetryCancelled, AutoCompacted, AutoFailed, AutoDone, ContinueFails,
          ContinueWithQueued, ContinueTranscript, Finish, PostUnchanged, controls
<1>2. CASE UserStep
    BY <1>2 DEF UserStep, Submit, Hold, QueueDirectly, Abort, Escape, AbortCompaction, RecordBash,
          CompactStarts, controls
<1>3. CASE RunStep
    BY <1>3 DEF RunStep, Poll, ToolsDone, Turn, EndRun, Answer, RunUnchanged, controls
<1>4. CASE CompactStep
    BY <1>4 DEF CompactStep, CompactPrepares, CompactEnds
<1>5. CASE UNCHANGED sessionVars
    BY <1>5 DEF sessionVars, controls
<1> QED BY <1>1, <1>2, <1>3, <1>4, <1>5 DEF SessionNext

\* A run that is not cut off is heard.
LEMMA HeardStep ==
    ASSUME SessionTypeOK, RunIsHeard, [SessionNext]_sessionVars
    PROVE  RunIsHeard'
<1>0. RestTypeOK /\ manual \in Nat \cup {Off, Waiting} /\ cut \in BOOLEAN
    BY DEF SessionTypeOK, RestTypeOK
<1>1. CASE run' = run /\ cut' = cut /\ (manual' = manual \/ manual' = Off)
    BY <1>1 DEF RunIsHeard, Streaming, Connected
<1>2. ASSUME Streaming, cut' = cut, manual' = manual PROVE RunIsHeard'
    BY <1>2 DEF RunIsHeard, Streaming, Connected
<1>3. ASSUME cut' = (cut \/ ~Connected), manual' = manual PROVE RunIsHeard'
    BY <1>0, <1>3 DEF RunIsHeard, Streaming, Connected
<1>4. ASSUME NEW i \in Inputs, PromptStep(i) PROVE RunIsHeard'
  <2>1. \/ run' = run /\ cut' = cut
        \/ cut' = (cut \/ ~Connected)
    BY <1>4 DEF PromptStep, AdmitStreaming, AdmitIdle, Precheck, Send, SendFails, Post,
          WakeRetry, RetryCancelled, AutoCompacted, AutoFailed, AutoDone, ContinueFails,
          ContinueWithQueued, ContinueTranscript, Finish, StartRun, PostUnchanged, history
  <2>2. manual' = manual
    BY <1>4 DEF PromptStep, AdmitStreaming, AdmitIdle, Precheck, Send, SendFails, Post,
          WakeRetry, RetryCancelled, AutoCompacted, AutoFailed, AutoDone, ContinueFails,
          ContinueWithQueued, ContinueTranscript, Finish, PostUnchanged, controls
  <2> QED BY <1>1, <1>3, <2>1, <2>2
<1>5. CASE UserStep
  <2>1. CASE CompactStarts
    <3>1. cut' = (cut \/ Streaming) /\ Streaming' = Streaming
        BY <1>0, <2>1, AbortRunSame DEF CompactStarts
    <3> QED BY <1>0, <3>1 DEF RunIsHeard
  <2>2. CASE Abort \/ Escape
    <3>1. Streaming' = Streaming /\ cut' = cut /\ manual' = manual
        BY <1>0, <2>2, AbortRunSame DEF Abort, Escape, history
    <3> QED BY <3>1 DEF RunIsHeard, Connected
  <2>3. CASE \/ \E i \in Inputs, h \in {"none", "steer", "followUp"} :
                    Submit(i, h) \/ Hold(i, h) \/ QueueDirectly(i, h)
             \/ AbortCompaction \/ RecordBash
    BY <1>1, <2>3 DEF Submit, Hold, QueueDirectly, AbortCompaction, RecordBash, history, controls
  <2> QED BY <1>5, <2>1, <2>2, <2>3 DEF UserStep
<1>6. CASE RunStep
  <2>1. run.at # "idle" /\ cut' = cut /\ manual' = manual
    BY <1>6 DEF RunStep, Poll, ToolsDone, Turn, EndRun, Answer, RunUnchanged, controls
  <2>2. Streaming
    BY <1>0, <2>1, RunType
  <2> QED BY <1>2, <2>1, <2>2
<1>7. CASE CompactStep
  <2>1. CASE CompactPrepares
    BY <2>1 DEF CompactPrepares, RunIsHeard, Streaming, Connected
  <2>2. ASSUME NEW ok \in BOOLEAN, CompactEnds(ok) PROVE RunIsHeard'
    BY <1>1, <2>2 DEF CompactEnds, history
  <2> QED BY <1>7, <2>1, <2>2 DEF CompactStep
<1>8. CASE UNCHANGED sessionVars
    BY <1>1, <1>8 DEF sessionVars, controls, history
<1> QED BY <1>4, <1>5, <1>6, <1>7, <1>8 DEF SessionNext

\* At the start there is nothing in the transcript or the entries.
LEMMA StoreInvInit ==
    ASSUME SessionInit
    PROVE  StoreInv
<1>1. RestTypeOK
  <2>1. NoMessage \in Record /\ NoJob \in Job /\ MaxInputs \in Nat
    BY RecordsMade, InputsAreNats DEF NoJob, NoCut, Job
  <2>2. "unused" \in Locations
    BY PlacesAre
  <2>3. /\ pc \in [Inputs -> Locations]
        /\ how \in [Inputs -> {"none", "steer", "followUp"}]
        /\ stage \in [Inputs -> {"check", "pre", "main"}]
        /\ seen \in [Inputs -> Record]
        /\ job \in [Inputs -> Job]
        /\ batch \in [Inputs -> Seq(Inputs)]
    BY <2>1, <2>2 DEF SessionInit
  <2>4. /\ last \in Record /\ run \in ActiveRun \cup {NoRun}
        /\ retryCtl \in 0..MaxInputs /\ autoCtl \in 0..MaxInputs
        /\ cancelled \subseteq 0..MaxInputs /\ burst \in [over : Nat, retryable : Nat]
    BY <2>1 DEF SessionInit, NoErrors
  <2>5. /\ steering \in Seq(Inputs) /\ followUp \in Seq(Inputs) /\ held \in Seq(Inputs)
        /\ bash \in Seq(BashRecord)
    BY DEF SessionInit
  <2>6. tried \in BOOLEAN /\ overlapped \in BOOLEAN /\ cut \in BOOLEAN
    BY Zenon DEF SessionInit
  <2>7. retry \in Nat /\ events \in Nat /\ manual \in Nat \cup {Off, Waiting}
    BY DEF SessionInit
  <2> QED BY <2>3, <2>4, <2>5, <2>6, <2>7 DEF RestTypeOK
<1>2. messages = <<>> /\ entries = <<>> /\ manual = Off /\ run = NoRun
    BY DEF SessionInit
<1>3. SessionTypeOK
    BY <1>1, <1>2 DEF SessionTypeOK
<1>4. CutsBefore(entries) /\ AnswerIds(entries)
    BY <1>2 DEF CutsBefore, AnswerIds
<1>5. JobsOK /\ ManualOK /\ RunIsHeard
    BY <1>2 DEF SessionInit, JobsOK, ManualOK, RunIsHeard, NoJob, Off, Streaming
<1>6. Persisted(Context(entries), entries)
    BY <1>3, <1>4, PersistedContext DEF SessionTypeOK
<1>7. Context(entries) = messages
    BY <1>2 DEF Context, CompactionsIn
<1> QED BY <1>3, <1>4, <1>5, <1>6, <1>7 DEF StoreInv, TranscriptPersisted, Persisted

\* Every step keeps the first layer.
LEMMA StoreInvStep ==
    ASSUME StoreInv, [SessionNext]_sessionVars
    PROVE  StoreInv'
<1>0. SessionTypeOK /\ RunIsHeard /\ JobsOK /\ ManualOK /\ entries \in Seq(Record) /\ RestTypeOK
    BY DEF StoreInv, SessionTypeOK
<1>1. /\ messages' \in Seq(Record) /\ entries' \in Seq(Record)
      /\ CutsBefore(entries') /\ AnswerIds(entries')
      /\ \A k \in Nat : IsCut(k, entries) => IsCut(k, entries')
      /\ cut' \/ Persisted(messages', entries')
    BY StoreStep
<1>2. RestTypeOK'
    BY <1>0, StepTypes
<1>3. \A k \in SomeCut : k \in Nat /\ (k # NoCut => IsCut(k, entries))
    BY <1>0, SomeCutType
<1>4. JobsOK'
  <2> SUFFICES ASSUME NEW i \in Inputs, job'[i].keep # NoCut PROVE IsCut(job'[i].keep, entries')
    BY DEF JobsOK
  <2>1. job[i].keep \in Nat
    BY <1>0 DEF RestTypeOK, Job
  <2>2. CASE job'[i] = job[i]
    BY <1>0, <1>1, <2>1, <2>2 DEF JobsOK
  <2>3. CASE job'[i].keep \in SomeCut /\ entries' = entries
    BY <1>3, <2>3
  <2> QED BY <1>0, <2>2, <2>3, JobStep
<1>5. ManualOK'
  <2> SUFFICES ASSUME manual' > 0 PROVE IsCut(manual', entries')
    BY DEF ManualOK
  <2>1. CASE manual' = manual
    BY <1>0, <1>1, <2>1 DEF ManualOK, RestTypeOK, Off, Waiting
  <2>2. CASE manual' \in SomeCut /\ entries' = entries
    BY <1>3, <2>2 DEF NoCut
  <2> QED BY <1>0, <2>1, <2>2, ManualStep DEF Off, Waiting
<1>6. RunIsHeard'
    BY <1>0, HeardStep
<1> QED BY <1>1, <1>2, <1>4, <1>5, <1>6 DEF StoreInv, SessionTypeOK, TranscriptPersisted, Persisted

\* Whatever overlaps, the transcript is what the session file gives back.
THEOREM StoreInvHolds == SessionSpec => []StoreInv
<1>1. SessionInit => StoreInv
    BY StoreInvInit
<1>2. StoreInv /\ [SessionNext]_sessionVars => StoreInv'
    BY StoreInvStep
<1> QED BY <1>1, <1>2, PTL DEF SessionSpec

\* The session file gives back what the model is sent: agent.state.messages is
\* buildSessionContext() of the entries but for answers that a retry has dropped,
\* for any number of prompts, also overlapping ones, aborts, retries and
\* compactions, unless compact() stopped listening to a run.
THEOREM TranscriptIsPersisted == SessionSpec => []TranscriptPersisted
<1>1. StoreInv => TranscriptPersisted
    BY DEF StoreInv
<1> QED BY <1>1, StoreInvHolds, PTL

-----------------------------------------------------------------------------
(***************************************************************************)
(* Who is doing what.  As long as no two prompts are underway at once and  *)
(* every run is heard, at most one prompt is busy, and it owns the run,    *)
(* the compaction or the pause there is; what is queued or held belongs to *)
(* prompts that are neither.                                               *)
(***************************************************************************)
OneBusy == \A i, j \in Inputs : pc[i] \in Busy /\ pc[j] \in Busy => i = j
RunIsOwned == \A i \in Inputs : pc[i] = "running" <=> (Streaming /\ run.owner = i)
AutoIsOwned == /\ autoCtl # 0 => pc[autoCtl] = "compacting"
               /\ \A i \in Inputs : pc[i] = "compacting" => autoCtl = i
RetryIsOwned == /\ retryCtl # 0 => pc[retryCtl] = "sleep"
                /\ \A i \in Inputs : pc[i] = "sleep" => retryCtl = i
Owned == OneBusy /\ RunIsOwned /\ AutoIsOwned /\ RetryIsOwned

Inactive == {"queued", "done", "cleared"}
QueuedAreInactive ==
    \A j \in Range(steering) \cup Range(followUp) : pc[j] \in Inactive
HeldAreHeld == /\ \A j \in Range(held) : pc[j] = "held"
               /\ \A j, k \in 1..Len(held) : held[j] = held[k] => j = k
Waiters == QueuedAreInactive /\ HeldAreHeld

ControlInv == Undisturbed => Owned /\ Waiters

\* History is not forgotten.
LEMMA StaysDisturbed ==
    ASSUME SessionTypeOK, [SessionNext]_sessionVars
    PROVE  Undisturbed' => Undisturbed
<1>1. ASSUME NEW i \in Inputs, PromptStep(i) PROVE Undisturbed' => Undisturbed
    BY <1>1 DEF PromptStep, AdmitStreaming, AdmitIdle, Precheck, Send, SendFails, Post,
          WakeRetry, RetryCancelled, AutoCompacted, AutoFailed, AutoDone, ContinueFails,
          ContinueWithQueued, ContinueTranscript, Finish, StartRun, PostUnchanged, history,
          Undisturbed
<1>2. CASE UserStep
    BY <1>2 DEF UserStep, Submit, Hold, QueueDirectly, Abort, Escape, AbortCompaction, RecordBash,
          CompactStarts, history, Undisturbed
<1>3. CASE RunStep
    BY <1>3 DEF RunStep, Poll, ToolsDone, Turn, EndRun, Answer, RunUnchanged, Undisturbed
<1>4. CASE CompactStep
    BY <1>4 DEF CompactStep, CompactPrepares, CompactEnds, history, Undisturbed
<1>5. CASE UNCHANGED sessionVars
    BY <1>5 DEF sessionVars, history, Undisturbed
<1> QED BY <1>1, <1>2, <1>3, <1>4, <1>5 DEF SessionNext

\* The prompt that is busy owns everything.
LEMMA OwnerFacts ==
    ASSUME RestTypeOK, Owned, NEW i \in Inputs, pc[i] \in Busy
    PROVE  /\ \A j \in Inputs : j # i => pc[j] \notin Busy
           /\ Streaming <=> pc[i] = "running"
           /\ Streaming => run.owner = i
           /\ autoCtl = IF pc[i] = "compacting" THEN i ELSE 0
           /\ retryCtl = IF pc[i] = "sleep" THEN i ELSE 0
<1>1. \A j \in Inputs : j # i => pc[j] \notin Busy
    BY DEF Owned, OneBusy
<1>2. Streaming => run.owner = i /\ pc[i] = "running"
  <2> SUFFICES ASSUME Streaming PROVE run.owner = i /\ pc[i] = "running"
    OBVIOUS
  <2>1. run.owner \in Inputs
    BY RunType
  <2>2. pc[run.owner] = "running"
    BY <2>1 DEF Owned, RunIsOwned
  <2> QED BY <1>1, <2>1, <2>2, BusyPlaces
<1>3. pc[i] = "running" => Streaming
    BY DEF Owned, RunIsOwned
<1>4. autoCtl \in 0..MaxInputs /\ retryCtl \in 0..MaxInputs /\ Inputs = 1..MaxInputs /\ MaxInputs \in Nat
    BY InputsAreNats DEF RestTypeOK, Inputs
<1>5. autoCtl # 0 => autoCtl = i /\ pc[i] = "compacting"
  <2> SUFFICES ASSUME autoCtl # 0 PROVE autoCtl = i /\ pc[i] = "compacting"
    OBVIOUS
  <2>1. autoCtl \in Inputs
    BY <1>4
  <2>2. pc[autoCtl] = "compacting"
    BY DEF Owned, AutoIsOwned
  <2> QED BY <1>1, <2>1, <2>2, BusyPlaces
<1>6. retryCtl # 0 => retryCtl = i /\ pc[i] = "sleep"
  <2> SUFFICES ASSUME retryCtl # 0 PROVE retryCtl = i /\ pc[i] = "sleep"
    OBVIOUS
  <2>1. retryCtl \in Inputs
    BY <1>4
  <2>2. pc[retryCtl] = "sleep"
    BY DEF Owned, RetryIsOwned
  <2> QED BY <1>1, <2>1, <2>2, BusyPlaces
<1>7. pc[i] = "compacting" => autoCtl = i
    BY DEF Owned, AutoIsOwned
<1>8. pc[i] = "sleep" => retryCtl = i
    BY DEF Owned, RetryIsOwned
<1> QED BY <1>1, <1>2, <1>3, <1>5, <1>6, <1>7, <1>8

\* When nobody is busy nothing is owned.
LEMMA NobodyFacts ==
    ASSUME RestTypeOK, Owned, \A i \in Inputs : pc[i] \notin Busy
    PROVE  ~Streaming /\ autoCtl = 0 /\ retryCtl = 0
<1>1. Inputs = 1..MaxInputs /\ MaxInputs \in Nat
    BY InputsAreNats DEF Inputs
<1>2. ~Streaming
    BY RunType, BusyPlaces DEF Owned, RunIsOwned
<1>3. autoCtl = 0
    BY <1>1, BusyPlaces DEF Owned, AutoIsOwned, RestTypeOK
<1>4. retryCtl = 0
    BY <1>1, BusyPlaces DEF Owned, RetryIsOwned, RestTypeOK
<1> QED BY <1>2, <1>3, <1>4

\* After a step of the prompt that is busy.
LEMMA OwnsAll ==
    ASSUME NEW i \in Inputs, pc' \in [Inputs -> Locations],
           \A j \in Inputs : j # i => pc'[j] \notin Busy,
           Streaming' <=> pc'[i] = "running", Streaming' => run'.owner = i,
           autoCtl' = IF pc'[i] = "compacting" THEN i ELSE 0,
           retryCtl' = IF pc'[i] = "sleep" THEN i ELSE 0
    PROVE  Owned'
<1>1. OneBusy'
    BY DEF OneBusy
<1>2. RunIsOwned'
    BY BusyPlaces DEF RunIsOwned
<1>3. AutoIsOwned' /\ RetryIsOwned'
    BY BusyPlaces DEF AutoIsOwned, RetryIsOwned
<1> QED BY <1>1, <1>2, <1>3 DEF Owned

\* After a step of somebody else.
LEMMA OwnedSame ==
    ASSUME RestTypeOK, Owned,
           \A j \in Inputs : pc'[j] = pc[j] \/ (pc[j] \notin Busy /\ pc'[j] \notin Busy),
           Streaming' = Streaming, Streaming => run'.owner = run.owner,
           autoCtl' = autoCtl, retryCtl' = retryCtl
    PROVE  Owned'
<1>0. /\ autoCtl # 0 => autoCtl \in Inputs
      /\ retryCtl # 0 => retryCtl \in Inputs
    BY InputsAreNats DEF RestTypeOK, Inputs
<1>1. OneBusy'
    BY DEF Owned, OneBusy
<1>2. RunIsOwned'
    BY BusyPlaces DEF Owned, RunIsOwned
<1>3. AutoIsOwned' /\ RetryIsOwned'
    BY <1>0, BusyPlaces DEF Owned, AutoIsOwned, RetryIsOwned
<1> QED BY <1>1, <1>2, <1>3 DEF Owned

\* What is queued or held are inputs.
LEMMA WaitersAreInputs ==
    ASSUME RestTypeOK
    PROVE  /\ held \in Seq(Inputs) /\ steering \in Seq(Inputs) /\ followUp \in Seq(Inputs)
           /\ Range(steering) \subseteq Inputs /\ Range(followUp) \subseteq Inputs
           /\ Range(held) \subseteq Inputs
BY RangeOfSeq DEF RestTypeOK, Range

\* A step that queues nothing and moves no waiter keeps the waiters.
LEMMA WaitersSame ==
    ASSUME RestTypeOK, Waiters,
           Range(steering') \subseteq Range(steering),
           Range(followUp') \subseteq Range(followUp), held' = held \/ held' = <<>>,
           \A j \in Inputs : \/ pc'[j] = pc[j]
                             \/ pc[j] \notin Inactive \cup {"held"}
                             \/ pc[j] \in Inactive /\ pc'[j] \in Inactive
    PROVE  Waiters'
<1>0. /\ Range(steering) \subseteq Inputs /\ Range(followUp) \subseteq Inputs
      /\ Range(held) \subseteq Inputs
    BY WaitersAreInputs
<1>1. QueuedAreInactive'
    BY <1>0 DEF Waiters, QueuedAreInactive
<1>2. Range(<<>>) = {} /\ Len(<<>>) = 0
    BY DEF Range
<1>3. HeldAreHeld'
  <2>1. CASE held' = held
    <3>1. \A j \in Range(held) : pc[j] = "held" /\ pc[j] \notin Inactive
        BY DEF Waiters, HeldAreHeld, Inactive
    <3>2. \A j \in Range(held) : pc'[j] = "held"
        BY <1>0, <3>1
    <3> QED BY <2>1, <3>2 DEF Waiters, HeldAreHeld
  <2>2. CASE held' = <<>>
    BY <1>2, <2>2 DEF HeldAreHeld
  <2> QED BY <2>1, <2>2
<1> QED BY <1>1, <1>3 DEF Waiters

\* The head and the tail of a sequence are of it.
LEMMA RangeOfTail ==
    ASSUME NEW X, NEW s \in Seq(X), s # <<>>
    PROVE  Range(Tail(s)) \subseteq Range(s) /\ Head(s) \in Range(s)
<1>1. Len(Tail(s)) = Len(s) - 1 /\ \A j \in 1..Len(Tail(s)) : Tail(s)[j] = s[j + 1]
    OBVIOUS
<1>2. Len(s) \in Nat /\ Len(s) >= 1 /\ Head(s) = s[1]
    OBVIOUS
<1>3. ASSUME NEW x \in Range(Tail(s)) PROVE x \in Range(s)
  <2>1. PICK j \in 1..Len(Tail(s)) : x = Tail(s)[j]
    BY <1>3 DEF Range
  <2>2. j + 1 \in 1..Len(s) /\ x = s[j + 1]
    BY <1>1, <1>2, <2>1
  <2> QED BY <2>2 DEF Range
<1>4. Head(s) \in Range(s)
    BY <1>2 DEF Range
<1> QED BY <1>3, <1>4

\* The held messages are queued, but for the first if it is a new prompt.
LEMMA WaitersFlushed ==
    ASSUME RestTypeOK, Waiters, NEW willRetry \in BOOLEAN, NEW c \in [Inputs -> Locations],
           \A j \in Inputs : c[j] = pc[j] \/ pc[j] \notin Inactive \cup {"held"},
           FlushHeld(willRetry), pc' = AfterFlush(c, willRetry)
    PROVE  /\ Waiters'
           /\ \A j \in Inputs : \/ pc'[j] = c[j]
                                \/ pc[j] = "held" /\ pc'[j] \in {"input", "queued"}
<1> DEFINE rest == IF willRetry \/ held = <<>> THEN held ELSE Tail(held)
           first == IF willRetry \/ held = <<>> THEN {} ELSE {Head(held)}
<1>0. /\ Range(steering) \subseteq Inputs /\ Range(followUp) \subseteq Inputs
      /\ Range(held) \subseteq Inputs /\ held \in Seq(Inputs)
      /\ steering \in Seq(Inputs) /\ followUp \in Seq(Inputs)
    BY WaitersAreInputs
<1>1. held # <<>> => Range(Tail(held)) \subseteq Range(held) /\ Head(held) \in Range(held)
    BY <1>0, RangeOfTail
<1>2. held # <<>> => Head(held) \notin Range(Tail(held))
  <2> SUFFICES ASSUME held # <<>>, Head(held) \in Range(Tail(held)) PROVE FALSE
    OBVIOUS
  <2>1. PICK j \in 1..Len(Tail(held)) : Head(held) = Tail(held)[j]
    BY DEF Range
  <2>2. /\ Len(held) \in Nat /\ Len(held) >= 1 /\ Head(held) = held[1]
        /\ j \in 1..(Len(held) - 1) /\ Tail(held)[j] = held[j + 1]
    BY <1>0, <2>1
  <2>3. 1 \in 1..Len(held) /\ j + 1 \in 1..Len(held) /\ held[1] = held[j + 1]
    BY <2>1, <2>2
  <2>4. 1 = j + 1
    BY <2>3 DEF Waiters, HeldAreHeld
  <2> QED BY <2>2, <2>4
<1>3. /\ rest \in Seq(Inputs) /\ Range(rest) \subseteq Range(held)
      /\ \A j \in Range(rest) : willRetry \/ j # Head(held)
  <2>1. CASE willRetry
    BY <1>0, <2>1
  <2>2. CASE ~willRetry /\ held = <<>>
    <3>1. rest = <<>> /\ Range(<<>>) = {} /\ <<>> \in Seq(Inputs)
        BY <2>2 DEF Range
    <3> HIDE DEF rest
    <3> QED BY <3>1
  <2>3. CASE ~willRetry /\ held # <<>>
    <3>1. rest = Tail(held) /\ Tail(held) \in Seq(Inputs)
        BY <1>0, <2>3
    <3> HIDE DEF rest
    <3> QED BY <1>1, <1>2, <2>3, <3>1
  <2> QED BY <2>1, <2>2, <2>3
<1>4. /\ steering' = steering \o Queued(rest, "steer")
      /\ followUp' = followUp \o Queued(rest, "followUp")
      /\ held' = <<>>
    BY DEF FlushHeld
<1> HIDE DEF rest
<1>5. \A h : Queued(rest, h) \in Seq(Inputs) /\ Range(Queued(rest, h)) \subseteq Range(rest)
    BY <1>3, QueuedType
<1>6. /\ Range(steering') \subseteq Range(steering) \cup Range(rest)
      /\ Range(followUp') \subseteq Range(followUp) \cup Range(rest)
  <2>1. /\ Range(steering') = Range(steering) \cup Range(Queued(rest, "steer"))
        /\ Range(followUp') = Range(followUp) \cup Range(Queued(rest, "followUp"))
    BY <1>0, <1>4, <1>5, RangeOfConcat
  <2> QED BY <1>5, <2>1
<1>7. \A j \in Inputs : j \notin Range(held) => pc'[j] = c[j]
    BY DEF AfterFlush
<1>8. \A j \in Range(held) : pc[j] = "held" /\ pc'[j] \in {"input", "queued"}
    BY <1>0 DEF AfterFlush, Waiters, HeldAreHeld
<1>9. \A j \in Range(rest) : pc'[j] = "queued"
    BY <1>0, <1>3 DEF AfterFlush
<1>10. \A j \in Range(steering) \cup Range(followUp) : pc'[j] \in Inactive
  <2> SUFFICES ASSUME NEW j \in Range(steering) \cup Range(followUp) PROVE pc'[j] \in Inactive
    OBVIOUS
  <2>1. pc[j] \in Inactive /\ j \in Inputs
    BY <1>0 DEF Waiters, QueuedAreInactive
  <2>2. j \notin Range(held)
    BY <1>8, <2>1 DEF Inactive
  <2> QED BY <1>7, <2>1, <2>2
<1>11. QueuedAreInactive'
    BY <1>6, <1>9, <1>10 DEF QueuedAreInactive, Inactive
<1>12. HeldAreHeld'
    BY <1>4 DEF HeldAreHeld, Range
<1> QED BY <1>7, <1>8, <1>11, <1>12 DEF Waiters

\* A run that is somewhere is active.
LEMMA RunAtStreams ==
    ASSUME RestTypeOK'
    PROVE  run'.at # "idle" <=> Streaming'
<1>1. CASE run' = NoRun
    BY <1>1 DEF Streaming, NoRun
<1>2. CASE run' \in ActiveRun
  <2>1. run'.at # "idle"
    BY <1>2 DEF ActiveRun
  <2>2. NoRun.at = "idle"
    BY DEF NoRun
  <2> QED BY <2>1, <2>2 DEF Streaming
<1> QED BY <1>1, <1>2 DEF RestTypeOK

\* What an Escape clears.
LEMMA WaitersTogether ==
    ASSUME RestTypeOK, Waiters
    PROVE  \A j \in Range(steering \o followUp \o held) : pc[j] \in Inactive \cup {"held"}
<1>1. steering \in Seq(Inputs) /\ followUp \in Seq(Inputs) /\ held \in Seq(Inputs)
    BY WaitersAreInputs
<1> DEFINE both == steering \o followUp
<1>2. both \in Seq(Inputs) /\ Range(both) = Range(steering) \cup Range(followUp)
    BY <1>1, RangeOfConcat
<1> HIDE DEF both
<1>3. Range(both \o held) = Range(both) \cup Range(held)
    BY <1>1, <1>2, RangeOfConcat
<1> QED BY <1>2, <1>3 DEF both, Waiters, QueuedAreInactive, HeldAreHeld

\* What the user does leaves the owners as they are.
LEMMA UserStepControl ==
    ASSUME RestTypeOK, RestTypeOK', Owned, Waiters, UserStep
    PROVE  Owned' /\ Waiters'
<1>1. ASSUME NEW i \in Inputs, NEW h \in {"none", "steer", "followUp"}, Submit(i, h)
      PROVE  Owned' /\ Waiters'
  <2>1. /\ pc[i] = "unused" /\ pc' = [pc EXCEPT ![i] = "input"]
        /\ UNCHANGED <<run, queues, controls, held>>
    BY <1>1 DEF Submit, NextInput
  <2>2. \A j \in Inputs : pc'[j] = pc[j] \/ (pc[j] = "unused" /\ pc'[j] = "input")
    BY <2>1 DEF RestTypeOK
  <2>3. /\ run' = run /\ autoCtl' = autoCtl /\ retryCtl' = retryCtl
        /\ steering' = steering /\ followUp' = followUp /\ held' = held
    BY <2>1 DEF queues, controls
  <2>4. Owned'
    BY <2>2, <2>3, OwnedSame, BusyPlaces DEF Streaming
  <2>5. Waiters'
    BY <2>2, <2>3, WaitersSame DEF Inactive
  <2> QED BY <2>4, <2>5
<1>2. ASSUME NEW i \in Inputs, NEW h \in {"none", "steer", "followUp"}, Hold(i, h)
      PROVE  Owned' /\ Waiters'
  <2>1. /\ pc[i] = "unused" /\ pc' = [pc EXCEPT ![i] = "held"]
        /\ held' = Append(held, i)
        /\ UNCHANGED <<run, queues, controls>>
    BY <1>2 DEF Hold, NextInput
  <2>2. /\ \A j \in Inputs : pc'[j] = pc[j] \/ (pc[j] = "unused" /\ pc'[j] = "held")
        /\ pc'[i] = "held"
    BY <2>1 DEF RestTypeOK
  <2>3. /\ run' = run /\ autoCtl' = autoCtl /\ retryCtl' = retryCtl
        /\ steering' = steering /\ followUp' = followUp
    BY <2>1 DEF queues, controls
  <2>4. Owned'
    BY <2>2, <2>3, OwnedSame, BusyPlaces DEF Streaming
  <2>5. held \in Seq(Inputs) /\ Range(steering) \subseteq Inputs /\ Range(followUp) \subseteq Inputs
        /\ Range(held) \subseteq Inputs
    BY WaitersAreInputs
  <2>6. Range(held') = Range(held) \cup {i}
    BY <2>1, <2>5, RangeOfAppend
  <2>7. \A j \in Range(held') : pc'[j] = "held"
    BY <2>2, <2>5, <2>6 DEF Waiters, HeldAreHeld
  <2>8. \A j, k \in 1..Len(held') : held'[j] = held'[k] => j = k
    <3>1. /\ Len(held) \in Nat /\ Len(held') = Len(held) + 1 /\ held'[Len(held) + 1] = i
          /\ \A j \in 1..Len(held) : held'[j] = held[j]
        BY <2>1, <2>5
    <3>2. \A j \in 1..Len(held) : held[j] \in Range(held)
        BY <2>5 DEF Range
    <3>3. \A j \in 1..Len(held) : held[j] # i
        BY <2>1, <3>2 DEF Waiters, HeldAreHeld
    <3> QED BY <3>1, <3>3 DEF Waiters, HeldAreHeld
  <2>9. QueuedAreInactive'
    BY <2>2, <2>3, <2>5 DEF Waiters, QueuedAreInactive, Inactive
  <2> QED BY <2>4, <2>7, <2>8, <2>9 DEF Waiters, HeldAreHeld
<1>21. ASSUME NEW i \in Inputs, NEW h \in {"none", "steer", "followUp"}, QueueDirectly(i, h)
       PROVE  Owned' /\ Waiters'
  <2>1. /\ pc[i] = "unused" /\ pc' = [pc EXCEPT ![i] = "queued"]
        /\ run' = run /\ autoCtl' = autoCtl /\ retryCtl' = retryCtl /\ held' = held
        /\ \/ steering' = Append(steering, i) /\ followUp' = followUp
           \/ followUp' = Append(followUp, i) /\ steering' = steering
    BY <1>21 DEF QueueDirectly, NextInput, controls
  <2>2. /\ \A j \in Inputs : pc'[j] = pc[j] \/ (pc[j] = "unused" /\ pc'[j] = "queued")
        /\ pc'[i] = "queued"
    BY <2>1 DEF RestTypeOK
  <2>3. Owned'
    BY <2>1, <2>2, OwnedSame, BusyPlaces DEF Streaming
  <2>4. /\ steering \in Seq(Inputs) /\ followUp \in Seq(Inputs)
        /\ Range(steering) \subseteq Inputs /\ Range(followUp) \subseteq Inputs
        /\ Range(held) \subseteq Inputs
    BY WaitersAreInputs
  <2>5. Range(steering') \cup Range(followUp') = Range(steering) \cup Range(followUp) \cup {i}
    <3>1. PICK s \in Seq(Inputs), t \in Seq(Inputs) : s = steering /\ t = followUp
        BY <2>4
    <3>2. Range(Append(s, i)) = Range(s) \cup {i} /\ Range(Append(t, i)) = Range(t) \cup {i}
        BY RangeOfAppend
    <3>3. CASE steering' = Append(s, i) /\ followUp' = t
        BY <3>1, <3>2, <3>3
    <3>4. CASE steering' = s /\ followUp' = Append(t, i)
        BY <3>1, <3>2, <3>4
    <3> QED BY <2>1, <3>1, <3>3, <3>4
  <2>6. QueuedAreInactive'
    BY <2>2, <2>4, <2>5 DEF Waiters, QueuedAreInactive, Inactive
  <2>7. HeldAreHeld'
    BY <2>1, <2>2, <2>4 DEF Waiters, HeldAreHeld
  <2> QED BY <2>3, <2>6, <2>7 DEF Waiters
<1>3. ASSUME Abort \/ AbortCompaction \/ RecordBash \/ CompactStarts PROVE Owned' /\ Waiters'
  <2>1. /\ pc' = pc /\ UNCHANGED <<queues, held, retryCtl, autoCtl>>
        /\ run' = run \/ AbortRun
    BY <1>3 DEF Abort, AbortCompaction, RecordBash, CompactStarts, OthersUnchanged
  <2>2. Streaming' = Streaming /\ run'.owner = run.owner
    BY <2>1, AbortRunSame DEF Streaming
  <2>3. Owned'
    BY <2>1, <2>2, OwnedSame
  <2>4. steering' = steering /\ followUp' = followUp /\ held' = held
    BY <2>1 DEF queues
  <2>5. Waiters'
    BY <2>1, <2>4, WaitersSame
  <2> QED BY <2>3, <2>5
<1>4. CASE Escape
  <2>1. /\ AbortRun
        /\ steering' = <<>> /\ followUp' = <<>> /\ held' = <<>>
        /\ pc' = [j \in Inputs |-> IF j \in Range(steering \o followUp \o held)
                                     THEN "cleared" ELSE pc[j]]
        /\ autoCtl' = autoCtl /\ retryCtl' = retryCtl
    BY <1>4 DEF Escape, OthersUnchanged
  <2>2. Streaming' = Streaming /\ run'.owner = run.owner
    BY <2>1, AbortRunSame
  <2>3. \A j \in Range(steering \o followUp \o held) : pc[j] \notin Busy
    BY WaitersTogether, BusyPlaces DEF Inactive
  <2>4. Owned'
    BY <2>1, <2>2, <2>3, OwnedSame, BusyPlaces
  <2>5. Range(<<>>) = {} /\ Len(<<>>) = 0
    BY DEF Range
  <2>6. Waiters'
    BY <2>1, <2>5 DEF Waiters, QueuedAreInactive, HeldAreHeld
  <2> QED BY <2>4, <2>6
<1> QED BY <1>1, <1>2, <1>21, <1>3, <1>4 DEF UserStep

\* The run stays with its owner until it ends.
LEMMA RunStepControl ==
    ASSUME RestTypeOK, RestTypeOK', Owned, Waiters, RunStep
    PROVE  Owned' /\ Waiters'
<1>0. run.at # "idle" /\ Streaming /\ run \in ActiveRun /\ run.owner \in Inputs
      /\ autoCtl' = autoCtl /\ retryCtl' = retryCtl /\ held' = held
  <2>1. run.at # "idle" /\ autoCtl' = autoCtl /\ retryCtl' = retryCtl /\ held' = held
    BY DEF RunStep, Poll, Turn, ToolsDone, EndRun, Answer, RunUnchanged, controls
  <2> QED BY <2>1, RunType
<1>1. ASSUME run'.owner = run.owner, run'.at # "idle",
             Range(steering') \subseteq Range(steering), Range(followUp') \subseteq Range(followUp),
             pc' = pc \/ \E i \in Inputs : pc[i] \in Inactive /\ pc' = [pc EXCEPT ![i] = "done"]
      PROVE  Owned' /\ Waiters'
  <2>1. \A j \in Inputs : pc'[j] = pc[j] \/ (pc[j] \in Inactive /\ pc'[j] = "done")
    BY <1>1 DEF RestTypeOK
  <2>2. Streaming'
    BY <1>1, RunAtStreams
  <2>3. Owned'
    BY <1>0, <1>1, <2>1, <2>2, OwnedSame, BusyPlaces DEF Inactive
  <2>4. Waiters'
    BY <1>0, <1>1, <2>1, WaitersSame DEF Inactive
  <2> QED BY <2>3, <2>4
<1>2. ASSUME TakeSteering \/ TakeFollowUp
      PROVE  /\ Range(steering') \subseteq Range(steering)
             /\ Range(followUp') \subseteq Range(followUp)
             /\ \E i \in Inputs : pc[i] \in Inactive /\ pc' = [pc EXCEPT ![i] = "done"]
  <2>1. steering \in Seq(Inputs) /\ followUp \in Seq(Inputs)
    BY DEF RestTypeOK
  <2>2. CASE TakeSteering
    <3>1. steering # <<>> /\ steering' = Tail(steering) /\ followUp' = followUp
          /\ pc' = [pc EXCEPT ![Head(steering)] = "done"]
        BY <2>2 DEF TakeSteering, Inject
    <3>2. Range(Tail(steering)) \subseteq Range(steering) /\ Head(steering) \in Range(steering)
        BY <2>1, <3>1, RangeOfTail
    <3>3. Head(steering) \in Inputs
        BY <2>1, <3>1
    <3> QED BY <3>1, <3>2, <3>3 DEF Waiters, QueuedAreInactive
  <2>3. CASE TakeFollowUp
    <3>1. followUp # <<>> /\ followUp' = Tail(followUp) /\ steering' = steering
          /\ pc' = [pc EXCEPT ![Head(followUp)] = "done"]
        BY <2>3 DEF TakeFollowUp, Inject
    <3>2. Range(Tail(followUp)) \subseteq Range(followUp) /\ Head(followUp) \in Range(followUp)
        BY <2>1, <3>1, RangeOfTail
    <3>3. Head(followUp) \in Inputs
        BY <2>1, <3>1
    <3> QED BY <3>1, <3>2, <3>3 DEF Waiters, QueuedAreInactive
  <2> QED BY <1>2, <2>2, <2>3
<1>3. CASE Poll
  <2>1. run'.owner = run.owner /\ run'.at = "ask"
    BY <1>0, <1>3 DEF Poll, Ask, ActiveRun
  <2>2. TakeSteering \/ UNCHANGED <<queues, pc>>
    BY <1>3 DEF Poll
  <2> QED BY <1>1, <1>2, <2>1, <2>2 DEF queues
<1>4. CASE Turn
  <2>1. Ask \/ run' = [run EXCEPT !.at = "end"]
    BY <1>4 DEF Turn
  <2>2. run'.owner = run.owner /\ run'.at # "idle"
    BY <1>0, <2>1 DEF Ask, ActiveRun
  <2>3. TakeSteering \/ TakeFollowUp \/ UNCHANGED <<queues, pc>>
    BY <1>4 DEF Turn
  <2> QED BY <1>1, <1>2, <2>2, <2>3 DEF queues
<1>5. CASE ToolsDone
  <2>1. run'.owner = run.owner /\ run'.at = "poll" /\ UNCHANGED <<queues, pc>>
    BY <1>0, <1>5 DEF ToolsDone, ActiveRun
  <2> QED BY <1>1, <2>1 DEF queues
<1>6. ASSUME NEW kind \in Finished \cup Stopped, Answer(kind) PROVE Owned' /\ Waiters'
  <2>1. UNCHANGED <<queues, pc>>
    BY <1>6 DEF Answer
  <2>2. PICK n : run' = [run EXCEPT !.call = n,
                              !.at = CASE kind[1] = "tool" -> "tools"
                                       [] kind[1] = "stop" -> "turn"
                                       [] OTHER            -> "end"]
    BY <1>6 DEF Answer
  <2>3. run'.owner = run.owner /\ run'.at # "idle"
    BY <1>0, <2>2 DEF ActiveRun
  <2> QED BY <1>1, <2>1, <2>3 DEF queues
<1>7. CASE EndRun
  <2>1. pc' = [pc EXCEPT ![run.owner] = "post"] /\ run' = NoRun /\ UNCHANGED queues
    BY <1>7 DEF EndRun
  <2>2. pc[run.owner] = "running"
    BY <1>0 DEF Owned, RunIsOwned
  <2>3. /\ \A j \in Inputs : j # run.owner => pc[j] \notin Busy
        /\ autoCtl = 0 /\ retryCtl = 0
    BY <1>0, <2>2, OwnerFacts, BusyPlaces
  <2>4. pc'[run.owner] = "post" /\ \A j \in Inputs : j # run.owner => pc'[j] = pc[j]
    BY <1>0, <2>1 DEF RestTypeOK
  <2>5. ~Streaming'
    BY <2>1 DEF Streaming
  <2>6. pc' \in [Inputs -> Locations]
    BY DEF RestTypeOK
  <2>7. Owned'
    BY <1>0, <2>3, <2>4, <2>5, <2>6, OwnsAll
  <2>8. Waiters'
    BY <1>0, <2>1, <2>2, <2>4, WaitersSame DEF queues, Inactive
  <2> QED BY <2>7, <2>8
<1> QED BY <1>3, <1>4, <1>5, <1>6, <1>7 DEF RunStep

\* compact() owns nothing of the prompts.
LEMMA CompactStepControl ==
    ASSUME RestTypeOK, RestTypeOK', Owned, Waiters, CompactStep
    PROVE  Owned' /\ Waiters'
<1>1. CASE CompactPrepares
  <2>1. /\ pc' = pc /\ run' = run /\ steering' = steering /\ followUp' = followUp
        /\ held' = held /\ retryCtl' = retryCtl /\ autoCtl' = autoCtl
    BY <1>1 DEF CompactPrepares, OthersUnchanged, queues
  <2>2. Owned'
    BY <2>1, OwnedSame DEF Streaming
  <2>3. Waiters'
    BY <2>1, WaitersSame
  <2> QED BY <2>2, <2>3
<1>2. ASSUME NEW ok \in BOOLEAN, CompactEnds(ok) PROVE Owned' /\ Waiters'
  <2>1. /\ FlushHeld(FALSE) /\ pc' = AfterFlush(pc, FALSE)
        /\ run' = run /\ retryCtl' = retryCtl /\ autoCtl' = autoCtl
    BY <1>2 DEF CompactEnds, OthersUnchanged
  <2>2. pc \in [Inputs -> Locations]
    BY DEF RestTypeOK
  <2>3. /\ Waiters'
        /\ \A j \in Inputs : \/ pc'[j] = pc[j]
                             \/ pc[j] = "held" /\ pc'[j] \in {"input", "queued"}
    BY <2>1, <2>2, WaitersFlushed
  <2>4. Owned'
    BY <2>1, <2>3, OwnedSame, BusyPlaces DEF Streaming
  <2> QED BY <2>3, <2>4
<1> QED BY <1>1, <1>2 DEF CompactStep

\* A busy prompt goes on to where no run is needed.
LEMMA Goes ==
    ASSUME RestTypeOK, RestTypeOK', Owned, Waiters, NEW i \in Inputs,
           pc[i] \in Busy, pc[i] # "running", run' = run, pc'[i] # "running",
           autoCtl' = IF pc'[i] = "compacting" THEN i ELSE 0,
           retryCtl' = IF pc'[i] = "sleep" THEN i ELSE 0,
           \A j \in Inputs : j # i => pc'[j] = pc[j] \/ pc'[j] \notin Busy
    PROVE  Owned'
<1>1. /\ \A j \in Inputs : j # i => pc[j] \notin Busy
      /\ ~Streaming
    BY OwnerFacts
<1>2. ~Streaming' /\ pc' \in [Inputs -> Locations]
    BY <1>1 DEF Streaming, RestTypeOK
<1>3. \A j \in Inputs : j # i => pc'[j] \notin Busy
    BY <1>1
<1> QED BY <1>2, <1>3, OwnsAll

\* A busy prompt starts a run.
LEMMA Runs ==
    ASSUME RestTypeOK, RestTypeOK', Owned, NEW i \in Inputs, pc[i] \in Busy,
           pc[i] \notin {"compacting", "sleep"},
           run'.at # "idle", run'.owner = i, pc'[i] = "running",
           autoCtl' = autoCtl, retryCtl' = retryCtl,
           \A j \in Inputs : j # i => pc'[j] = pc[j] \/ pc'[j] \notin Busy
    PROVE  Owned'
<1>1. /\ \A j \in Inputs : j # i => pc[j] \notin Busy
      /\ autoCtl = 0 /\ retryCtl = 0
    BY OwnerFacts
<1>2. Streaming' /\ pc' \in [Inputs -> Locations]
    BY RunAtStreams DEF RestTypeOK
<1>3. \A j \in Inputs : j # i => pc'[j] \notin Busy
    BY <1>1
<1> QED BY <1>1, <1>2, <1>3, OwnsAll

\* The messages a prompt waited with are queued behind it or stay where they are.
LEMMA WaitersAnnounced ==
    ASSUME RestTypeOK, Waiters, NEW i \in Inputs, pc[i] \in Busy, NEW m, NEW p \in Locations,
           Announce(m), pc' = Afterwards(m, [pc EXCEPT ![i] = p])
    PROVE  /\ Waiters' /\ pc'[i] = p
           /\ \A j \in Inputs : j # i =>
                 pc'[j] = pc[j] \/ (pc[j] = "held" /\ pc'[j] \in {"input", "queued"})
<1> DEFINE c == [pc EXCEPT ![i] = p]
<1>0. c \in [Inputs -> Locations] /\ c[i] = p /\ \A j \in Inputs : j # i => c[j] = pc[j]
    BY DEF RestTypeOK
<1>01. \A j \in Inputs : c[j] = pc[j] \/ pc[j] \notin Inactive \cup {"held"}
    BY <1>0, BusyPlaces DEF Inactive
<1>1. pc' = Afterwards(m, c)
    OBVIOUS
<1> HIDE DEF c
<1>2. CASE GivesUp(m)
  <2>1. FlushHeld(FALSE) /\ pc' = AfterFlush(c, FALSE)
    BY <1>1, <1>2 DEF Announce, Afterwards
  <2>2. /\ Waiters'
        /\ \A j \in Inputs : \/ pc'[j] = c[j]
                             \/ pc[j] = "held" /\ pc'[j] \in {"input", "queued"}
    BY <1>0, <1>01, <2>1, WaitersFlushed
  <2> QED BY <1>0, <2>2, BusyPlaces
<1>3. CASE ~GivesUp(m)
  <2>1. pc' = c /\ steering' = steering /\ followUp' = followUp /\ held' = held
    BY <1>1, <1>3 DEF Announce, Afterwards, queues
  <2>2. Waiters'
    BY <1>01, <2>1, WaitersSame
  <2> QED BY <1>0, <2>1, <2>2
<1> QED BY <1>2, <1>3

\* An overflow that is given up is not compacted for.
LEMMA ReasonGivesUp ==
    ASSUME RestTypeOK, NEW m, NEW skip \in BOOLEAN, Reason(m, skip) # "none"
    PROVE  ~GivesUp(m)
BY DEF Reason, GivesUp

\* A compaction begins.
LEMMA WaitersCompacting ==
    ASSUME RestTypeOK, Waiters, NEW i \in Inputs, pc[i] \in Busy, NEW m, NEW why,
           ~GivesUp(m), Announce(m), StartCompaction(i, why)
    PROVE  /\ Waiters' /\ pc'[i] = "compacting" /\ autoCtl' = i
           /\ \A j \in Inputs : j # i => pc'[j] = pc[j]
<1>1. /\ pc' = [pc EXCEPT ![i] = "compacting"] /\ autoCtl' = i
      /\ steering' = steering /\ followUp' = followUp /\ held' = held
    BY DEF StartCompaction, Announce, queues
<1>2. pc'[i] = "compacting" /\ \A j \in Inputs : j # i => pc'[j] = pc[j]
    BY <1>1 DEF RestTypeOK
<1>3. pc[i] \notin Inactive \cup {"held"}
    BY BusyPlaces DEF Inactive
<1>4. Waiters'
    BY <1>1, <1>2, <1>3, WaitersSame
<1> QED BY <1>1, <1>2, <1>4

\* The decision after a run leaves the prompt with what it owns.
LEMMA CompactOrResumeControl ==
    ASSUME RestTypeOK, RestTypeOK', Owned, Waiters, NEW i \in Inputs,
           pc[i] \in {"post", "sleep"}, NEW m, CompactOrResume(i, m), run' = run, retryCtl' = 0
    PROVE  Owned' /\ Waiters'
<1>0. pc[i] \in Busy /\ pc[i] # "running" /\ autoCtl = 0
    BY OwnerFacts, BusyPlaces
<1>1. CASE Reason(m, TRUE) # "none"
  <2>1. ~GivesUp(m) /\ Announce(m) /\ StartCompaction(i, Reason(m, TRUE))
    BY <1>1, ReasonGivesUp DEF CompactOrResume
  <2>2. /\ Waiters' /\ pc'[i] = "compacting" /\ autoCtl' = i
        /\ \A j \in Inputs : j # i => pc'[j] = pc[j]
    BY <1>0, <2>1, WaitersCompacting
  <2>3. Owned'
    BY <1>0, <2>2, Goes
  <2> QED BY <2>2, <2>3
<1>2. CASE Reason(m, TRUE) = "none"
  <2> DEFINE then == IF HasQueued' THEN "continue" ELSE "finish"
  <2>1. Announce(m) /\ pc' = Afterwards(m, [pc EXCEPT ![i] = then]) /\ autoCtl' = autoCtl
    BY <1>2 DEF CompactOrResume
  <2>2. then \in Locations /\ then \in {"continue", "finish"}
    BY PlacesAre
  <2> HIDE DEF then
  <2>3. /\ Waiters' /\ pc'[i] = then
        /\ \A j \in Inputs : j # i =>
              pc'[j] = pc[j] \/ (pc[j] = "held" /\ pc'[j] \in {"input", "queued"})
    BY <1>0, <2>1, <2>2, WaitersAnnounced
  <2>4. Owned'
    BY <1>0, <2>1, <2>2, <2>3, Goes, BusyPlaces
  <2> QED BY <2>3, <2>4
<1> QED BY <1>1, <1>2

\* So does the end of an automatic compaction, and the loop goes on or finishes.
LEMMA AutoDoneControl ==
    ASSUME RestTypeOK, RestTypeOK', Owned, Waiters, NEW i \in Inputs,
           pc[i] = "compacting", NEW ok \in BOOLEAN, NEW willRetry \in BOOLEAN,
           AutoDone(i, ok, willRetry)
    PROVE  /\ Owned' /\ Waiters'
           /\ \A j \in Inputs : j # i =>
                 pc'[j] = pc[j] \/ (pc[j] = "held" /\ pc'[j] \in {"input", "queued"})
           /\ pc'[i] = IF willRetry \/ ((ok \/ stage[i] # "check") /\ HasQueued')
                         THEN "continue"
                         ELSE IF stage[i] = "check" THEN "send" ELSE "finish"
<1>0. pc[i] \in Busy /\ pc[i] # "running" /\ retryCtl = 0
    BY OwnerFacts, BusyPlaces
<1> DEFINE goOn == willRetry \/ ((ok \/ ~(stage[i] = "check")) /\ HasQueued')
           then == IF goOn THEN "continue" ELSE IF stage[i] = "check" THEN "send" ELSE "finish"
           c == [pc EXCEPT ![i] = then]
<1>1. /\ FlushHeld(willRetry) /\ pc' = AfterFlush(c, willRetry) /\ autoCtl' = 0
      /\ run' = run /\ retryCtl' = retryCtl
    BY DEF AutoDone
<1>2. then \in Locations /\ then \in {"continue", "send", "finish"}
    BY PlacesAre
<1>20. then = IF willRetry \/ ((ok \/ stage[i] # "check") /\ HasQueued')
                THEN "continue"
                ELSE IF stage[i] = "check" THEN "send" ELSE "finish"
    OBVIOUS
<1> HIDE DEF then
<1>3. c \in [Inputs -> Locations] /\ c[i] = then /\ \A j \in Inputs : j # i => c[j] = pc[j]
    BY <1>2 DEF RestTypeOK
<1>4. \A j \in Inputs : c[j] = pc[j] \/ pc[j] \notin Inactive \cup {"held"}
    BY <1>0, <1>3 DEF Inactive
<1> HIDE DEF c
<1>5. /\ Waiters'
      /\ \A j \in Inputs : \/ pc'[j] = c[j]
                           \/ pc[j] = "held" /\ pc'[j] \in {"input", "queued"}
    BY <1>1, <1>3, <1>4, WaitersFlushed
<1>6. pc'[i] = then /\ \A j \in Inputs : j # i =>
             pc'[j] = pc[j] \/ (pc[j] = "held" /\ pc'[j] \in {"input", "queued"})
    BY <1>3, <1>5
<1>7. Owned'
    BY <1>0, <1>1, <1>2, <1>6, Goes, BusyPlaces
<1> QED BY <1>5, <1>6, <1>7, <1>20

\* The busy prompt starts a run with the message of one input.
LEMMA StartRunControl ==
    ASSUME RestTypeOK, RestTypeOK', Owned, Waiters, NEW i \in Inputs,
           pc[i] \in {"send", "continue"}, NEW n \in Inputs, n = i \/ pc[n] \in Inactive,
           NEW at \in {"poll", "ask"}, StartRun(i, <<n>>, at),
           Range(steering') \subseteq Range(steering), Range(followUp') \subseteq Range(followUp),
           held' = held, autoCtl' = autoCtl, retryCtl' = retryCtl
    PROVE  /\ Owned' /\ Waiters' /\ pc'[i] = "running"
           /\ \A j \in Inputs : j # i => pc'[j] = pc[j] \/ (pc[j] \in Inactive /\ pc'[j] = "done")
<1>1. /\ run'.at # "idle" /\ run'.owner = i
      /\ pc' = [j \in Inputs |-> IF j = i THEN "running"
                                 ELSE IF j \in Range(<<n>>) THEN "done" ELSE pc[j]]
    BY DEF StartRun
<1>2. Range(<<n>>) = {n}
    BY RangeOfOne
<1>3. /\ pc'[i] = "running"
      /\ \A j \in Inputs : j # i => pc'[j] = pc[j] \/ (pc[j] \in Inactive /\ pc'[j] = "done")
    BY <1>1, <1>2
<1>4. Owned'
  <2>1. "done" \notin Busy /\ pc[i] \in Busy
    BY BusyPlaces
  <2> QED BY <1>1, <1>3, <2>1, Runs
<1>5. Waiters'
    BY <1>3, WaitersSame DEF Inactive
<1> QED BY <1>3, <1>4, <1>5

\* A prompt that is about to go to the agent finds it free.
LEMMA AgentIsFree ==
    ASSUME RestTypeOK, Owned, NEW i \in Inputs, pc[i] \in Busy, pc[i] # "running"
    PROVE  ~Streaming
BY OwnerFacts

\* The members of a queue after some inputs were put behind it.
LEMMA QueuedBehind ==
    ASSUME NEW q \in Seq(Inputs), NEW ids \in Seq(Inputs), NEW h
    PROVE  Range(q \o Queued(ids, h)) \subseteq Range(q) \cup Range(ids)
<1> DEFINE more == Queued(ids, h)
<1>1. more \in Seq(Inputs) /\ Range(more) \subseteq Range(ids)
    BY QueuedType
<1> HIDE DEF more
<1>2. Range(q \o more) = Range(q) \cup Range(more)
    BY <1>1, RangeOfConcat
<1> QED BY <1>1, <1>2 DEF more

\* Every step of prompt() keeps the owners, unless prompts overlap.
LEMMA PromptStepControl ==
    ASSUME RestTypeOK, RestTypeOK', Owned, Waiters, NEW i \in Inputs, PromptStep(i),
           Undisturbed'
    PROVE  Owned' /\ Waiters'
<1>0. pc[i] \in Busy /\ pc[i] # "running" => ~Streaming
    BY AgentIsFree
<1>01. ASSUME NEW p, pc' = [pc EXCEPT ![i] = p]
       PROVE  pc'[i] = p /\ \A j \in Inputs : j # i => pc'[j] = pc[j]
    BY <1>01 DEF RestTypeOK
<1>1. CASE AdmitStreaming(i)
  <2>1. /\ pc[i] = "input" /\ Streaming /\ batch[i] = <<>>
        /\ run' = run /\ autoCtl' = autoCtl /\ retryCtl' = retryCtl
    BY <1>1 DEF AdmitStreaming, Undisturbed, controls
  <2>2. CASE how[i] = "none"
    <3>1. /\ pc' = [pc EXCEPT ![i] = "refused"]
          /\ steering' = steering /\ followUp' = followUp /\ held' = held
        BY <1>1, <2>1, <2>2 DEF AdmitStreaming, Reject, queues
    <3>2. pc'[i] = "refused" /\ \A j \in Inputs : j # i => pc'[j] = pc[j]
        BY <1>01, <3>1
    <3>3. Owned'
        BY <2>1, <3>2, OwnedSame, BusyPlaces DEF Streaming
    <3>4. Waiters'
        BY <2>1, <3>1, <3>2, WaitersSame DEF Inactive
    <3> QED BY <3>3, <3>4
  <2>3. CASE how[i] # "none"
    <3>1. /\ pc' = [pc EXCEPT ![i] = "queued"]
          /\ steering' = steering \o Queued(<<i>>, "steer")
          /\ followUp' = followUp \o Queued(<<i>>, "followUp")
          /\ held' = held
        BY <1>1, <2>3 DEF AdmitStreaming
    <3>2. pc'[i] = "queued" /\ \A j \in Inputs : j # i => pc'[j] = pc[j]
        BY <1>01, <3>1
    <3>3. Owned'
        BY <2>1, <3>2, OwnedSame, BusyPlaces DEF Streaming
    <3>4. <<i>> \in Seq(Inputs) /\ Range(<<i>>) = {i}
        BY RangeOfOne
    <3>6. /\ Range(steering') \subseteq Range(steering) \cup {i}
          /\ Range(followUp') \subseteq Range(followUp) \cup {i}
        BY <3>1, <3>4, QueuedBehind, WaitersAreInputs
    <3>7. QueuedAreInactive'
      <4> SUFFICES ASSUME NEW j \in Range(steering') \cup Range(followUp') PROVE pc'[j] \in Inactive
        BY DEF QueuedAreInactive
      <4>1. CASE j = i
        BY <3>2, <4>1 DEF Inactive
      <4>2. CASE j # i
        <5>1. j \in Range(steering) \cup Range(followUp) /\ j \in Inputs
            BY <3>6, <4>2, WaitersAreInputs
        <5> QED BY <3>2, <4>2, <5>1 DEF Waiters, QueuedAreInactive
      <4> QED BY <4>1, <4>2
    <3>8. HeldAreHeld'
      <4>1. i \notin Range(held) /\ Range(held) \subseteq Inputs
        BY <2>1, WaitersAreInputs DEF Waiters, HeldAreHeld
      <4> QED BY <3>1, <3>2, <4>1 DEF Waiters, HeldAreHeld
    <3> QED BY <3>3, <3>7, <3>8 DEF Waiters
  <2> QED BY <2>2, <2>3
<1>2. CASE AdmitIdle(i)
  <2>1. /\ pc[i] = "input" /\ ~Streaming /\ pc' = [pc EXCEPT ![i] = "preflight"]
        /\ run' = run /\ autoCtl' = autoCtl /\ retryCtl' = retryCtl
        /\ steering' = steering /\ followUp' = followUp /\ held' = held
        /\ \A j \in Inputs : pc[j] \notin Busy
    BY <1>2 DEF AdmitIdle, Undisturbed, controls, queues
  <2>2. pc'[i] = "preflight" /\ \A j \in Inputs : j # i => pc'[j] = pc[j]
    BY <1>01, <2>1
  <2>3. autoCtl = 0 /\ retryCtl = 0
    BY <2>1, NobodyFacts
  <2>4. pc' \in [Inputs -> Locations] /\ ~Streaming'
    BY <2>1 DEF RestTypeOK, Streaming
  <2>5. Owned'
    BY <2>1, <2>2, <2>3, <2>4, OwnsAll
  <2>6. Waiters'
    BY <2>1, <2>2, WaitersSame DEF Inactive
  <2> QED BY <2>5, <2>6
<1>3. CASE Precheck(i)
  <2>0. /\ pc[i] = "preflight" /\ run' = run /\ retryCtl' = retryCtl /\ Announce(LastAssistant)
    BY <1>3 DEF Precheck
  <2>00. pc[i] \in Busy /\ autoCtl = 0 /\ retryCtl = 0
    BY <2>0, OwnerFacts, BusyPlaces
  <2> DEFINE why == IF LastAssistant = NoMessage THEN "none" ELSE Reason(LastAssistant, FALSE)
  <2>1. CASE why # "none"
    <3>1. StartCompaction(i, why)
        BY <1>3, <2>1 DEF Precheck
    <3>2. ~GivesUp(LastAssistant)
        BY <2>1, ReasonGivesUp
    <3> HIDE DEF why
    <3>3. /\ Waiters' /\ pc'[i] = "compacting" /\ autoCtl' = i
          /\ \A j \in Inputs : j # i => pc'[j] = pc[j]
        BY <2>0, <2>00, <3>1, <3>2, WaitersCompacting
    <3>4. Owned'
        BY <2>0, <2>00, <3>3, Goes
    <3> QED BY <3>3, <3>4
  <2>2. CASE why = "none"
    <3>1. /\ pc' = Afterwards(LastAssistant, [pc EXCEPT ![i] = "send"])
          /\ autoCtl' = autoCtl
        BY <1>3, <2>2 DEF Precheck
    <3>2. /\ Waiters' /\ pc'[i] = "send"
          /\ \A j \in Inputs : j # i =>
                pc'[j] = pc[j] \/ (pc[j] = "held" /\ pc'[j] \in {"input", "queued"})
        BY <2>0, <2>00, <3>1, WaitersAnnounced, PlacesAre
    <3>3. Owned'
        BY <2>0, <2>00, <3>1, <3>2, Goes, BusyPlaces
    <3> QED BY <3>2, <3>3
  <2> QED BY <2>1, <2>2
<1>4. CASE Send(i)
  <2>1. /\ pc[i] = "send" /\ StartRun(i, <<i>>, "poll")
        /\ steering' = steering /\ followUp' = followUp /\ held' = held
        /\ autoCtl' = autoCtl /\ retryCtl' = retryCtl
    BY <1>4 DEF Send, queues, controls
  <2> QED BY <2>1, StartRunControl
<1>5. CASE SendFails(i)
    BY <1>0, <1>5, BusyPlaces DEF SendFails
<1>6. CASE Post(i)
  <2>0. pc[i] = "post" /\ run' = run
    BY <1>6 DEF Post, PostUnchanged
  <2>00. pc[i] \in Busy /\ autoCtl = 0 /\ retryCtl = 0 /\ pc[i] \notin Inactive \cup {"held"}
    BY <2>0, OwnerFacts, BusyPlaces DEF Inactive
  <2>1. CASE /\ last = NoMessage
             /\ pc' = [pc EXCEPT ![i] = "finish"]
             /\ UNCHANGED <<QueuesUnchanged, seen, messages, retry, retryCtl, job, tried, autoCtl>>
    <3>1. /\ steering' = steering /\ followUp' = followUp /\ held' = held
          /\ autoCtl' = autoCtl /\ retryCtl' = retryCtl
        BY <2>1 DEF QueuesUnchanged, queues
    <3>2. pc'[i] = "finish" /\ \A j \in Inputs : j # i => pc'[j] = pc[j]
        BY <1>01, <2>1
    <3>3. Owned'
        BY <2>0, <2>00, <3>1, <3>2, Goes
    <3>4. Waiters'
        BY <2>00, <3>1, <3>2, WaitersSame
    <3> QED BY <3>3, <3>4
  <2>2. CASE /\ retryCtl' = i
             /\ pc' = [pc EXCEPT ![i] = "sleep"]
             /\ UNCHANGED <<QueuesUnchanged, job, tried, autoCtl>>
    <3>1. /\ steering' = steering /\ followUp' = followUp /\ held' = held
          /\ autoCtl' = autoCtl
        BY <2>2 DEF QueuesUnchanged, queues
    <3>2. pc'[i] = "sleep" /\ \A j \in Inputs : j # i => pc'[j] = pc[j]
        BY <1>01, <2>2
    <3>3. Owned'
        BY <2>0, <2>00, <2>2, <3>1, <3>2, Goes
    <3>4. Waiters'
        BY <2>00, <3>1, <3>2, WaitersSame
    <3> QED BY <3>3, <3>4
  <2>3. CASE retryCtl' = retryCtl /\ CompactOrResume(i, last)
    BY <2>0, <2>00, <2>3, CompactOrResumeControl
  <2> QED BY <1>6, <2>1, <2>2, <2>3 DEF Post
<1>7. CASE WakeRetry(i)
  <2>1. /\ pc[i] = "sleep" /\ pc' = [pc EXCEPT ![i] = "continue"] /\ retryCtl' = 0
        /\ run' = run /\ autoCtl' = autoCtl
        /\ steering' = steering /\ followUp' = followUp /\ held' = held
    BY <1>7 DEF WakeRetry, PostUnchanged, QueuesUnchanged, queues
  <2>2. pc[i] \in Busy /\ autoCtl = 0 /\ pc[i] \notin Inactive \cup {"held"}
    BY <2>1, OwnerFacts, BusyPlaces DEF Inactive
  <2>3. pc'[i] = "continue" /\ \A j \in Inputs : j # i => pc'[j] = pc[j]
    BY <1>01, <2>1
  <2>4. Owned'
    BY <2>1, <2>2, <2>3, Goes
  <2>5. Waiters'
    BY <2>1, <2>2, <2>3, WaitersSame
  <2> QED BY <2>4, <2>5
<1>8. CASE RetryCancelled(i)
    BY <1>8, CompactOrResumeControl DEF RetryCancelled, PostUnchanged
<1>9. CASE AutoCompacted(i)
    BY <1>9, AutoDoneControl DEF AutoCompacted
<1>10. CASE AutoFailed(i)
    BY <1>10, AutoDoneControl DEF AutoFailed
<1>11. CASE ContinueFails(i)
    BY <1>0, <1>11, BusyPlaces DEF ContinueFails
<1>12. CASE ContinueWithQueued(i)
  <2>1. /\ pc[i] = "continue" /\ HasQueued /\ held' = held
        /\ autoCtl' = autoCtl /\ retryCtl' = retryCtl
    BY <1>12 DEF ContinueWithQueued, Answering, controls
  <2>2. CASE steering # <<>>
    <3>1. /\ StartRun(i, <<Head(steering)>>, "ask")
          /\ steering' = Tail(steering) /\ followUp' = followUp
        BY <1>12, <2>2 DEF ContinueWithQueued
    <3>2. Range(Tail(steering)) \subseteq Range(steering) /\ Head(steering) \in Range(steering)
        BY <2>2, RangeOfTail, WaitersAreInputs
    <3>3. Head(steering) \in Inputs /\ pc[Head(steering)] \in Inactive
        BY <3>2, WaitersAreInputs DEF Waiters, QueuedAreInactive
    <3> QED BY <2>1, <3>1, <3>2, <3>3, StartRunControl
  <2>3. CASE steering = <<>>
    <3>1. /\ StartRun(i, <<Head(followUp)>>, "poll")
          /\ followUp' = Tail(followUp) /\ steering' = steering /\ followUp # <<>>
        BY <1>12, <2>1, <2>3 DEF ContinueWithQueued, HasQueued
    <3>2. Range(Tail(followUp)) \subseteq Range(followUp) /\ Head(followUp) \in Range(followUp)
        BY <3>1, RangeOfTail, WaitersAreInputs
    <3>3. Head(followUp) \in Inputs /\ pc[Head(followUp)] \in Inactive
        BY <3>2, WaitersAreInputs DEF Waiters, QueuedAreInactive
    <3> QED BY <2>1, <3>1, <3>2, <3>3, StartRunControl
  <2> QED BY <2>2, <2>3
<1>13. CASE ContinueTranscript(i)
  <2>1. /\ pc[i] = "continue" /\ autoCtl' = autoCtl /\ retryCtl' = retryCtl
        /\ steering' = steering /\ followUp' = followUp /\ held' = held
        /\ \/ pc' = [pc EXCEPT ![i] = "finish"] /\ run' = run
           \/ /\ pc' = [pc EXCEPT ![i] = "running"]
              /\ run'.at = "poll" /\ run'.owner = i
    BY <1>13 DEF ContinueTranscript, queues, controls
  <2>2. pc[i] \in Busy /\ autoCtl = 0 /\ retryCtl = 0 /\ pc[i] \notin Inactive \cup {"held"}
    BY <2>1, OwnerFacts, BusyPlaces DEF Inactive
  <2>3. \A j \in Inputs : j # i => pc'[j] = pc[j]
    BY <1>01, <2>1
  <2>4. Waiters'
    BY <2>1, <2>2, <2>3, WaitersSame
  <2>5. CASE pc' = [pc EXCEPT ![i] = "finish"] /\ run' = run
    <3>1. pc'[i] = "finish"
        BY <1>01, <2>5
    <3>2. Owned'
        BY <2>1, <2>2, <2>3, <2>5, <3>1, Goes
    <3> QED BY <2>4, <3>2
  <2>6. CASE pc' = [pc EXCEPT ![i] = "running"] /\ run'.at = "poll" /\ run'.owner = i
    <3>1. pc'[i] = "running"
        BY <1>01, <2>6
    <3>2. Owned'
        BY <2>1, <2>2, <2>3, <2>6, <3>1, Runs
    <3> QED BY <2>4, <3>2
  <2> QED BY <2>1, <2>5, <2>6
<1>14. CASE Finish(i)
  <2> DEFINE p == IF stage[i] = "main" THEN "done" ELSE "send"
  <2>1. /\ pc[i] = "finish" /\ pc' = [pc EXCEPT ![i] = p]
        /\ run' = run /\ autoCtl' = autoCtl /\ retryCtl' = retryCtl
        /\ steering' = steering /\ followUp' = followUp /\ held' = held
    BY <1>14 DEF Finish, queues, controls
  <2>2. pc[i] \in Busy /\ autoCtl = 0 /\ retryCtl = 0 /\ pc[i] \notin Inactive \cup {"held"}
    BY <2>1, OwnerFacts, BusyPlaces DEF Inactive
  <2>3. pc'[i] \in {"send", "done"} /\ \A j \in Inputs : j # i => pc'[j] = pc[j]
    BY <1>01, <2>1
  <2>4. Owned'
    BY <2>1, <2>2, <2>3, Goes
  <2>5. Waiters'
    BY <2>1, <2>2, <2>3, WaitersSame
  <2> QED BY <2>4, <2>5
<1> QED BY <1>1, <1>2, <1>3, <1>4, <1>5, <1>6, <1>7, <1>8, <1>9, <1>10, <1>11, <1>12,
           <1>13, <1>14 DEF PromptStep

\* Every step keeps the second layer.
LEMMA ControlInvStep ==
    ASSUME SessionTypeOK, ControlInv, [SessionNext]_sessionVars
    PROVE  ControlInv'
<1> SUFFICES ASSUME Undisturbed' PROVE Owned' /\ Waiters'
    BY DEF ControlInv
<1>1. RestTypeOK /\ RestTypeOK' /\ Undisturbed
    BY StepTypes, StaysDisturbed DEF SessionTypeOK
<1>2. Owned /\ Waiters
    BY <1>1 DEF ControlInv
<1>3. CASE UNCHANGED sessionVars
  <2>1. /\ pc' = pc /\ run' = run /\ autoCtl' = autoCtl /\ retryCtl' = retryCtl
        /\ steering' = steering /\ followUp' = followUp /\ held' = held
    BY <1>3 DEF sessionVars, inputVars, queues, controls
  <2> QED BY <1>1, <1>2, <2>1, OwnedSame, WaitersSame DEF Streaming
<1> QED BY <1>1, <1>2, <1>3, UserStepControl, RunStepControl, CompactStepControl,
           PromptStepControl DEF SessionNext

-----------------------------------------------------------------------------
(***************************************************************************)
(* Tool calls and their results.                                           *)
(***************************************************************************)
PairsInv == Undisturbed =>
    /\ Pairs(messages) /\ Pairs(entries)
    /\ run.at # "tools" => ~Open(messages) /\ ~Open(entries)
    /\ run.at = "tools" => /\ Open(messages) /\ messages[Len(messages)].id = run.call
                           /\ Open(entries) /\ entries[Len(entries)].id = run.call

\* Every step keeps calls and results together.
LEMMA PairsInvStep ==
    ASSUME StoreInv, ControlInv, PairsInv, [SessionNext]_sessionVars
    PROVE  PairsInv'
<1> SUFFICES ASSUME Undisturbed' PROVE
            /\ Pairs(messages') /\ Pairs(entries')
            /\ run'.at # "tools" => ~Open(messages') /\ ~Open(entries')
            /\ run'.at = "tools" => /\ Open(messages') /\ messages'[Len(messages')].id = run'.call
                                    /\ Open(entries') /\ entries'[Len(entries')].id = run'.call
    BY DEF PairsInv
<1>0. /\ SessionTypeOK /\ RestTypeOK /\ messages \in Seq(Record) /\ entries \in Seq(Record)
      /\ CutsBefore(entries)
    BY DEF StoreInv, SessionTypeOK
<1>1. Undisturbed /\ ~cut /\ ~cut'
    BY <1>0, StaysDisturbed DEF Undisturbed
<1>2. Owned /\ Waiters
    BY <1>1 DEF ControlInv
<1>3. /\ Pairs(messages) /\ Pairs(entries)
      /\ run.at # "tools" => ~Open(messages) /\ ~Open(entries)
      /\ run.at = "tools" => /\ Open(messages) /\ messages[Len(messages)].id = run.call
                             /\ Open(entries) /\ entries[Len(entries)].id = run.call
    BY <1>1 DEF PairsInv
<1>4. NoToolsUnderway => run.at # "tools"
  <2> SUFFICES ASSUME run.at = "tools", SomeoneElse PROVE FALSE
    BY <1>1 DEF NoToolsUnderway
  <2>1. Streaming
    BY <1>0, RunType
  <2>2. PICK i \in Inputs : pc[i] \in Busy /\ pc[i] # "running"
    BY DEF SomeoneElse
  <2> QED BY <1>0, <1>2, <2>1, <2>2, AgentIsFree
<1>5. CASE Unmoved /\ ToolsSame
    BY <1>3, <1>5 DEF Unmoved, ToolsSame
<1>6. CASE NoToolsUnderway /\ ToolsSame /\ PlainEffect
  <2>0. PICK t : \E ms \in Seq(Plain) :
            /\ TrimOf(t, messages)
            /\ messages' = t \o ms
            /\ entries' = entries \o ms \/ (entries' = entries /\ cut')
    BY <1>6 DEF PlainEffect
  <2>1. PICK ms \in Seq(Plain) :
            /\ TrimOf(t, messages)
            /\ messages' = t \o ms
            /\ entries' = entries \o ms
    BY <1>1, <2>0
  <2>2. run'.at # "tools" /\ ~Open(messages) /\ ~Open(entries)
    BY <1>3, <1>4, <1>6 DEF ToolsSame
  <2>3. Pairs(t) /\ ~Open(t) /\ t \in Seq(Record)
    BY <1>0, <1>3, <2>1, <2>2, PairsTrim DEF TrimOf
  <2> QED BY <1>0, <1>3, <2>1, <2>2, <2>3, PairsPlain
<1>7. CASE AnswerEffect
  <2>1. PICK m \in Record :
            /\ IsAssistant(m) /\ m.id = Len(entries) + 1
            /\ messages' = Append(messages, m)
            /\ entries' = Append(entries, m)
            /\ (run'.at = "tools") <=> (m.stop = "tool")
            /\ run'.call = m.id
    BY <1>1, <1>7 DEF AnswerEffect
  <2>2. ~Open(messages) /\ ~Open(entries)
    BY <1>3, <1>7 DEF AnswerEffect
  <2>3. Joins(messages, m) /\ Joins(entries, m)
    BY <2>1, <2>2 DEF Joins, IsAssistant
  <2>4. Pairs(messages') /\ Pairs(entries')
    BY <1>0, <1>3, <2>1, <2>3, PairsAppend
  <2>5. /\ messages' # <<>> /\ messages'[Len(messages')] = m
        /\ entries' # <<>> /\ entries'[Len(entries')] = m
    BY <1>0, <2>1, LastAppended
  <2> QED BY <2>1, <2>4, <2>5 DEF Open
<1>8. CASE ResultEffect
  <2>1. run \in ActiveRun /\ run.at = "tools" /\ run'.at = "poll"
    BY <1>0, <1>8, RunType DEF ResultEffect
  <2> DEFINE r == Result(run.call)
  <2>2. run.call \in Nat
    BY <2>1 DEF ActiveRun
  <2>3. r \in Record /\ r.role = "result" /\ r.id = run.call /\ r.stop = ""
    BY <2>2, RecordsMade
  <2>4. messages' = Append(messages, r) /\ entries' = Append(entries, r)
    BY <1>1, <1>8 DEF ResultEffect
  <2> HIDE DEF r
  <2>5. /\ messages # <<>> /\ IsAssistant(messages[Len(messages)])
        /\ entries # <<>> /\ IsAssistant(entries[Len(entries)])
    <3>1. ASSUME NEW s \in Seq(Record), Open(s) PROVE s # <<>> /\ IsAssistant(s[Len(s)])
      <4>1. s # <<>> /\ s[Len(s)] \in Record /\ s[Len(s)].stop = "tool"
        BY <3>1 DEF Open
      <4> QED BY <4>1 DEF Record, IsAssistant
    <3> QED BY <1>0, <1>3, <2>1, <3>1
  <2>6. Joins(messages, r) /\ Joins(entries, r)
    BY <1>3, <2>1, <2>3, <2>5 DEF Joins
  <2>7. Pairs(messages') /\ Pairs(entries')
    BY <1>0, <1>3, <2>3, <2>4, <2>6, PairsAppend
  <2>8. messages'[Len(messages')] = r /\ entries'[Len(entries')] = r
    BY <1>0, <2>3, <2>4, LastAppended
  <2> QED BY <2>1, <2>3, <2>7, <2>8 DEF Open
<1>9. CASE NoToolsUnderway /\ ToolsSame /\ CompactEffect
  <2>1. PICK k \in Nat : /\ IsCut(k, entries)
                         /\ entries' = Append(entries, Compacted(k))
                         /\ TrimOf(messages', Context(entries'))
    BY <1>9 DEF CompactEffect
  <2>2. run'.at # "tools" /\ ~Open(entries)
    BY <1>3, <1>4, <1>9 DEF ToolsSame
  <2>3. /\ Pairs(entries') /\ ~Open(entries')
        /\ Pairs(Context(entries')) /\ ~Open(Context(entries'))
    BY <1>0, <1>3, <2>1, <2>2, PairsCompacted
  <2>4. k \in 1..Len(entries)
    BY <2>1 DEF IsCut
  <2>5. Context(entries') \in Seq(Record)
    BY <1>0, <2>1, <2>4, CompactedEnds
  <2> QED BY <2>1, <2>2, <2>3, <2>5, PairsTrim
<1> QED BY <1>5, <1>6, <1>7, <1>8, <1>9, StepEffect DEF Effect

\* Nobody is busy and nothing is open at the start.
LEMMA SessionInvInit ==
    ASSUME SessionInit
    PROVE  ControlInv /\ PairsInv
<1>1. RestTypeOK
    BY StoreInvInit DEF StoreInv, SessionTypeOK
<1>2. \A i \in Inputs : pc[i] = "unused"
    BY DEF SessionInit
<1>3. Owned
    BY <1>2, BusyPlaces DEF SessionInit, Owned, OneBusy, RunIsOwned, AutoIsOwned, RetryIsOwned,
          Streaming
<1>4. Range(<<>>) = {} /\ Len(<<>>) = 0
    BY DEF Range
<1>5. Waiters
    BY <1>4 DEF SessionInit, Waiters, QueuedAreInactive, HeldAreHeld
<1>6. PairsInv
    BY DEF SessionInit, PairsInv, Pairs, Open, NoRun
<1> QED BY <1>3, <1>5, <1>6 DEF ControlInv

\* As long as no two prompts are underway at once, a tool result comes directly
\* after the answer that asked for it and nothing else does: recordBashResult,
\* queued messages, retries and compactions keep the pairs, for any number of
\* prompts and events.
THEOREM SessionPairsHold == SessionSpec => []ToolPairsIntact
<1>1. SessionInit => StoreInv /\ ControlInv /\ PairsInv
    BY StoreInvInit, SessionInvInit
<1>2. StoreInv /\ ControlInv /\ PairsInv /\ [SessionNext]_sessionVars
         => StoreInv' /\ ControlInv' /\ PairsInv'
    BY StoreInvStep, ControlInvStep, PairsInvStep DEF StoreInv
<1>3. PairsInv => ToolPairsIntact
    BY DEF PairsInv, ToolPairsIntact, Pairs
<1> QED BY <1>1, <1>2, <1>3, PTL DEF SessionSpec

-----------------------------------------------------------------------------
(***************************************************************************)
(* A transcript never begins with an answer, and there is one as soon as a *)
(* run was started: there is always something to continue from.            *)
(***************************************************************************)
HeadOK == messages # <<>> => ~IsAssistant(messages[1])
AfterRun == {"post", "sleep", "continue"}
Started == Streaming \/ \E i \in Inputs : stage[i] # "check" \/ pc[i] \in AfterRun
Begun == Started => messages # <<>>

\* No step lets a transcript start with an answer.
LEMMA HeadStep ==
    ASSUME StoreInv, HeadOK, Begun, [SessionNext]_sessionVars
    PROVE  HeadOK' /\ (messages # <<>> => messages' # <<>>)
<1>0. /\ SessionTypeOK /\ RestTypeOK /\ messages \in Seq(Record) /\ entries \in Seq(Record)
    BY DEF StoreInv, SessionTypeOK
<1>1. CASE Unmoved
    BY <1>1 DEF Unmoved, HeadOK
<1>2. CASE PlainEffect
  <2>0. PICK t : \E ms \in Seq(Plain) : TrimOf(t, messages) /\ messages' = t \o ms
    BY <1>2 DEF PlainEffect
  <2>1. PICK ms \in Seq(Plain) : TrimOf(t, messages) /\ messages' = t \o ms
    BY <2>0
  <2>2. t \in Seq(Record) /\ ms \in Seq(Record)
    BY <2>1 DEF TrimOf, Plain
  <2>3. CASE messages # <<>>
    <3>1. t # <<>> /\ ~IsAssistant(t[1])
        BY <1>0, <2>1, <2>3, TrimKeepsHead DEF HeadOK
    <3>2. (t \o ms)[1] = t[1] /\ t \o ms # <<>>
        BY <2>2, <3>1
    <3> QED BY <2>1, <3>1, <3>2 DEF HeadOK
  <2>4. CASE messages = <<>>
    <3>1. t = <<>>
        <4>1. PICK r \in Seq(Record) : messages = t \o r
            BY <2>1 DEF TrimOf
        <4>2. Len(t \o r) = Len(t) + Len(r) /\ Len(messages) = 0
            BY <2>2, <2>4, <4>1
        <4>3. Len(t) = 0
            BY <2>2, <4>1, <4>2, LenProperties
        <4> QED BY <2>2, <4>3, EmptySeq
    <3>2. messages' = ms
        BY <2>1, <2>2, <3>1
    <3>3. ASSUME ms # <<>> PROVE ~IsAssistant(ms[1])
      <4>1. ms[1] \in Plain
        BY <3>3
      <4> QED BY <4>1 DEF Plain, IsAssistant
    <3> QED BY <2>4, <3>2, <3>3 DEF HeadOK
  <2> QED BY <2>3, <2>4
<1>3. CASE AnswerEffect \/ ResultEffect
  <2>1. run.at # "idle"
    BY <1>3 DEF AnswerEffect, ResultEffect
  <2>2. messages # <<>>
    BY <1>0, <2>1, RunType DEF Begun, Started
  <2>3. PICK x : messages' = Append(messages, x)
    BY <1>3 DEF AnswerEffect, ResultEffect
  <2>4. Append(messages, x)[1] = messages[1] /\ Append(messages, x) # <<>>
    BY <1>0, <2>2
  <2> QED BY <2>2, <2>3, <2>4 DEF HeadOK
<1>4. CASE CompactEffect
  <2>1. PICK k \in Nat : /\ IsCut(k, entries)
                         /\ entries' = Append(entries, Compacted(k))
                         /\ TrimOf(messages', Context(entries'))
    BY <1>4 DEF CompactEffect
  <2>2. k \in 1..Len(entries)
    BY <2>1 DEF IsCut
  <2>3. LET c == Context(entries') IN c \in Seq(Record) /\ c # <<>> /\ ~IsAssistant(c[1])
    BY <1>0, <2>1, <2>2, CompactedEnds
  <2>4. messages' # <<>> /\ ~IsAssistant(messages'[1])
    BY <2>1, <2>3, TrimKeepsHead
  <2> QED BY <2>4 DEF HeadOK
<1> QED BY <1>1, <1>2, <1>3, <1>4, StepEffect DEF Effect

\* A flush moves held inputs only.
LEMMA FlushedPlaces ==
    ASSUME NEW c, NEW willRetry
    PROVE  \A j \in Inputs : AfterFlush(c, willRetry)[j] \in AfterRun => c[j] \in AfterRun
BY DEF AfterFlush, AfterRun

\* What was started stays so, and a start leaves a transcript.
LEMMA StartedStep ==
    ASSUME StoreInv, HeadOK, [SessionNext]_sessionVars, Started'
    PROVE  Started \/ messages' # <<>>
<1>0. /\ SessionTypeOK /\ RestTypeOK /\ messages \in Seq(Record) /\ entries \in Seq(Record)
      /\ JobsOK
    BY DEF StoreInv, SessionTypeOK
<1>1. ASSUME Streaming' => Streaming,
             \A j \in Inputs : stage'[j] = stage[j] \/ stage'[j] = "check",
             \A j \in Inputs : pc'[j] \in AfterRun => pc[j] \in AfterRun
      PROVE  Started
    BY <1>1 DEF Started
<1>2. ASSUME NEW i \in Inputs, NEW p, pc' = [pc EXCEPT ![i] = p],
             p \notin AfterRun \/ pc[i] \in AfterRun
      PROVE  \A j \in Inputs : pc'[j] \in AfterRun => pc[j] \in AfterRun
    BY <1>0, <1>2 DEF RestTypeOK
<1>3. ASSUME UserStep PROVE Started
  <2>1. stage' = stage
    BY <1>3 DEF UserStep, Submit, Hold, QueueDirectly, Abort, Escape, AbortCompaction, RecordBash,
          CompactStarts, OthersUnchanged
  <2>2. run' = run \/ AbortRun
    BY <1>3 DEF UserStep, Submit, Hold, QueueDirectly, Abort, Escape, AbortCompaction, RecordBash,
          CompactStarts
  <2>3. Streaming' => Streaming
    BY <1>0, <2>2, AbortRunSame DEF Streaming
  <2>4. \A j \in Inputs : pc'[j] = pc[j] \/ pc'[j] \in {"input", "held", "queued", "cleared"}
    BY <1>0, <1>3 DEF UserStep, Submit, Hold, QueueDirectly, Abort, Escape, AbortCompaction, RecordBash,
          CompactStarts, RestTypeOK
  <2> QED BY <1>1, <2>1, <2>3, <2>4 DEF AfterRun
<1>4. ASSUME RunStep PROVE Started
  <2>1. run.at # "idle"
    BY <1>4 DEF RunStep, Poll, Turn, ToolsDone, EndRun, Answer
  <2> QED BY <1>0, <2>1, RunType DEF Started
<1>5. ASSUME CompactStep PROVE Started
  <2>1. stage' = stage /\ run' = run /\ (pc' = pc \/ pc' = AfterFlush(pc, FALSE))
    BY <1>5 DEF CompactStep, CompactPrepares, CompactEnds, OthersUnchanged
  <2> QED BY <1>1, <2>1, FlushedPlaces DEF Streaming
<1>6. ASSUME UNCHANGED sessionVars PROVE Started
    BY <1>1, <1>6 DEF sessionVars, inputVars, Streaming
<1>7. ASSUME NEW i \in Inputs, PromptStep(i) PROVE Started \/ messages' # <<>>
  <2>1. ASSUME NEW outcome, outcome \notin AfterRun, Reject(i, outcome)
        PROVE  \A j \in Inputs : pc'[j] \in AfterRun => pc[j] \in AfterRun
    BY <1>0, <2>1 DEF Reject, RestTypeOK, AfterRun
  <2>2. CASE pc[i] \in AfterRun
    BY <2>2 DEF Started
  <2>3. CASE AdmitStreaming(i)
    <3>1. Streaming
        BY <2>3 DEF AdmitStreaming
    <3> QED BY <3>1 DEF Started
  <2>4. CASE AdmitIdle(i)
    <3>1. run' = run /\ pc' = [pc EXCEPT ![i] = "preflight"]
        BY <2>4 DEF AdmitIdle
    <3>2. \A j \in Inputs : stage'[j] = stage[j] \/ stage'[j] = "check"
        BY <1>0, <2>4 DEF AdmitIdle, RestTypeOK
    <3> QED BY <1>1, <1>2, <3>1, <3>2 DEF Streaming, AfterRun
  <2>5. CASE Precheck(i)
    <3>1. run' = run /\ stage' = stage
        BY <2>5 DEF Precheck
    <3>2. \/ pc' = [pc EXCEPT ![i] = "compacting"]
          \/ pc' = [pc EXCEPT ![i] = "send"]
          \/ pc' = AfterFlush([pc EXCEPT ![i] = "send"], FALSE)
        BY <2>5 DEF Precheck, StartCompaction, Afterwards
    <3>3. \A j \in Inputs : [pc EXCEPT ![i] = "send"][j] \in AfterRun => pc[j] \in AfterRun
        BY <1>0 DEF RestTypeOK, AfterRun
    <3>4. \A j \in Inputs : pc'[j] \in AfterRun => pc[j] \in AfterRun
      <4>1. CASE pc' = [pc EXCEPT ![i] = "compacting"] \/ pc' = [pc EXCEPT ![i] = "send"]
        BY <1>2, <4>1 DEF AfterRun
      <4>2. CASE pc' = AfterFlush([pc EXCEPT ![i] = "send"], FALSE)
        BY <3>3, <4>2, FlushedPlaces
      <4> QED BY <3>2, <4>1, <4>2
    <3> QED BY <1>1, <3>1, <3>4 DEF Streaming
  <2>6. CASE Send(i)
    <3>1. messages' = messages \o [k \in 1..Len(<<i>>) |-> User(<<i>>[k])]
        BY <2>6 DEF Send, StartRun, Heard
    <3>2. [k \in 1..Len(<<i>>) |-> User(<<i>>[k])] = <<User(i)>>
        OBVIOUS
    <3>3. User(i) \in Record
        BY RecordsMade, InputsAreNats
    <3>4. messages' = Append(messages, User(i))
        BY <1>0, <3>1, <3>2, <3>3
    <3> QED BY <1>0, <3>3, <3>4, LastAppended
  <2>7. CASE SendFails(i)
    <3>1. Streaming
        BY <2>7 DEF SendFails
    <3> QED BY <3>1 DEF Started
  <2>8. CASE AutoCompacted(i)
    <3>1. /\ pc[i] = "compacting" /\ job[i].keep # NoCut
          /\ entries' = Append(entries, Compacted(job[i].keep))
          /\ messages' = ReadyToRetry(Context(entries')) \/ messages' = Context(entries')
        BY <2>8 DEF AutoCompacted
    <3>2. IsCut(job[i].keep, entries)
        BY <1>0, <3>1 DEF JobsOK
    <3>3. job[i].keep \in 1..Len(entries)
        BY <3>2 DEF IsCut
    <3>4. LET c == Context(entries') IN c \in Seq(Record) /\ c # <<>> /\ ~IsAssistant(c[1])
        BY <1>0, <3>1, <3>3, CompactedEnds
    <3>5. ReadyToRetry(Context(entries')) # <<>>
        BY <3>4, ReadyIsTrim, TrimKeepsHead
    <3> QED BY <3>1, <3>4, <3>5
  <2>9. CASE AutoFailed(i)
    <3>1. CASE stage[i] # "check"
        BY <3>1 DEF Started
    <3>2. CASE stage[i] = "check"
      <4>1. pc' = AfterFlush([pc EXCEPT ![i] = "send"], FALSE) /\ run' = run /\ stage' = stage
        BY <2>9, <3>2 DEF AutoFailed, AutoDone
      <4>2. \A j \in Inputs : [pc EXCEPT ![i] = "send"][j] \in AfterRun => pc[j] \in AfterRun
        BY <1>0 DEF RestTypeOK, AfterRun
      <4>3. \A j \in Inputs : pc'[j] \in AfterRun => pc[j] \in AfterRun
        BY <4>1, <4>2, FlushedPlaces
      <4> QED BY <1>1, <4>1, <4>3 DEF Streaming
    <3> QED BY <3>1, <3>2
  <2>10. CASE Finish(i)
    <3>1. /\ run' = run /\ stage' = stage
          /\ pc' = [pc EXCEPT ![i] = "send"] \/ pc' = [pc EXCEPT ![i] = "done"]
        BY <2>10 DEF Finish
    <3>2. \A j \in Inputs : pc'[j] \in AfterRun => pc[j] \in AfterRun
        BY <1>2, <3>1 DEF AfterRun
    <3> QED BY <1>1, <3>1, <3>2 DEF Streaming
  <2>11. CASE \/ Post(i) \/ WakeRetry(i) \/ RetryCancelled(i) \/ ContinueFails(i)
              \/ ContinueWithQueued(i) \/ ContinueTranscript(i)
    <3>1. pc[i] \in AfterRun
        BY <2>11 DEF Post, WakeRetry, RetryCancelled, ContinueFails, ContinueWithQueued,
              ContinueTranscript, AfterRun
    <3> QED BY <2>2, <3>1
  <2> QED BY <1>7, <2>3, <2>4, <2>5, <2>6, <2>7, <2>8, <2>9, <2>10, <2>11 DEF PromptStep
<1> QED BY <1>3, <1>4, <1>5, <1>6, <1>7 DEF SessionNext

\* Every step keeps the fourth layer.
LEMMA BegunStep ==
    ASSUME StoreInv, HeadOK, Begun, [SessionNext]_sessionVars
    PROVE  HeadOK' /\ Begun'
BY HeadStep, StartedStep DEF Begun

\* While no prompts overlap there is always something to continue from.
LEMMA SomethingToContinue ==
    ASSUME StoreInv, HeadOK, Begun, Undisturbed, PairsInv, run.at # "tools",
           NEW i \in Inputs, pc[i] = "continue"
    PROVE  ~NothingToContinue
<1>0. messages \in Seq(Record) /\ messages # <<>> /\ ~IsAssistant(messages[1])
    BY DEF StoreInv, SessionTypeOK, Begun, Started, AfterRun, HeadOK
<1>1. Pairs(messages) /\ ~Open(messages)
    BY DEF PairsInv
<1> SUFFICES ASSUME ~Answering PROVE Trimmed # <<>> /\ ~EndsOnAssistant(Trimmed)
    BY DEF NothingToContinue
<1>2. CASE ~EndsOnAssistant(messages)
    BY <1>0, <1>2 DEF Trimmed
<1>3. CASE EndsOnAssistant(messages)
  <2>1. Trimmed = TrimTrailingAssistants(messages)
    BY <1>3 DEF Trimmed, Answering
  <2>2. TrimOf(Trimmed, messages)
    BY <1>0, TrimmedIsTrim
  <2>3. Trimmed # <<>> /\ Trimmed \in Seq(Record)
    BY <1>0, <2>2, TrimKeepsHead
  <2>4. ~Open(Trimmed)
    BY <1>0, <1>1, <2>2, PairsTrim
  <2>5. EndsOnAssistant(Trimmed) => Last(Trimmed).stop = "tool"
    BY <1>0, <2>1, TrimIsTrim
  <2>6. Last(Trimmed) = Trimmed[Len(Trimmed)]
    BY DEF Last
  <2> QED BY <2>3, <2>4, <2>5, <2>6 DEF Open
<1> QED BY <1>2, <1>3

-----------------------------------------------------------------------------
(***************************************************************************)
(* Whatever waits has somebody who will come to it: a queued message,      *)
(* unless it is a stray, a prompt that is not about to return, a held one  *)
(* a compaction, a bash result and a retry count a prompt that is          *)
(* underway.                                                               *)
(***************************************************************************)
Retrying == {"running", "post", "sleep", "continue"}
Owed == (Range(steering) \cup Range(followUp)) \ strays
QueueServed == Owed # {} => Attended
HeldServed == held # <<>> => autoCtl # 0 \/ manual >= 0
BashServed == bash # <<>> => \E i \in Inputs : pc[i] \in Busy
RetryServed == retry > 0 => \E i \in Inputs : pc[i] \in Retrying
RetryErrs ==
    /\ run.at \in {"tools", "turn"} => last # NoMessage /\ retry = 0
    /\ run.at = "end" \/ (\E i \in Inputs : pc[i] = "post")
          => last # NoMessage /\ (retry > 0 => last.stop = "error")
Served == QueueServed /\ HeldServed /\ BashServed /\ RetryServed /\ RetryErrs

\* A prompt that retries is busy.
LEMMA RetryingIsBusy == Retrying \subseteq Busy
BY DEF Retrying, Busy

\* Only a prompt that is retrying has a count.
LEMMA NoRetries ==
    ASSUME RestTypeOK, Owned, Served, NEW i \in Inputs, pc[i] \in Busy \ Retrying
    PROVE  retry = 0
<1>1. \A j \in Inputs : j # i => pc[j] \notin Busy
    BY OwnerFacts
<1>2. ~(retry > 0)
    BY <1>1, RetryingIsBusy DEF Served, RetryServed
<1> QED BY <1>2 DEF RestTypeOK

\* A flush queues nothing unless something was held.
LEMMA FlushQueues ==
    ASSUME RestTypeOK, NEW willRetry \in BOOLEAN, FlushHeld(willRetry), held = <<>>
    PROVE  steering' = steering /\ followUp' = followUp
<1>1. steering' = steering \o Queued(<<>>, "steer") /\ followUp' = followUp \o Queued(<<>>, "followUp")
    BY DEF FlushHeld
<1>2. \A h : Queued(<<>>, h) = <<>>
    BY KeepEmpty DEF Queued
<1> QED BY <1>1, <1>2 DEF RestTypeOK

\* Nothing is owed by empty queues.
LEMMA NothingOwed == ~HasQueued => Owed = {}
<1>1. Range(<<>>) = {}
    BY DEF Range
<1> QED BY <1>1 DEF HasQueued, Owed

\* After a step of a prompt that goes on.
LEMMA ServedGoes ==
    ASSUME RestTypeOK, RestTypeOK', Owned', HeldServed, NEW i \in Inputs, pc'[i] \in Busy,
           pc'[i] # "post", run'.at \in {"idle", "poll", "ask"},
           Ending(i)' => ~HasQueued',
           \/ held' = <<>>
           \/ held' = held /\ (autoCtl' # 0 \/ (autoCtl = 0 /\ manual' = manual)),
           retry' > 0 => pc'[i] \in Retrying
    PROVE  Served'
<1>01. Range(<<>>) = {}
    BY DEF Range
<1>0. Ending(i)' => Owed' = {}
    BY <1>01 DEF HasQueued, Owed
<1>1. QueueServed' /\ BashServed' /\ RetryServed'
    BY <1>0 DEF QueueServed, BashServed, RetryServed, Attended
<1>2. HeldServed'
    BY DEF HeldServed
<1>3. \A j \in Inputs : pc'[j] # "post"
    BY BusyPlaces DEF Owned, OneBusy
<1>4. RetryErrs'
    BY <1>3 DEF RetryErrs
<1> QED BY <1>1, <1>2, <1>4 DEF Served

\* After a step of somebody else.
LEMMA ServedSame ==
    ASSUME RestTypeOK, Served,
           \A j \in Inputs : pc[j] \in Underway => pc'[j] = pc[j],
           \A j \in Inputs : pc'[j] = "post" => pc[j] = "post",
           stage' = stage,
           Owed' \subseteq Owed \/ Attended \/ \E j \in Inputs : pc'[j] = "input",
           run'.at = run.at, last' = last, retry' = retry, autoCtl' = autoCtl,
           \/ held' = <<>>
           \/ held' = held /\ (manual' = manual \/ manual = Off \/ manual' >= 0)
           \/ autoCtl # 0 \/ manual' >= 0,
           bash' # <<>> => bash # <<>> \/ \E j \in Inputs : pc[j] \in Busy
    PROVE  Served'
<1>0. Busy \subseteq Underway /\ "input" \in Underway /\ Retrying \subseteq Busy
    BY RetryingIsBusy DEF Underway
<1>1. QueueServed'
    BY <1>0 DEF Served, QueueServed, Attended, Ending
<1>2. HeldServed'
    BY DEF Served, HeldServed, Off
<1>3. BashServed'
    BY <1>0 DEF Served, BashServed
<1>4. RetryServed'
  <2> SUFFICES ASSUME retry > 0 PROVE \E j \in Inputs : pc'[j] \in Retrying
    BY DEF RetryServed
  <2>1. PICK j \in Inputs : pc[j] \in Retrying
    BY DEF Served, RetryServed
  <2> QED BY <1>0, <2>1
<1>5. RetryErrs'
    BY DEF Served, RetryErrs
<1> QED BY <1>1, <1>2, <1>3, <1>4, <1>5 DEF Served

\* What the user does leaves nothing waiting for nobody.
LEMMA UserStepServed ==
    ASSUME RestTypeOK, Owned, Waiters, Served, UserStep
    PROVE  Served'
<1>0. Underway = Busy \cup {"input"} /\ pc \in [Inputs -> Locations]
    BY DEF Underway, RestTypeOK
<1>1. ASSUME NEW i \in Inputs, NEW h \in {"none", "steer", "followUp"}, Submit(i, h)
      PROVE  Served'
  <2>1. /\ pc[i] = "unused" /\ pc' = [pc EXCEPT ![i] = "input"]
        /\ run' = run /\ last' = last /\ retry' = retry /\ autoCtl' = autoCtl /\ stage' = stage
        /\ strays' = strays
        /\ steering' = steering /\ followUp' = followUp /\ held' = held /\ manual' = manual
        /\ bash' = bash
    BY <1>1 DEF Submit, NextInput, queues, controls, history
  <2>2. \A j \in Inputs : pc'[j] = pc[j] \/ (pc[j] = "unused" /\ pc'[j] = "input")
    BY <1>0, <2>1
  <2>3. "unused" \notin Underway
    BY <1>0, BusyPlaces
  <2> QED BY <2>1, <2>2, <2>3, ServedSame DEF Owed
<1>2. ASSUME NEW i \in Inputs, NEW h \in {"none", "steer", "followUp"}, Hold(i, h)
      PROVE  Served'
  <2>1. /\ pc[i] = "unused" /\ pc' = [pc EXCEPT ![i] = "held"] /\ IsCompacting
        /\ run' = run /\ last' = last /\ retry' = retry /\ autoCtl' = autoCtl /\ stage' = stage
        /\ strays' = strays
        /\ steering' = steering /\ followUp' = followUp /\ manual' = manual
        /\ bash' = bash
    BY <1>2 DEF Hold, NextInput, queues, controls, history
  <2>2. \A j \in Inputs : pc'[j] = pc[j] \/ (pc[j] = "unused" /\ pc'[j] = "held")
    BY <1>0, <2>1
  <2>3. "unused" \notin Underway
    BY <1>0, BusyPlaces
  <2> QED BY <2>1, <2>2, <2>3, ServedSame DEF Owed, IsCompacting
<1>21. ASSUME NEW i \in Inputs, NEW h \in {"none", "steer", "followUp"}, QueueDirectly(i, h)
       PROVE  Served'
  <2>1. /\ pc[i] = "unused" /\ pc' = [pc EXCEPT ![i] = "queued"]
        /\ run' = run /\ last' = last /\ retry' = retry /\ autoCtl' = autoCtl /\ stage' = stage
        /\ held' = held /\ manual' = manual /\ bash' = bash
        /\ \/ steering' = Append(steering, i) /\ followUp' = followUp
           \/ followUp' = Append(followUp, i) /\ steering' = steering
        /\ strays' = IF Attended THEN strays ELSE strays \cup {i}
    BY <1>21 DEF QueueDirectly, NextInput, controls
  <2>2. \A j \in Inputs : pc'[j] = pc[j] \/ (pc[j] = "unused" /\ pc'[j] = "queued")
    BY <1>0, <2>1
  <2>3. "unused" \notin Underway
    BY <1>0, BusyPlaces
  <2>4. steering \in Seq(Inputs) /\ followUp \in Seq(Inputs)
    BY WaitersAreInputs
  <2>5. Range(steering') \cup Range(followUp') = Range(steering) \cup Range(followUp) \cup {i}
    <3>1. PICK s \in Seq(Inputs), t \in Seq(Inputs) : s = steering /\ t = followUp
        BY <2>4
    <3>2. Range(Append(s, i)) = Range(s) \cup {i} /\ Range(Append(t, i)) = Range(t) \cup {i}
        BY RangeOfAppend
    <3>3. CASE steering' = Append(s, i) /\ followUp' = t
        BY <3>1, <3>2, <3>3
    <3>4. CASE steering' = s /\ followUp' = Append(t, i)
        BY <3>1, <3>2, <3>4
    <3> QED BY <2>1, <3>1, <3>3, <3>4
  <2>6. Attended \/ Owed' \subseteq Owed
    BY <2>1, <2>5 DEF Owed
  <2> QED BY <2>1, <2>2, <2>3, <2>6, ServedSame
<1>3. ASSUME Abort \/ AbortCompaction \/ CompactStarts PROVE Served'
  <2>1. /\ pc' = pc /\ last' = last /\ retry' = retry /\ autoCtl' = autoCtl /\ stage' = stage
        /\ strays' = strays
        /\ steering' = steering /\ followUp' = followUp /\ held' = held
        /\ manual' = manual \/ manual = Off
        /\ bash' = bash
        /\ run' = run \/ AbortRun
    BY <1>3 DEF Abort, AbortCompaction, CompactStarts, OthersUnchanged, queues, history
  <2>2. run'.at = run.at
    BY <2>1, AbortRunSame
  <2> QED BY <2>1, <2>2, ServedSame DEF Owed
<1>4. CASE RecordBash
  <2>1. /\ pc' = pc /\ last' = last /\ retry' = retry /\ autoCtl' = autoCtl /\ stage' = stage
        /\ strays' = strays
        /\ steering' = steering /\ followUp' = followUp /\ held' = held
        /\ manual' = manual /\ run' = run
        /\ Streaming \/ bash' = bash
    BY <1>4 DEF RecordBash, OthersUnchanged, queues
  <2>2. Streaming => \E j \in Inputs : pc[j] \in Busy
    BY RunType, BusyPlaces DEF Owned, RunIsOwned
  <2> QED BY <2>1, <2>2, ServedSame DEF Owed
<1>5. CASE Escape
  <2>1. /\ AbortRun
        /\ steering' = <<>> /\ followUp' = <<>> /\ held' = <<>>
        /\ pc' = [j \in Inputs |-> IF j \in Range(steering \o followUp \o held)
                                     THEN "cleared" ELSE pc[j]]
        /\ last' = last /\ retry' = retry /\ autoCtl' = autoCtl /\ stage' = stage
        /\ strays' = strays
        /\ bash' = bash
    BY <1>5 DEF Escape, OthersUnchanged, history
  <2>2. run'.at = run.at
    BY <2>1, AbortRunSame
  <2>3. \A j \in Range(steering \o followUp \o held) : pc[j] \notin Underway
    BY <1>0, WaitersTogether, BusyPlaces DEF Inactive
  <2>4. Owed' = {}
    <3>1. Range(<<>>) = {}
        BY DEF Range
    <3> QED BY <2>1, <3>1 DEF Owed
  <2>5. /\ \A j \in Inputs : pc[j] \in Underway => pc'[j] = pc[j]
        /\ \A j \in Inputs : pc'[j] = "post" => pc[j] = "post"
    BY <2>1, <2>3
  <2> QED BY <2>1, <2>2, <2>4, <2>5, ServedSame
<1> QED BY <1>1, <1>2, <1>21, <1>3, <1>4, <1>5 DEF UserStep

\* Neither does the run.
LEMMA RunStepServed ==
    ASSUME RestTypeOK, RestTypeOK', Owned, Waiters, Owned', Connected, Served, RunStep
    PROVE  Served'
<1>0. Streaming /\ run \in ActiveRun /\ run.owner \in Inputs
  <2>1. run.at # "idle"
    BY DEF RunStep, Poll, Turn, ToolsDone, EndRun, Answer
  <2> QED BY <2>1, RunType
<1>1. pc[run.owner] = "running" /\ \A j \in Inputs : j # run.owner => pc[j] \notin Busy
  <2>1. pc[run.owner] = "running"
    BY <1>0 DEF Owned, RunIsOwned
  <2> QED BY <1>0, <2>1, OwnerFacts, BusyPlaces
<1>2. HeldServed'
  <2>1. held' = held /\ autoCtl' = autoCtl /\ manual' = manual
    BY DEF RunStep, Poll, Turn, ToolsDone, EndRun, Answer, RunUnchanged, controls
  <2> QED BY <2>1 DEF Served, HeldServed
<1>3. ASSUME Streaming', run'.owner = run.owner,
             run'.at \in {"tools", "turn"} => last' # NoMessage /\ retry' = 0,
             run'.at = "end" => last' # NoMessage /\ (retry' > 0 => last'.stop = "error")
      PROVE  Served'
  <2>1. pc'[run.owner] = "running"
    BY <1>0, <1>3 DEF Owned, RunIsOwned
  <2>2. \A j \in Inputs : pc'[j] # "post"
    BY <1>0, <2>1, BusyPlaces DEF Owned, OneBusy
  <2>3. QueueServed' /\ BashServed' /\ RetryServed'
    BY <1>0, <2>1, BusyPlaces DEF QueueServed, BashServed, RetryServed, Attended, Ending, Retrying
  <2>4. RetryErrs'
    BY <1>3, <2>2 DEF RetryErrs
  <2> QED BY <1>2, <2>3, <2>4 DEF Served
<1>4. CASE Poll
  <2>1. run'.owner = run.owner /\ run'.at = "ask"
    BY <1>0, <1>4 DEF Poll, Ask, ActiveRun
  <2> QED BY <1>3, <2>1, RunAtStreams
<1>5. CASE Turn
  <2>1. run.at = "turn" /\ last' = last /\ retry' = retry
        /\ (Ask \/ run' = [run EXCEPT !.at = "end"])
    BY <1>5 DEF Turn
  <2>2. run'.owner = run.owner /\ run'.at \in {"ask", "end"}
    BY <1>0, <2>1 DEF Ask, ActiveRun
  <2>3. last # NoMessage /\ retry = 0
    BY <2>1 DEF Served, RetryErrs
  <2> QED BY <1>3, <2>1, <2>2, <2>3, RunAtStreams
<1>6. CASE ToolsDone
  <2>1. run'.owner = run.owner /\ run'.at = "poll"
    BY <1>0, <1>6 DEF ToolsDone, ActiveRun
  <2> QED BY <1>3, <2>1, RunAtStreams
<1>7. ASSUME NEW kind \in Finished \cup Stopped, Answer(kind) PROVE Served'
  <2> DEFINE m == Message("assistant", Len(entries) + 1, kind[1], kind[2], run.era)
  <2>1. /\ Answered(m)
        /\ run' = [run EXCEPT !.call = m.id,
                              !.at = CASE kind[1] = "tool" -> "tools"
                                       [] kind[1] = "stop" -> "turn"
                                       [] OTHER            -> "end"]
    BY <1>7 DEF Answer
  <2>2. m.role = "assistant" /\ m.stop = kind[1]
    BY DEF Message
  <2> HIDE DEF m
  <2>3. m # NoMessage
    <3>1. NoMessage.role = "none"
        BY RecordsMade
    <3> QED BY <2>2, <3>1
  <2>4. /\ last' = m
        /\ retry' = IF m.stop = "error" THEN retry ELSE 0
    BY <2>1 DEF Answered
  <2>5. /\ run'.owner = run.owner /\ run'.at \in {"tools", "turn", "end"}
        /\ kind[1] = "error" => run'.at = "end"
    BY <1>0, <2>1 DEF ActiveRun
  <2> QED BY <1>3, <2>2, <2>3, <2>4, <2>5, RunAtStreams
<1>8. CASE EndRun
  <2>1. /\ pc' = [pc EXCEPT ![run.owner] = "post"] /\ run' = NoRun
        /\ run.at = "end" /\ last' = last /\ retry' = retry
    BY <1>8 DEF EndRun
  <2>2. pc'[run.owner] = "post" /\ run'.at = "idle"
    BY <1>0, <2>1 DEF RestTypeOK, NoRun
  <2>3. QueueServed' /\ BashServed' /\ RetryServed'
    BY <1>0, <2>2, BusyPlaces DEF QueueServed, BashServed, RetryServed, Attended, Ending, Retrying
  <2>4. RetryErrs'
    BY <2>1, <2>2 DEF Served, RetryErrs
  <2> QED BY <1>2, <2>3, <2>4 DEF Served
<1> QED BY <1>4, <1>5, <1>6, <1>7, <1>8 DEF RunStep

\* Nor compact(): held messages go on at its end.
LEMMA CompactStepServed ==
    ASSUME RestTypeOK, Owned, Waiters, Served, CompactStep
    PROVE  Served'
<1>1. CASE CompactPrepares
  <2>1. /\ pc' = pc /\ run' = run /\ last' = last /\ retry' = retry /\ autoCtl' = autoCtl
        /\ stage' = stage /\ steering' = steering /\ followUp' = followUp /\ held' = held
        /\ bash' = bash /\ manual = Waiting /\ strays' = strays
    BY <1>1 DEF CompactPrepares, OthersUnchanged, queues, history
  <2>2. held = <<>> \/ autoCtl # 0
    BY <2>1 DEF Served, HeldServed, Waiting
  <2> QED BY <2>1, <2>2, ServedSame DEF Owed
<1>2. ASSUME NEW ok \in BOOLEAN, CompactEnds(ok) PROVE Served'
  <2>1. /\ FlushHeld(FALSE) /\ pc' = AfterFlush(pc, FALSE) /\ held' = <<>>
        /\ run' = run /\ last' = last /\ retry' = retry /\ autoCtl' = autoCtl
        /\ stage' = stage /\ bash' = bash /\ strays' = strays
    BY <1>2 DEF CompactEnds, OthersUnchanged, FlushHeld, history
  <2>2. pc \in [Inputs -> Locations]
    BY DEF RestTypeOK
  <2>3. \A j \in Inputs : \/ pc'[j] = pc[j]
                          \/ pc[j] = "held" /\ pc'[j] \in {"input", "queued"}
    BY <2>1, <2>2, WaitersFlushed
  <2>4. held # <<>> => \E j \in Inputs : pc'[j] = "input"
    <3>1. held # <<>> => Head(held) \in Range(held) /\ Head(held) \in Inputs
        BY RangeOfTail, WaitersAreInputs
    <3> QED BY <2>1, <3>1 DEF AfterFlush
  <2>5. Owed' \subseteq Owed \/ \E j \in Inputs : pc'[j] = "input"
    BY <2>1, <2>4, FlushQueues DEF Owed
  <2>6. "held" \notin Underway
    BY BusyPlaces DEF Underway
  <2> QED BY <2>1, <2>3, <2>5, <2>6, ServedSame
<1> QED BY <1>1, <1>2 DEF CompactStep

\* An overflow that is given up releases the held messages.
LEMMA AnnounceHeld ==
    ASSUME NEW m, Announce(m)
    PROVE  held' = <<>> \/ held' = held
BY DEF Announce, FlushHeld

\* Where the decision after a run leads.
LEMMA CompactOrResumeMoves ==
    ASSUME RestTypeOK, Waiters, NEW i \in Inputs, pc[i] \in Busy, NEW m, CompactOrResume(i, m)
    PROVE  /\ held' = <<>> \/ held' = held
           /\ \/ pc'[i] = "compacting" /\ autoCtl' = i
              \/ /\ pc'[i] = IF HasQueued' THEN "continue" ELSE "finish"
                 /\ autoCtl' = autoCtl
<1>0. Announce(m)
    BY DEF CompactOrResume
<1>1. CASE Reason(m, TRUE) # "none"
  <2>1. ~GivesUp(m) /\ Announce(m) /\ StartCompaction(i, Reason(m, TRUE))
    BY <1>1, ReasonGivesUp DEF CompactOrResume
  <2>2. pc'[i] = "compacting" /\ autoCtl' = i
    BY <2>1, WaitersCompacting
  <2> QED BY <1>0, <2>2, AnnounceHeld
<1>2. CASE Reason(m, TRUE) = "none"
  <2> DEFINE then == IF HasQueued' THEN "continue" ELSE "finish"
  <2>1. pc' = Afterwards(m, [pc EXCEPT ![i] = then]) /\ autoCtl' = autoCtl
    BY <1>2 DEF CompactOrResume
  <2>2. then \in Locations
    BY PlacesAre
  <2> HIDE DEF then
  <2>3. pc'[i] = then
    BY <1>0, <2>1, <2>2, WaitersAnnounced
  <2> QED BY <1>0, <2>1, <2>3, AnnounceHeld DEF then
<1> QED BY <1>1, <1>2

\* No step of prompt() leaves something waiting for nobody.
LEMMA PromptStepServed ==
    ASSUME StoreInv, Owned, Waiters, HeadOK, Begun, PairsInv, Served, Undisturbed,
           RestTypeOK', Owned', Undisturbed', NEW i \in Inputs, PromptStep(i)
    PROVE  Served'
<1>0. RestTypeOK /\ HeldServed
    BY DEF StoreInv, SessionTypeOK, Served
<1>01. pc[i] \in Busy /\ pc[i] # "running" => ~Streaming /\ run = NoRun /\ run.at = "idle"
    BY <1>0, AgentIsFree, RunType
<1>02. ASSUME NEW p, pc' = [pc EXCEPT ![i] = p]
       PROVE  pc'[i] = p /\ \A j \in Inputs : j # i => pc'[j] = pc[j]
    BY <1>0, <1>02 DEF RestTypeOK
<1>03. pc[i] \in Busy \ Retrying => retry = 0
    BY <1>0, NoRetries
<1>04. pc[i] \in Busy => /\ autoCtl = IF pc[i] = "compacting" THEN i ELSE 0
    BY <1>0, OwnerFacts
<1>05. i # 0
    BY InputsAreNats
<1>1. CASE AdmitStreaming(i)
  <2>1. /\ pc[i] = "input" /\ Streaming
        /\ run' = run /\ held' = held /\ autoCtl' = autoCtl /\ manual' = manual
        /\ bash' = bash /\ retry' = retry /\ last' = last
        /\ pc' = [pc EXCEPT ![i] = "refused"] \/ pc' = [pc EXCEPT ![i] = "queued"]
    BY <1>1 DEF AdmitStreaming, Undisturbed, Reject, controls
  <2>2. PICK o \in Inputs : pc[o] = "running" /\ o # i
    BY <1>0, <2>1, RunType DEF Owned, RunIsOwned
  <2>3. pc'[i] # "post" /\ \A j \in Inputs : j # i => pc'[j] = pc[j]
    BY <1>02, <2>1
  <2>4. pc'[o] = "running"
    BY <2>2, <2>3
  <2>5. QueueServed' /\ BashServed' /\ RetryServed'
    BY <2>4, BusyPlaces DEF QueueServed, BashServed, RetryServed, Attended, Ending, Retrying
  <2>6. HeldServed'
    BY <1>0, <2>1 DEF HeldServed
  <2>7. RetryErrs'
    BY <2>1, <2>3 DEF Served, RetryErrs
  <2> QED BY <2>5, <2>6, <2>7 DEF Served
<1>2. CASE AdmitIdle(i)
  <2>1. /\ ~Streaming /\ pc' = [pc EXCEPT ![i] = "preflight"]
        /\ run' = run /\ held' = held /\ retry' = retry /\ manual' = manual
        /\ \A j \in Inputs : pc[j] \notin Busy
    BY <1>2 DEF AdmitIdle, Undisturbed, controls
  <2>2. autoCtl = 0 /\ run.at = "idle"
    BY <1>0, <2>1, NobodyFacts, RunType
  <2>3. pc'[i] = "preflight"
    BY <1>02, <2>1
  <2>4. ~(retry > 0)
    BY <2>1, RetryingIsBusy DEF Served, RetryServed
  <2> QED BY <1>0, <2>1, <2>2, <2>3, <2>4, ServedGoes, BusyPlaces DEF Ending
<1>3. CASE Precheck(i)
  <2>0. /\ pc[i] = "preflight" /\ run' = run /\ Announce(LastAssistant)
        /\ retry' = retry /\ manual' = manual
    BY <1>3 DEF Precheck
  <2>00. pc[i] \in Busy \ Retrying
    BY <2>0, BusyPlaces DEF Retrying
  <2> DEFINE why == IF LastAssistant = NoMessage THEN "none" ELSE Reason(LastAssistant, FALSE)
  <2>1. pc'[i] \in {"compacting", "send"} /\ (autoCtl' = i \/ autoCtl' = autoCtl)
    <3>1. CASE why # "none"
      <4>1. StartCompaction(i, why)
        BY <1>3, <3>1 DEF Precheck
      <4>2. ~GivesUp(LastAssistant)
        BY <1>0, <3>1, ReasonGivesUp
      <4> HIDE DEF why
      <4> QED BY <1>0, <2>0, <2>00, <4>1, <4>2, WaitersCompacting
    <3>2. CASE why = "none"
      <4>1. /\ pc' = Afterwards(LastAssistant, [pc EXCEPT ![i] = "send"])
            /\ autoCtl' = autoCtl
        BY <1>3, <3>2 DEF Precheck
      <4> QED BY <1>0, <2>0, <2>00, <4>1, WaitersAnnounced, PlacesAre
    <3> QED BY <3>1, <3>2
  <2>2. held' = <<>> \/ held' = held
    BY <2>0, AnnounceHeld
  <2>3. autoCtl = 0 /\ retry = 0 /\ run.at = "idle"
    BY <1>01, <1>03, <1>04, <2>0, <2>00
  <2>4. pc'[i] \in Busy /\ pc'[i] # "post" /\ ~Ending(i)'
    BY <2>1, BusyPlaces DEF Ending
  <2> QED BY <1>0, <1>05, <2>0, <2>1, <2>2, <2>3, <2>4, ServedGoes
<1>4. CASE Send(i)
  <2>1. /\ pc[i] = "send" /\ held' = held /\ retry' = retry /\ manual' = manual
        /\ run'.at = "poll"
        /\ pc' = [j \in Inputs |-> IF j = i THEN "running"
                                   ELSE IF j \in Range(<<i>>) THEN "done" ELSE pc[j]]
    BY <1>4 DEF Send, StartRun, controls
  <2>2. pc'[i] = "running" /\ autoCtl = 0
    BY <1>04, <2>1, BusyPlaces
  <2> QED BY <1>0, <2>1, <2>2, ServedGoes, BusyPlaces DEF Ending, Retrying
<1>5. CASE SendFails(i)
    BY <1>01, <1>5, BusyPlaces DEF SendFails
<1>6. CASE Post(i)
  <2>0. /\ pc[i] = "post" /\ run' = run /\ manual' = manual /\ last # NoMessage
        /\ retry > 0 => last.stop = "error"
    BY <1>6 DEF Post, PostUnchanged, Served, RetryErrs
  <2>1. autoCtl = 0 /\ run.at = "idle" /\ pc[i] \in Busy
    BY <1>01, <1>04, <2>0, BusyPlaces
  <2>2. CASE /\ pc' = [pc EXCEPT ![i] = "sleep"]
             /\ UNCHANGED <<QueuesUnchanged, job, tried, autoCtl>>
    <3>1. pc'[i] = "sleep" /\ held' = held
        BY <1>02, <2>2 DEF QueuesUnchanged
    <3> QED BY <1>0, <2>0, <2>1, <3>1, ServedGoes, BusyPlaces DEF Ending, Retrying
  <2>3. CASE /\ retry' = IF last.stop = "error" THEN 0 ELSE retry
             /\ CompactOrResume(i, last)
    <3>1. ~(retry' > 0)
        BY <2>0, <2>3
    <3>2. /\ held' = <<>> \/ held' = held
          /\ \/ pc'[i] = "compacting" /\ autoCtl' = i
             \/ /\ pc'[i] = IF HasQueued' THEN "continue" ELSE "finish"
                /\ autoCtl' = autoCtl
        BY <1>0, <2>1, <2>3, CompactOrResumeMoves
    <3>3. pc'[i] \in Busy /\ pc'[i] # "post" /\ (Ending(i)' => ~HasQueued')
        BY <3>2, BusyPlaces DEF Ending
    <3> QED BY <1>0, <1>05, <2>0, <2>1, <3>1, <3>2, <3>3, ServedGoes
  <2> QED BY <1>6, <2>0, <2>2, <2>3 DEF Post
<1>7. CASE WakeRetry(i)
  <2>1. /\ pc[i] = "sleep" /\ pc' = [pc EXCEPT ![i] = "continue"]
        /\ run' = run /\ held' = held /\ manual' = manual
    BY <1>7 DEF WakeRetry, PostUnchanged, QueuesUnchanged
  <2>2. autoCtl = 0 /\ run.at = "idle" /\ pc'[i] = "continue"
    BY <1>01, <1>02, <1>04, <2>1, BusyPlaces
  <2> QED BY <1>0, <2>1, <2>2, ServedGoes, BusyPlaces DEF Ending, Retrying
<1>8. CASE RetryCancelled(i)
  <2>1. /\ pc[i] = "sleep" /\ run' = run /\ manual' = manual /\ retry' = 0
        /\ CompactOrResume(i, seen[i])
    BY <1>8 DEF RetryCancelled, PostUnchanged
  <2>2. autoCtl = 0 /\ run.at = "idle" /\ pc[i] \in Busy
    BY <1>01, <1>04, <2>1, BusyPlaces
  <2>3. /\ held' = <<>> \/ held' = held
        /\ \/ pc'[i] = "compacting" /\ autoCtl' = i
           \/ /\ pc'[i] = IF HasQueued' THEN "continue" ELSE "finish"
              /\ autoCtl' = autoCtl
    BY <1>0, <2>1, <2>2, CompactOrResumeMoves
  <2>4. pc'[i] \in Busy /\ pc'[i] # "post" /\ (Ending(i)' => ~HasQueued')
    BY <2>3, BusyPlaces DEF Ending
  <2> QED BY <1>0, <1>05, <2>1, <2>2, <2>3, <2>4, ServedGoes
<1>9. ASSUME NEW ok \in BOOLEAN, NEW willRetry \in BOOLEAN, pc[i] = "compacting",
             AutoDone(i, ok, willRetry)
      PROVE  Served'
  <2>1. /\ run' = run /\ held' = <<>> /\ retry' = retry
        /\ stage[i] = "check" => stage'[i] # "main"
    BY <1>0, <1>9 DEF AutoDone, FlushHeld, RestTypeOK
  <2>2. pc'[i] = IF willRetry \/ ((ok \/ stage[i] # "check") /\ HasQueued')
                   THEN "continue"
                   ELSE IF stage[i] = "check" THEN "send" ELSE "finish"
    BY <1>0, <1>9, AutoDoneControl
  <2>3. retry = 0 /\ run.at = "idle"
    BY <1>01, <1>03, <1>9, BusyPlaces DEF Retrying
  <2>4. pc'[i] \in Busy /\ pc'[i] # "post" /\ (Ending(i)' => ~HasQueued')
    BY <2>1, <2>2, BusyPlaces DEF Ending
  <2> QED BY <1>0, <2>1, <2>3, <2>4, ServedGoes
<1>10. CASE AutoCompacted(i) \/ AutoFailed(i)
  <2>1. /\ pc[i] = "compacting"
        /\ AutoDone(i, TRUE, job[i].why = "overflow") \/ AutoDone(i, FALSE, FALSE)
    BY <1>10 DEF AutoCompacted, AutoFailed
  <2> QED BY <1>9, <2>1
<1>11. CASE ContinueFails(i)
    BY <1>01, <1>11, BusyPlaces DEF ContinueFails
<1>12. CASE ContinueWithQueued(i)
  <2>1. /\ pc[i] = "continue" /\ held' = held /\ manual' = manual
        /\ \E n : StartRun(i, <<n>>, "ask") \/ StartRun(i, <<n>>, "poll")
    BY <1>12 DEF ContinueWithQueued, controls
  <2>2. run'.at \in {"ask", "poll"} /\ pc'[i] = "running"
    BY <2>1 DEF StartRun
  <2>3. autoCtl = 0
    BY <1>04, <2>1, BusyPlaces
  <2> QED BY <1>0, <2>1, <2>2, <2>3, ServedGoes, BusyPlaces DEF Ending, Retrying
<1>13. CASE ContinueTranscript(i)
  <2>1. pc[i] = "continue" /\ held' = held /\ manual' = manual
    BY <1>13 DEF ContinueTranscript, controls
  <2>2. autoCtl = 0 /\ run.at = "idle"
    BY <1>01, <1>04, <2>1, BusyPlaces
  <2>3. ~NothingToContinue
    BY <2>1, <2>2, SomethingToContinue
  <2>4. run'.at = "poll" /\ pc' = [pc EXCEPT ![i] = "running"]
    BY <1>13, <2>3 DEF ContinueTranscript
  <2>5. pc'[i] = "running"
    BY <1>02, <2>4
  <2> QED BY <1>0, <2>1, <2>2, <2>4, <2>5, ServedGoes, BusyPlaces DEF Ending, Retrying
<1>14. CASE Finish(i)
  <2>1. /\ pc[i] = "finish" /\ run' = run /\ held' = held /\ manual' = manual
        /\ retry' = retry /\ autoCtl' = autoCtl /\ steering' = steering /\ followUp' = followUp
        /\ bash' = <<>> /\ last' = last /\ stage' = stage
        /\ pc' = [pc EXCEPT ![i] = IF stage[i] = "main" THEN "done" ELSE "send"]
        /\ strays' = strays
    BY <1>14 DEF Finish, FlushPendingBash, controls, queues, history
  <2>2. autoCtl = 0 /\ run.at = "idle" /\ retry = 0
    BY <1>01, <1>03, <1>04, <2>1, BusyPlaces DEF Retrying
  <2>3. /\ pc'[i] = IF stage[i] = "main" THEN "done" ELSE "send"
        /\ \A j \in Inputs : j # i => pc'[j] = pc[j]
    BY <1>02, <2>1
  <2>4. CASE stage[i] # "main"
    BY <1>0, <2>1, <2>2, <2>3, <2>4, ServedGoes, BusyPlaces DEF Ending
  <2>5. CASE stage[i] = "main"
    <3>1. Ending(i) /\ pc'[i] = "done"
        BY <1>0, <2>1, <2>3, <2>5 DEF Ending, RestTypeOK
    <3>2. QueueServed'
      <4> SUFFICES ASSUME Owed' # {} PROVE \E j \in Inputs : pc'[j] = "input"
        BY DEF QueueServed, Attended
      <4>1. Owed # {}
        BY <2>1 DEF Owed
      <4>2. PICK j \in Inputs : pc[j] = "input" \/ (pc[j] \in Busy /\ ~Ending(j))
        BY <4>1 DEF Served, QueueServed, Attended
      <4>3. j # i /\ pc[j] \notin Busy
        BY <1>0, <2>1, <3>1, <4>2, OwnerFacts, BusyPlaces
      <4> QED BY <2>3, <4>2, <4>3
    <3>3. HeldServed' /\ BashServed' /\ RetryServed'
        BY <1>0, <2>1, <2>2 DEF HeldServed, BashServed, RetryServed
    <3>4. \A j \in Inputs : pc'[j] # "post"
        BY <1>0, <2>1, <2>3, <3>1, OwnerFacts, BusyPlaces
    <3>5. RetryErrs'
        BY <2>1, <2>2, <3>4 DEF RetryErrs
    <3> QED BY <3>2, <3>3, <3>5 DEF Served
  <2> QED BY <2>4, <2>5
<1> QED BY <1>1, <1>2, <1>3, <1>4, <1>5, <1>6, <1>7, <1>8, <1>10, <1>11, <1>12,
           <1>13, <1>14 DEF PromptStep

-----------------------------------------------------------------------------
(***************************************************************************)
(* The fifth layer: somebody serves whatever waits, as long as prompts do  *)
(* not overlap and runs are heard.                                         *)
(***************************************************************************)
ServedInv == Undisturbed => Served

\* Every step keeps the fifth layer.
LEMMA ServedInvStep ==
    ASSUME StoreInv, ControlInv, HeadOK, Begun, PairsInv, ServedInv, [SessionNext]_sessionVars
    PROVE  ServedInv'
<1> SUFFICES ASSUME Undisturbed' PROVE Served'
    BY DEF ServedInv
<1>1. SessionTypeOK /\ RestTypeOK /\ RestTypeOK' /\ Undisturbed
    BY StepTypes, StaysDisturbed DEF StoreInv, SessionTypeOK
<1>2. Owned /\ Waiters /\ Served
    BY <1>1 DEF ControlInv, ServedInv
<1>3. Owned'
    BY <1>1, ControlInvStep DEF ControlInv
<1>4. CASE RunStep
  <2>1. run.at # "idle"
    BY <1>4 DEF RunStep, Poll, Turn, ToolsDone, EndRun, Answer
  <2>2. Connected
    BY <1>1, <2>1, RunType DEF StoreInv, RunIsHeard, Undisturbed
  <2> QED BY <1>1, <1>2, <1>3, <1>4, <2>2, RunStepServed
<1>5. CASE UNCHANGED sessionVars
  <2>1. /\ pc' = pc /\ run' = run /\ last' = last /\ retry' = retry /\ autoCtl' = autoCtl
        /\ stage' = stage /\ steering' = steering /\ followUp' = followUp /\ held' = held
        /\ bash' = bash /\ manual' = manual /\ strays' = strays
    BY <1>5 DEF sessionVars, inputVars, queues, controls, history
  <2> QED BY <1>1, <1>2, <2>1, ServedSame DEF Owed
<1> QED BY <1>1, <1>2, <1>3, <1>4, <1>5, UserStepServed, CompactStepServed, PromptStepServed
        DEF SessionNext

\* Nothing waits at the start.
LEMMA ServedInvInit ==
    ASSUME SessionInit
    PROVE  HeadOK /\ Begun /\ ServedInv
<1>1. /\ messages = <<>> /\ run = NoRun /\ steering = <<>> /\ followUp = <<>> /\ held = <<>>
      /\ bash = <<>> /\ retry = 0
      /\ \A i \in Inputs : pc[i] = "unused" /\ stage[i] = "check"
    BY DEF SessionInit
<1>2. HeadOK /\ Begun
    BY <1>1 DEF HeadOK, Begun, Started, AfterRun, Streaming
<1>3. Owed = {}
    BY <1>1, NothingOwed DEF HasQueued
<1>4. Served
    BY <1>1, <1>3 DEF Served, QueueServed, HeldServed, BashServed, RetryServed, RetryErrs, NoRun
<1> QED BY <1>2, <1>4 DEF ServedInv

\* When nobody is underway nothing is left.
LEMMA ServedLeavesNothing ==
    ASSUME SessionTypeOK, ControlInv, ServedInv
    PROVE  NothingLeftBehind
<1> SUFFICES ASSUME ~Streaming, manual = Off, \A i \in Inputs : pc[i] \notin Underway, Undisturbed
             PROVE  /\ Range(steering \o followUp) \subseteq strays
                    /\ held = <<>> /\ bash = <<>> /\ retry = 0
    BY DEF NothingLeftBehind
<1>1. RestTypeOK /\ Owned /\ Served
    BY DEF SessionTypeOK, ControlInv, ServedInv
<1>2. \A i \in Inputs : pc[i] \notin Busy /\ pc[i] # "input"
    BY DEF Underway
<1>3. autoCtl = 0
    BY <1>1, <1>2, NobodyFacts
<1>4. Range(steering \o followUp) \subseteq strays
  <2>1. Owed = {}
    BY <1>1, <1>2 DEF Served, QueueServed, Attended
  <2>2. steering \in Seq(Inputs) /\ followUp \in Seq(Inputs)
    BY <1>1 DEF RestTypeOK
  <2>3. Range(steering \o followUp) = Range(steering) \cup Range(followUp)
    BY <2>2, RangeOfConcat
  <2> QED BY <2>1, <2>3 DEF Owed
<1>5. held = <<>>
    BY <1>1, <1>3 DEF Served, HeldServed, Off
<1>6. bash = <<>>
    BY <1>1, <1>2 DEF Served, BashServed
<1>7. ~(retry > 0)
    BY <1>1, <1>2, RetryingIsBusy DEF Served, RetryServed
<1>8. retry = 0
    BY <1>1, <1>7 DEF RestTypeOK
<1> QED BY <1>4, <1>5, <1>6, <1>8

-----------------------------------------------------------------------------
(***************************************************************************)
(* Recovery.  What the errors in a row allow at each place of the loop: a  *)
(* request may follow, an answer is being judged, or nothing follows       *)
(* without a message that starts the count anew.                           *)
(***************************************************************************)
Allowed(n) == (MaxRetries + 1) * n

MayGoOn == /\ burst.over <= 1
           /\ burst.over = 1 => tried
           /\ burst.retryable <= Allowed(burst.over) + retry
Judged == /\ burst.over <= 2
          /\ burst.over = 2 => tried
          /\ burst.over = 1 => tried \/ IsContextOverflow(last)
          /\ IsContextOverflow(last) => burst.retryable <= Allowed(burst.over)
          /\ ~IsContextOverflow(last) => burst.over <= 1
          /\ burst.retryable <= Allowed(burst.over) + retry + 1
          /\ burst.retryable <= Allowed(burst.over) + retry \/ Retryable(last)
          /\ burst # NoErrors => /\ EndsOnAssistant(messages) /\ EndsOnAssistant(entries)
                                 /\ last.stop = "error" /\ last.era = Era
Bounded == /\ burst.over <= 2
           /\ burst.over > 0 => tried
           /\ burst.retryable <= Allowed(burst.over) + MaxRetries + 1

MayCompact(i) ==
    \/ job[i].why = "overflow" /\ MayGoOn
    \/ /\ job[i].why = "threshold" /\ Bounded
       /\ burst # NoErrors /\ stage[i] # "check" => EndsOnAssistant(messages)
       /\ burst # NoErrors /\ job[i].keep # NoCut => EndsOnAssistant(entries)

Recovers(i) ==
    /\ pc[i] = "preflight" => burst = NoErrors
    /\ pc[i] = "post" => Judged
    /\ pc[i] = "sleep" => MayGoOn /\ (i \in cancelled => burst = NoErrors)
    /\ pc[i] = "continue" => MayGoOn \/ (Bounded /\ HasQueued /\ EndsOnAssistant(messages))
    /\ pc[i] = "compacting" => MayCompact(i)
    /\ pc[i] \in {"send", "finish"} => Bounded

RunRecovers ==
    /\ run.at \in {"poll", "ask"} => MayGoOn
    /\ run.at = "ask" => run.era = Era
    /\ run.at \in {"tools", "turn"} => burst = NoErrors
    /\ run.at = "end" => Judged

Recovering ==
    /\ retry <= MaxRetries
    /\ manual # Off => burst = NoErrors
    /\ RunRecovers
    /\ \A i \in Inputs : Recovers(i)
    /\ (\A i \in Inputs : pc[i] \notin Busy) => Bounded
    /\ \A i \in cancelled \ {0} : pc[i] \in {"sleep", "compacting"}

\* What each compaction allows is a full budget of retries and an error.
LEMMA AllowedIs ==
    /\ Allowed(0) = 0
    /\ \A n \in Nat : Allowed(n) \in Nat /\ Allowed(n + 1) = Allowed(n) + MaxRetries + 1
BY InputsAreNats DEF Allowed

\* Without errors everything is allowed.
LEMMA ClearBurst ==
    ASSUME RestTypeOK, burst = NoErrors
    PROVE  MayGoOn /\ Judged /\ Bounded
<1>1. burst.over = 0 /\ burst.retryable = 0 /\ retry \in Nat /\ MaxRetries \in Nat
    BY InputsAreNats DEF NoErrors, RestTypeOK
<1>2. Allowed(burst.over) = 0
    BY <1>1, AllowedIs
<1> QED BY <1>1, <1>2 DEF MayGoOn, Judged, Bounded

\* The same of the state after a step.
LEMMA ClearBurstNext ==
    ASSUME RestTypeOK', burst' = NoErrors
    PROVE  MayGoOn' /\ Judged' /\ Bounded'
<1>1. burst'.over = 0 /\ burst'.retryable = 0 /\ retry' \in Nat /\ MaxRetries \in Nat
    BY InputsAreNats DEF NoErrors, RestTypeOK
<1>2. Allowed(burst'.over) = 0
    BY <1>1, AllowedIs
<1> QED BY <1>1, <1>2 DEF MayGoOn, Judged, Bounded

\* A count that lets a request follow is within the bound.
LEMMA MayGoOnIsBounded ==
    ASSUME RestTypeOK, retry <= MaxRetries, MayGoOn
    PROVE  Bounded
<1>1. burst.over \in Nat /\ burst.retryable \in Nat /\ retry \in Nat /\ MaxRetries \in Nat
    BY InputsAreNats DEF RestTypeOK
<1>2. Allowed(burst.over) \in Nat
    BY <1>1, AllowedIs
<1> QED BY <1>1, <1>2 DEF MayGoOn, Bounded

\* The count starts anew.
LEMMA ClearIsFine ==
    ASSUME RestTypeOK', burst' = NoErrors, retry' <= MaxRetries,
           run'.at = "ask" => run'.era = Era',
           \A i \in Inputs : pc'[i] = "compacting" => job'[i].why \in {"overflow", "threshold"},
           \A i \in cancelled' \ {0} : pc'[i] \in {"sleep", "compacting"}
    PROVE  Recovering'
<1>1. MayGoOn' /\ Judged' /\ Bounded'
    BY ClearBurstNext
<1>2. RunRecovers'
    BY <1>1 DEF RunRecovers
<1>3. ASSUME NEW i \in Inputs PROVE Recovers(i)'
    BY <1>1 DEF Recovers, MayCompact
<1> QED BY <1>1, <1>2, <1>3 DEF Recovering

\* Somebody else's step.
LEMMA RecoveringSame ==
    ASSUME RestTypeOK, Recovering, burst' = burst, retry' = retry, tried' = tried, last' = last,
           messages' = messages, entries' = entries, job' = job, stage' = stage,
           run'.at = run.at, run'.era = run.era, manual' = manual,
           HasQueued => HasQueued' \/ Streaming, Streaming => \A j \in Inputs : pc[j] # "continue",
           \A j \in Inputs : pc'[j] = pc[j] \/ (pc[j] \notin Busy /\ pc'[j] \notin Busy),
           \A j \in cancelled' : j = 0 \/ j \in cancelled \/ (j \in Inputs /\ pc[j] = "compacting")
    PROVE  Recovering'
<1>1. /\ MayGoOn' = MayGoOn /\ Judged' = Judged /\ Bounded' = Bounded
      /\ \A i \in Inputs : MayCompact(i)' = MayCompact(i)
  <2>1. Era' = Era
    BY DEF Era
  <2> QED BY <2>1 DEF MayGoOn, Judged, Bounded, MayCompact
<1>2. RunRecovers'
    BY <1>1 DEF Recovering, RunRecovers, Era
<1>3. ASSUME NEW i \in Inputs PROVE Recovers(i)'
  <2>1. CASE pc'[i] \notin Busy
    BY <2>1, BusyPlaces DEF Recovers
  <2>2. CASE pc'[i] = pc[i]
    <3>1. Recovers(i)
        BY DEF Recovering
    <3>2. pc[i] = "sleep" => (i \in cancelled' => i \in cancelled)
        BY InputsAreNats
    <3>3. pc[i] = "continue" => (HasQueued => HasQueued')
        OBVIOUS
    <3>4. pc[i] = "preflight" => burst = NoErrors
        BY <3>1 DEF Recovers
    <3>5. pc[i] = "sleep" => MayGoOn' /\ (i \in cancelled' => burst = NoErrors)
        BY <1>1, <3>1, <3>2 DEF Recovers
    <3>6. pc[i] = "continue" => MayGoOn' \/ (Bounded' /\ HasQueued' /\ EndsOnAssistant(messages))
        BY <1>1, <3>1, <3>3 DEF Recovers
    <3>7. /\ pc[i] = "post" => Judged'
          /\ pc[i] = "compacting" => MayCompact(i)'
          /\ pc[i] \in {"send", "finish"} => Bounded'
        BY <1>1, <3>1 DEF Recovers
    <3> QED BY <2>2, <3>4, <3>5, <3>6, <3>7 DEF Recovers
  <2> QED BY <2>1, <2>2
<1>4. (\A i \in Inputs : pc'[i] \notin Busy) => Bounded'
    BY <1>1 DEF Recovering
<1>5. ASSUME NEW i \in cancelled' \ {0} PROVE pc'[i] \in {"sleep", "compacting"}
  <2>1. CASE i \in cancelled
    <3>1. pc[i] \in {"sleep", "compacting"}
        BY <1>5, <2>1 DEF Recovering
    <3>2. i \in 0..MaxInputs /\ i # 0
        BY <1>5, <2>1 DEF RestTypeOK
    <3>3. i \in Inputs
        BY <3>2, InputsAreNats DEF Inputs
    <3> QED BY <3>1, <3>3, BusyPlaces
  <2>2. CASE i \in Inputs /\ pc[i] = "compacting"
    BY <2>2, BusyPlaces
  <2> QED BY <1>5, <2>1, <2>2
<1> QED BY <1>2, <1>3, <1>4, <1>5 DEF Recovering

\* The step of a prompt that goes on.
LEMMA RecoveringGoes ==
    ASSUME Owned', NEW i \in Inputs, pc'[i] \in Busy, retry' <= MaxRetries,
           manual' # Off => burst' = NoErrors, RunRecovers', Recovers(i)', cancelled' \subseteq {0}
    PROVE  Recovering'
<1>1. \A j \in Inputs : j # i => pc'[j] \notin Busy
    BY DEF Owned, OneBusy
<1>2. ASSUME NEW j \in Inputs PROVE Recovers(j)'
    BY <1>1, BusyPlaces DEF Recovers
<1> QED BY <1>1, <1>2 DEF Recovering

\* A prompt that is neither asleep nor compacting is not cancelled.
LEMMA CancelledOne ==
    ASSUME RestTypeOK, Owned, Recovering, NEW i \in Inputs, pc[i] \in Busy
    PROVE  /\ cancelled \subseteq {0, i}
           /\ pc[i] \notin {"sleep", "compacting"} => cancelled \subseteq {0}
<1>1. \A j \in cancelled \ {0} : j \in Inputs /\ pc[j] \in Busy
    BY InputsAreNats, BusyPlaces DEF RestTypeOK, Inputs, Recovering
<1>2. cancelled \subseteq {0, i}
    BY <1>1, OwnerFacts
<1>3. pc[i] \notin {"sleep", "compacting"} => cancelled \subseteq {0}
    BY <1>2 DEF Recovering
<1> QED BY <1>2, <1>3

\* The era only grows with a compaction.
LEMMA EraAppended ==
    ASSUME entries \in Seq(Record), NEW m \in Record, m.role # "compaction",
           entries' = Append(entries, m) \/ entries' = entries
    PROVE  Era' = Era
<1>1. CASE entries' = entries
    BY <1>1 DEF Era
<1>2. CASE entries' = Append(entries, m)
  <2>1. /\ Len(Append(entries, m)) = Len(entries) + 1 /\ Len(entries) \in Nat
        /\ Append(entries, m)[Len(entries) + 1] = m
        /\ \A k \in 1..Len(entries) : Append(entries, m)[k] = entries[k]
    OBVIOUS
  <2>2. CompactionsIn(Append(entries, m)) = CompactionsIn(entries)
    BY <2>1 DEF CompactionsIn
  <2> QED BY <1>2, <2>2 DEF Era
<1> QED BY <1>1, <1>2

\* The message of one input is heard.
LEMMA EraHeard ==
    ASSUME entries \in Seq(Record), NEW n \in Inputs, Heard(<<User(n)>>)
    PROVE  Era' = Era
<1>1. User(n) \in Record /\ User(n).role # "compaction"
    BY RecordsMade, InputsAreNats
<1>2. entries \o <<User(n)>> = Append(entries, User(n))
    BY <1>1
<1>3. entries' = Append(entries, User(n)) \/ entries' = entries
    BY <1>2 DEF Heard
<1> DEFINE u == User(n)
<1> HIDE DEF u
<1>4. u \in Record /\ u.role # "compaction" /\ (entries' = Append(entries, u) \/ entries' = entries)
    BY <1>1, <1>3 DEF u
<1> QED BY <1>4, EraAppended

\* What the user does starts the count anew or leaves it.
LEMMA UserStepRecovers ==
    ASSUME RestTypeOK, RestTypeOK', Owned, Waiters, Recovering, entries \in Seq(Record), UserStep
    PROVE  Recovering'
<1>0. Streaming => \A j \in Inputs : pc[j] # "continue"
    BY AgentIsFree, BusyPlaces
<1>01. \A j \in Inputs : pc[j] = "compacting" => job[j].why \in {"overflow", "threshold"}
    BY DEF Recovering, Recovers, MayCompact
<1>02. retry <= MaxRetries /\ (run.at = "ask" => run.era = Era)
    BY DEF Recovering, RunRecovers
<1>1. ASSUME NEW i \in Inputs, NEW h \in {"none", "steer", "followUp"}, Submit(i, h) \/ Hold(i, h)
      PROVE  Recovering'
  <2>1. /\ pc[i] = "unused"
        /\ pc' = [pc EXCEPT ![i] = "input"] \/ pc' = [pc EXCEPT ![i] = "held"]
        /\ UNCHANGED <<burst, retry, tried, last, messages, entries, job, stage, run,
                       manual, cancelled, steering, followUp>>
    BY <1>1 DEF Submit, Hold, NextInput, queues, controls, history
  <2>2. \A j \in Inputs : pc'[j] = pc[j] \/ (pc[j] = "unused" /\ pc'[j] \in {"input", "held"})
    BY <2>1 DEF RestTypeOK
  <2>3. \A j \in Inputs : pc'[j] = pc[j] \/ (pc[j] \notin Busy /\ pc'[j] \notin Busy)
    BY <2>2, BusyPlaces
  <2> QED BY <1>0, <2>1, <2>3, RecoveringSame DEF HasQueued
<1>21. ASSUME NEW i \in Inputs, NEW h \in {"none", "steer", "followUp"}, QueueDirectly(i, h)
       PROVE  Recovering'
  <2>1. /\ pc[i] = "unused" /\ pc' = [pc EXCEPT ![i] = "queued"]
        /\ UNCHANGED <<burst, retry, tried, last, messages, entries, job, stage, run,
                       manual, cancelled>>
    BY <1>21 DEF QueueDirectly, NextInput, controls
  <2>2. HasQueued'
    BY <1>21 DEF QueueDirectly, HasQueued, RestTypeOK
  <2>3. \A j \in Inputs : pc'[j] = pc[j] \/ (pc[j] = "unused" /\ pc'[j] = "queued")
    BY <2>1 DEF RestTypeOK
  <2>4. \A j \in Inputs : pc'[j] = pc[j] \/ (pc[j] \notin Busy /\ pc'[j] \notin Busy)
    BY <2>3, BusyPlaces
  <2> QED BY <1>0, <2>1, <2>2, <2>4, RecoveringSame
<1>2. ASSUME Abort \/ CompactStarts PROVE Recovering'
  <2>1. /\ AbortRetry /\ AbortRun /\ burst' = NoErrors /\ pc' = pc
        /\ job' = job /\ retry' = retry /\ entries' = entries
    BY <1>2 DEF Abort, CompactStarts, Intervened, OthersUnchanged
  <2>2. run'.at = run.at /\ run'.era = run.era /\ Era' = Era
    BY <2>1, AbortRunSame DEF Era
  <2>3. \A j \in cancelled' \ {0} : pc[j] \in {"sleep", "compacting"}
    BY <2>1 DEF AbortRetry, Owned, RetryIsOwned, Recovering
  <2> QED BY <1>01, <1>02, <2>1, <2>2, <2>3, ClearIsFine
<1>3. CASE RecordBash
  <2>1. /\ burst' = NoErrors /\ pc' = pc /\ job' = job /\ retry' = retry /\ run' = run
        /\ cancelled' = cancelled /\ (Streaming => entries' = entries)
    BY <1>3 DEF RecordBash, Intervened, OthersUnchanged
  <2>2. run.at = "ask" => Era' = Era
    BY <2>1, RunType DEF Era
  <2>3. \A j \in cancelled' \ {0} : pc[j] \in {"sleep", "compacting"}
    BY <2>1 DEF Recovering
  <2> QED BY <1>01, <1>02, <2>1, <2>2, <2>3, ClearIsFine
<1>4. CASE AbortCompaction
  <2>1. /\ UNCHANGED <<burst, retry, tried, last, messages, entries, job, stage, run, pc,
                       manual, steering, followUp>>
        /\ \A j \in cancelled' : j \in cancelled \/ j = 0 \/ (j = autoCtl /\ autoCtl # 0)
    BY <1>4 DEF AbortCompaction, OthersUnchanged, queues, history
  <2>2. autoCtl # 0 => autoCtl \in Inputs /\ pc[autoCtl] = "compacting"
    BY InputsAreNats DEF Owned, AutoIsOwned, RestTypeOK, Inputs
  <2> QED BY <1>0, <2>1, <2>2, RecoveringSame DEF HasQueued
<1>5. CASE Escape
  <2>1. /\ AbortRun /\ Streaming
        /\ pc' = [j \in Inputs |-> IF j \in Range(steering \o followUp \o held)
                                     THEN "cleared" ELSE pc[j]]
        /\ UNCHANGED <<burst, retry, tried, last, messages, entries, job, stage,
                       manual, cancelled>>
    BY <1>5 DEF Escape, OthersUnchanged, history
  <2>2. run'.at = run.at /\ run'.era = run.era
    BY <2>1, AbortRunSame
  <2>3. \A j \in Inputs : pc'[j] = pc[j] \/ (pc[j] \notin Busy /\ pc'[j] \notin Busy)
    BY <2>1, WaitersTogether, BusyPlaces DEF Inactive
  <2> QED BY <1>0, <2>1, <2>2, <2>3, RecoveringSame
<1> QED BY <1>1, <1>21, <1>2, <1>3, <1>4, <1>5 DEF UserStep

\* compact() has started the count anew.
LEMMA CompactStepRecovers ==
    ASSUME RestTypeOK, RestTypeOK', Owned, Waiters, Recovering, RunIsHeard, ~cut, CompactStep
    PROVE  Recovering'
<1>1. /\ manual # Off /\ burst' = burst /\ retry' = retry /\ run' = run /\ job' = job
      /\ pc' = pc \/ (FlushHeld(FALSE) /\ pc' = AfterFlush(pc, FALSE))
      /\ cancelled' \subseteq cancelled
  <2>1. CASE CompactPrepares
    BY <2>1 DEF CompactPrepares, OthersUnchanged, history, Off, Waiting
  <2>2. ASSUME NEW ok \in BOOLEAN, CompactEnds(ok)
        PROVE  /\ manual >= 0 /\ burst' = burst /\ retry' = retry /\ run' = run /\ job' = job
               /\ FlushHeld(FALSE) /\ pc' = AfterFlush(pc, FALSE)
               /\ cancelled' \subseteq cancelled
    BY <2>2 DEF CompactEnds, OthersUnchanged, history
  <2>3. manual >= 0 => manual # Off
    BY DEF Off
  <2> QED BY <2>1, <2>2, <2>3 DEF CompactStep
<1>2. burst' = NoErrors /\ retry' <= MaxRetries
    BY <1>1 DEF Recovering
<1>3. run'.at # "ask"
    BY <1>1, RunType DEF RunIsHeard, Connected
<1>4. \A j \in Inputs : pc'[j] = pc[j] \/ (pc[j] = "held" /\ pc'[j] \in {"input", "queued"})
    BY <1>1, WaitersFlushed DEF RestTypeOK
<1>5. \A j \in Inputs : pc[j] = "compacting" => job[j].why \in {"overflow", "threshold"}
    BY DEF Recovering, Recovers, MayCompact
<1>6. \A j \in cancelled' \ {0} : pc'[j] \in {"sleep", "compacting"}
  <2> SUFFICES ASSUME NEW j \in cancelled' \ {0} PROVE pc'[j] \in {"sleep", "compacting"}
    OBVIOUS
  <2>1. j \in Inputs /\ pc[j] \in {"sleep", "compacting"}
    BY <1>1, InputsAreNats DEF Recovering, RestTypeOK, Inputs
  <2> QED BY <1>4, <2>1
<1> QED BY <1>1, <1>2, <1>3, <1>4, <1>5, <1>6, ClearIsFine

\* A transcript ends on the answer that was appended.
LEMMA EndsAppended ==
    ASSUME NEW s \in Seq(Record), NEW m \in Record, IsAssistant(m)
    PROVE  EndsOnAssistant(Append(s, m))
<1>1. Append(s, m) # <<>> /\ Append(s, m)[Len(Append(s, m))] = m
    BY LastAppended
<1>2. Last(Append(s, m)) = m
    BY <1>1 DEF Last
<1> QED BY <1>1, <1>2 DEF EndsOnAssistant

\* One more error.
LEMMA ErrorIsJudged ==
    ASSUME SessionTypeOK, RestTypeOK', MayGoOn, retry <= MaxRetries, run.era = Era,
           NEW m \in Record, IsAssistant(m), m.stop = "error",
           m.what \in {"over", "retryable", "fatal"}, m.era = run.era,
           messages' = Append(messages, m), entries' = Append(entries, m),
           last' = m, retry' = retry, tried' = tried, burst' = CountErrors(m)
    PROVE  Judged'
<1>1. /\ burst.over \in Nat /\ burst.retryable \in Nat /\ retry \in Nat /\ MaxRetries \in Nat
    BY InputsAreNats DEF SessionTypeOK, RestTypeOK
<1>2. /\ burst'.over = burst.over + (IF m.what = "over" THEN 1 ELSE 0)
      /\ burst'.retryable = burst.retryable + (IF m.what = "retryable" THEN 1 ELSE 0)
    BY DEF CountErrors
<1>3. IsContextOverflow(last') <=> m.what = "over"
    BY DEF IsContextOverflow
<1>4. Retryable(last') <=> m.what = "retryable"
    BY DEF Retryable
<1>5. EndsOnAssistant(messages') /\ EndsOnAssistant(entries')
    BY EndsAppended DEF SessionTypeOK
<1>6. last'.era = Era' /\ last'.stop = "error"
    BY EraAppended DEF SessionTypeOK, IsAssistant
<1>7. Allowed(burst.over) \in Nat /\ Allowed(burst.over + 1) = Allowed(burst.over) + MaxRetries + 1
    BY <1>1, AllowedIs
<1>8. CASE m.what = "over"
  <2>1. burst'.over = burst.over + 1 /\ burst'.retryable = burst.retryable
    BY <1>1, <1>2, <1>8
  <2>2. Allowed(burst'.over) = Allowed(burst.over) + MaxRetries + 1
    BY <1>7, <2>1
  <2>3. burst'.over <= 2 /\ (burst'.over = 2 => tried')
    BY <1>1, <2>1 DEF MayGoOn
  <2>4. burst'.retryable <= Allowed(burst'.over)
    BY <1>1, <1>7, <2>1, <2>2 DEF MayGoOn
  <2>5. burst'.retryable <= Allowed(burst'.over) + retry' /\ burst'.over # 0
    <3>1. Allowed(burst'.over) \in Nat /\ burst'.retryable \in Nat
        BY <1>1, <1>7, <2>1, <2>2
    <3> QED BY <1>1, <2>1, <2>4, <3>1
  <2>6. burst'.retryable <= Allowed(burst'.over) + retry' + 1
    <3>1. Allowed(burst'.over) \in Nat /\ burst'.retryable \in Nat
        BY <1>1, <1>7, <2>1, <2>2
    <3> QED BY <1>1, <2>5, <3>1
  <2> QED BY <1>3, <1>5, <1>6, <1>8, <2>3, <2>4, <2>5, <2>6 DEF Judged
<1>9. CASE m.what # "over"
  <2>1. /\ burst'.over = burst.over
        /\ burst'.retryable = burst.retryable + (IF m.what = "retryable" THEN 1 ELSE 0)
    BY <1>1, <1>2, <1>9
  <2>2. burst'.over <= 1 /\ (burst'.over = 1 => tried')
    BY <2>1 DEF MayGoOn
  <2>3. Allowed(burst'.over) = Allowed(burst.over)
    BY <2>1
  <2>4. /\ burst'.retryable <= Allowed(burst'.over) + retry' + 1
        /\ burst'.retryable <= Allowed(burst'.over) + retry' \/ m.what = "retryable"
    BY <1>1, <1>7, <2>1, <2>3 DEF MayGoOn
  <2>5. burst'.over <= 2 /\ burst'.over # 2
    BY <1>1, <2>1, <2>2
  <2> QED BY <1>3, <1>4, <1>5, <1>6, <1>9, <2>2, <2>4, <2>5 DEF Judged
<1> QED BY <1>8, <1>9

\* The run counts one error at most, which is then judged.
LEMMA RunStepRecovers ==
    ASSUME SessionTypeOK, RestTypeOK', Owned, Owned', Connected, Recovering, RunStep
    PROVE  Recovering'
<1>0. /\ Streaming /\ run \in ActiveRun /\ run.owner \in Inputs /\ RestTypeOK
      /\ entries \in Seq(Record) /\ messages \in Seq(Record)
  <2>1. run.at # "idle"
    BY DEF RunStep, Poll, Turn, ToolsDone, EndRun, Answer
  <2> QED BY <2>1, RunType DEF SessionTypeOK
<1>1. pc[run.owner] = "running" /\ \A j \in Inputs : j # run.owner => pc[j] \notin Busy
  <2>1. pc[run.owner] = "running"
    BY <1>0 DEF Owned, RunIsOwned
  <2> QED BY <1>0, <2>1, OwnerFacts, BusyPlaces
<1>2. /\ cancelled' = cancelled /\ cancelled \subseteq {0} /\ manual' = Off
  <2>1. cancelled' = cancelled /\ manual' = manual
    BY DEF RunStep, Poll, Turn, ToolsDone, EndRun, Answer, RunUnchanged, controls
  <2> QED BY <1>0, <1>1, <2>1, CancelledOne, BusyPlaces DEF Connected
<1>3. ASSUME Streaming', run'.owner = run.owner
      PROVE  /\ pc'[run.owner] = "running" /\ pc'[run.owner] \in Busy
             /\ \A j \in Inputs : pc'[j] # "compacting"
  <2>1. pc'[run.owner] = "running"
    BY <1>0, <1>3 DEF Owned, RunIsOwned
  <2> QED BY <1>0, <2>1, BusyPlaces DEF Owned, OneBusy
<1>4. ASSUME Streaming', run'.owner = run.owner, burst' = NoErrors, retry' <= MaxRetries,
             run'.at = "ask" => run'.era = Era'
      PROVE  Recovering'
    BY <1>2, <1>3, <1>4, ClearIsFine
<1>5. ASSUME Streaming', run'.owner = run.owner, retry' <= MaxRetries, RunRecovers'
      PROVE  Recovering'
  <2>0. PICK o \in Inputs : o = run.owner
    BY <1>0
  <2>1. Recovers(o)'
    BY <1>3, <1>5, <2>0 DEF Recovers
  <2>2. pc'[o] \in Busy
    BY <1>3, <1>5, <2>0
  <2> QED BY <1>2, <1>5, <2>1, <2>2, RecoveringGoes
<1>6. retry <= MaxRetries /\ RunRecovers
    BY DEF Recovering
<1>7. ASSUME TakeSteering \/ TakeFollowUp PROVE burst' = NoErrors /\ Era' = Era
  <2>1. /\ steering # <<>> => Head(steering) \in Inputs
        /\ followUp # <<>> => Head(followUp) \in Inputs
    <3>1. steering \in Seq(Inputs) /\ followUp \in Seq(Inputs)
        BY <1>0 DEF RestTypeOK
    <3> QED BY <3>1
  <2> QED BY <1>0, <1>7, <2>1, EraHeard DEF TakeSteering, TakeFollowUp, Inject
<1>8. ASSUME Ask PROVE run'.owner = run.owner /\ run'.at = "ask" /\ run'.era = Era
    BY <1>0, <1>8 DEF Ask, ActiveRun
<1>9. CASE Poll
  <2>1. run.at = "poll" /\ Ask /\ retry' = retry
    BY <1>9 DEF Poll
  <2>2. Streaming'
    BY <1>8, <2>1, RunAtStreams
  <2>3. CASE TakeSteering
    BY <1>4, <1>6, <1>7, <1>8, <2>1, <2>2, <2>3
  <2>4. CASE UNCHANGED <<queues, messages, entries, tried, pc, burst>>
    <3>1. MayGoOn' /\ Era' = Era
        BY <1>6, <2>1, <2>4 DEF RunRecovers, MayGoOn, Era
    <3>2. RunRecovers'
        BY <1>8, <2>1, <3>1 DEF RunRecovers
    <3> QED BY <1>5, <1>6, <1>8, <2>1, <2>2, <3>2
  <2> QED BY <1>9, <2>3, <2>4 DEF Poll
<1>10. CASE Turn
  <2>1. run.at = "turn" /\ retry' = retry /\ burst = NoErrors
    BY <1>6, <1>10 DEF Turn, RunRecovers
  <2>2. CASE (TakeSteering \/ TakeFollowUp) /\ Ask
    BY <1>4, <1>6, <1>7, <1>8, <2>1, <2>2, RunAtStreams
  <2>3. CASE run' = [run EXCEPT !.at = "end"] /\ burst' = burst
    <3>1. run'.owner = run.owner /\ run'.at = "end"
        BY <1>0, <2>3 DEF ActiveRun
    <3> QED BY <1>4, <1>6, <2>1, <2>3, <3>1, RunAtStreams
  <2> QED BY <1>10, <2>2, <2>3 DEF Turn
<1>11. CASE ToolsDone
  <2>1. /\ run'.owner = run.owner /\ run'.at = "poll" /\ retry' = retry
        /\ burst' = burst /\ burst = NoErrors
    BY <1>0, <1>6, <1>11 DEF ToolsDone, ActiveRun, RunRecovers
  <2> QED BY <1>4, <1>6, <2>1, RunAtStreams
<1>12. ASSUME NEW kind \in Finished \cup Stopped, Answer(kind) PROVE Recovering'
  <2> DEFINE m == Message("assistant", Len(entries) + 1, kind[1], kind[2], run.era)
  <2>1. /\ run.at = "ask" /\ Heard(<<m>>) /\ Answered(m) /\ burst' = CountErrors(m)
        /\ run' = [run EXCEPT !.call = m.id,
                              !.at = CASE kind[1] = "tool" -> "tools"
                                       [] kind[1] = "stop" -> "turn"
                                       [] OTHER            -> "end"]
    BY <1>12 DEF Answer
  <2>2. /\ kind[1] \in {"stop", "tool", "error", "aborted"}
        /\ kind[1] = "error" => kind[2] \in {"over", "retryable", "fatal"}
    BY <1>12, KindsAre
  <2>3. /\ m \in Record /\ m.role = "assistant" /\ m.stop = kind[1] /\ m.what = kind[2]
        /\ m.era = run.era
    <3>1. kind[1] \in Stops /\ kind[2] \in Whats
        BY <1>12, KindsAre
    <3>2. Len(entries) + 1 \in Nat /\ run.era \in Nat
        BY <1>0 DEF ActiveRun
    <3>3. "assistant" \in Roles
        BY DEF Roles
    <3> QED BY <3>1, <3>2, <3>3, MessageMade
  <2> HIDE DEF m
  <2>4. /\ run'.owner = run.owner /\ run'.at \in {"tools", "turn", "end"}
        /\ kind[1] = "error" => run'.at = "end"
    BY <1>0, <2>1 DEF ActiveRun
  <2>5. Streaming'
    BY <2>4, RunAtStreams
  <2>6. /\ last' = m /\ retry' = IF m.stop = "error" THEN retry ELSE 0
        /\ m.stop = "error" => tried' = tried
    BY <1>0, <2>1 DEF Answered, RestTypeOK
  <2>7. CASE kind[1] # "error"
    <3>1. burst' = NoErrors /\ retry' = 0
        BY <2>1, <2>3, <2>6, <2>7 DEF CountErrors
    <3> QED BY <1>4, <2>4, <2>5, <3>1, InputsAreNats
  <2>8. CASE kind[1] = "error"
    <3>1. messages' = Append(messages, m) /\ entries' = Append(entries, m)
      <4>1. messages \o <<m>> = Append(messages, m) /\ entries \o <<m>> = Append(entries, m)
        BY <1>0, <2>3
      <4> QED BY <2>1, <4>1 DEF Heard
    <3>2. MayGoOn /\ run.era = Era
        BY <1>6, <2>1 DEF RunRecovers
    <3>3. Judged'
        BY <1>6, <2>1, <2>2, <2>3, <2>6, <2>8, <3>1, <3>2, ErrorIsJudged DEF IsAssistant
    <3>4. RunRecovers'
        BY <2>4, <2>8, <3>3 DEF RunRecovers
    <3> QED BY <1>5, <1>6, <2>3, <2>4, <2>5, <2>6, <2>8, <3>4
  <2> QED BY <2>7, <2>8
<1>13. CASE EndRun
  <2>0. PICK o \in Inputs : o = run.owner
    BY <1>0
  <2>1. /\ pc' = [pc EXCEPT ![o] = "post"] /\ run' = NoRun /\ run.at = "end"
        /\ UNCHANGED <<messages, entries, last, retry, tried, burst>>
    BY <1>13, <2>0 DEF EndRun
  <2>2. Judged'
    <3>1. Era' = Era
        BY <2>1 DEF Era
    <3>2. Judged' = Judged
        BY <2>1, <3>1 DEF Judged
    <3> QED BY <1>6, <2>1, <3>2 DEF RunRecovers
  <2>3. pc'[o] = "post" /\ run'.at = "idle"
    BY <1>0, <2>1 DEF RestTypeOK, NoRun
  <2>4. RunRecovers'
    BY <2>3 DEF RunRecovers
  <2>5. Recovers(o)'
    BY <2>2, <2>3 DEF Recovers
  <2>6. pc'[o] \in Busy /\ retry' <= MaxRetries
    BY <1>6, <2>1, <2>3, BusyPlaces
  <2> QED BY <1>2, <2>4, <2>5, <2>6, RecoveringGoes
<1> QED BY <1>9, <1>10, <1>11, <1>12, <1>13 DEF RunStep

\* The compaction that was begun.
LEMMA JobMade ==
    ASSUME RestTypeOK, NEW i \in Inputs, NEW why \in {"overflow", "threshold"},
           StartCompaction(i, why)
    PROVE  /\ job'[i].why = why /\ tried' = (tried \/ why = "overflow")
           /\ why = "threshold" => messages' = messages
<1>1. PICK keep \in SomeCut : job' = [job EXCEPT ![i] = [why |-> why, keep |-> keep]]
    BY DEF StartCompaction
<1>2. job'[i] = [why |-> why, keep |-> keep]
    BY <1>1 DEF RestTypeOK
<1> QED BY <1>2 DEF StartCompaction

\* An error that was judged leaves the count within the bound.
LEMMA JudgedIsBounded ==
    ASSUME RestTypeOK, Judged, retry <= MaxRetries, Reason(last, TRUE) # "overflow"
    PROVE  Bounded
<1>1. burst.over \in Nat /\ burst.retryable \in Nat /\ retry \in Nat /\ MaxRetries \in Nat
    BY InputsAreNats DEF RestTypeOK
<1>2. Allowed(burst.over) \in Nat
    BY <1>1, AllowedIs
<1>3. burst.over > 0 => tried
  <2> SUFFICES ASSUME burst.over > 0, ~tried PROVE FALSE
    OBVIOUS
  <2>1. burst.over = 1
    BY <1>1 DEF Judged
  <2>2. burst # NoErrors
    BY <2>1 DEF NoErrors
  <2>3. IsContextOverflow(last) /\ last.stop = "error" /\ last.era = Era
    BY <2>1, <2>2 DEF Judged
  <2>4. ~(last.era < Era)
    BY <2>3 DEF RestTypeOK, Record
  <2> QED BY <2>3, <2>4 DEF Reason
<1>4. burst.over <= 2
    BY DEF Judged
<1>5. burst.retryable <= Allowed(burst.over) + MaxRetries + 1
    BY <1>1, <1>2 DEF Judged
<1> QED BY <1>3, <1>4, <1>5 DEF Bounded

\* An overflow that is compacted for.
LEMMA OverflowMayGoOn ==
    ASSUME RestTypeOK, RestTypeOK', Judged, Reason(last, TRUE) = "overflow",
           burst' = burst, tried' = TRUE
    PROVE  MayGoOn'
<1>1. burst.over \in Nat /\ burst.retryable \in Nat /\ retry' \in Nat
    BY DEF RestTypeOK
<1>2. Allowed(burst.over) \in Nat
    BY <1>1, AllowedIs
<1>3. IsContextOverflow(last) /\ ~tried
    BY DEF Reason
<1>4. burst.over <= 1
    BY <1>1, <1>3 DEF Judged
<1>5. burst.retryable <= Allowed(burst.over) + retry'
    BY <1>1, <1>2, <1>3 DEF Judged
<1> QED BY <1>4, <1>5 DEF MayGoOn

\* An error that is retried.
LEMMA RetryMayGoOn ==
    ASSUME RestTypeOK, Judged, Retryable(last), burst' = burst, tried' = tried, retry' = retry + 1
    PROVE  MayGoOn'
<1>1. burst.over \in Nat /\ burst.retryable \in Nat /\ retry \in Nat
    BY DEF RestTypeOK
<1>2. Allowed(burst.over) \in Nat
    BY <1>1, AllowedIs
<1>3. ~IsContextOverflow(last)
    BY DEF Retryable, IsContextOverflow
<1>4. burst.over <= 1 /\ (burst.over = 1 => tried)
    BY <1>3 DEF Judged
<1>5. burst.retryable <= Allowed(burst.over) + retry'
    BY <1>1, <1>2 DEF Judged
<1> QED BY <1>4, <1>5 DEF MayGoOn

\* The decision after a run lets a request follow only if the count allows it.
LEMMA CompactOrResumeRecovers ==
    ASSUME RestTypeOK, RestTypeOK', Waiters, Judged, retry <= MaxRetries, NEW i \in Inputs,
           pc[i] = "post", CompactOrResume(i, last), entries' = entries, burst' = burst
    PROVE  Recovers(i)' /\ pc'[i] \in Busy
<1>0. pc[i] \in Busy /\ Announce(last)
    BY BusyPlaces DEF CompactOrResume
<1>1. burst # NoErrors => EndsOnAssistant(messages) /\ EndsOnAssistant(entries)
    BY DEF Judged
<1>2. CASE Reason(last, TRUE) # "none"
  <2> DEFINE why == Reason(last, TRUE)
  <2>1. ~GivesUp(last) /\ StartCompaction(i, why)
    BY <1>2, ReasonGivesUp DEF CompactOrResume
  <2>2. why \in {"overflow", "threshold"}
    BY <1>2, ReasonIs
  <2>3. why = Reason(last, TRUE)
    OBVIOUS
  <2> HIDE DEF why
  <2>4. pc'[i] = "compacting"
    BY <1>0, <2>1, WaitersCompacting
  <2>5. /\ job'[i].why = why /\ tried' = (tried \/ why = "overflow")
        /\ why = "threshold" => messages' = messages
    BY <2>1, <2>2, JobMade
  <2>6. MayCompact(i)'
    <3>1. CASE why = "overflow"
      <4>1. MayGoOn'
        BY <2>3, <2>5, <3>1, OverflowMayGoOn
      <4> QED BY <2>5, <3>1, <4>1 DEF MayCompact
    <3>2. CASE why = "threshold"
      <4>1. Bounded /\ tried' = tried
        BY <2>3, <2>5, <3>2, JudgedIsBounded DEF RestTypeOK
      <4>2. Bounded'
        BY <4>1 DEF Bounded
      <4> QED BY <1>1, <2>5, <3>2, <4>2 DEF MayCompact
    <3> QED BY <2>2, <3>1, <3>2
  <2> QED BY <2>4, <2>6, BusyPlaces DEF Recovers
<1>3. CASE Reason(last, TRUE) = "none"
  <2> DEFINE then == IF HasQueued' THEN "continue" ELSE "finish"
  <2>1. /\ pc' = Afterwards(last, [pc EXCEPT ![i] = then])
        /\ messages' = messages /\ tried' = tried
    BY <1>3 DEF CompactOrResume
  <2>2. then \in Locations
    BY PlacesAre
  <2>3. then = IF HasQueued' THEN "continue" ELSE "finish"
    OBVIOUS
  <2> HIDE DEF then
  <2>4. pc'[i] = then
    BY <1>0, <2>1, <2>2, WaitersAnnounced
  <2>5. Bounded
    BY <1>3, JudgedIsBounded
  <2>6. Bounded'
    BY <2>1, <2>5 DEF Bounded
  <2>7. burst = NoErrors => MayGoOn'
    BY ClearBurstNext
  <2>8. burst # NoErrors => EndsOnAssistant(messages')
    BY <1>1, <2>1
  <2>9. CASE HasQueued'
    <3>1. pc'[i] = "continue"
        BY <2>3, <2>4, <2>9
    <3> QED BY <2>6, <2>7, <2>8, <2>9, <3>1, BusyPlaces DEF Recovers
  <2>10. CASE ~HasQueued'
    <3>1. pc'[i] = "finish"
        BY <2>3, <2>4, <2>10
    <3> QED BY <2>6, <3>1, BusyPlaces DEF Recovers
  <2> QED BY <2>9, <2>10
<1> QED BY <1>2, <1>3

\* A compaction in the middle of the loop has ended.
LEMMA AutoRecovers ==
    ASSUME RestTypeOK, RestTypeOK', JobsOK, entries \in Seq(Record), retry <= MaxRetries,
           NEW i \in Inputs, MayCompact(i), burst' = burst, tried' = tried, retry' = retry,
           NEW ok \in BOOLEAN, NEW willRetry \in BOOLEAN,
           pc'[i] = IF willRetry \/ ((ok \/ stage[i] # "check") /\ HasQueued')
                      THEN "continue"
                      ELSE IF stage[i] = "check" THEN "send" ELSE "finish",
           \/ /\ ok /\ willRetry = (job[i].why = "overflow") /\ job[i].keep # NoCut
              /\ entries' = Append(entries, Compacted(job[i].keep))
              /\ job[i].why # "overflow" => messages' = Context(entries')
           \/ ~ok /\ ~willRetry /\ messages' = messages
    PROVE  Recovers(i)'
<1>1. MayGoOn' = MayGoOn /\ Bounded' = Bounded
    BY DEF MayGoOn, Bounded
<1>2. Bounded
    BY MayGoOnIsBounded DEF MayCompact
<1>3. pc'[i] \in {"send", "finish"} => Recovers(i)'
    BY <1>1, <1>2 DEF Recovers
<1>4. burst = NoErrors => MayGoOn'
    BY ClearBurstNext
<1>5. CASE MayGoOn'
    BY <1>1, <1>2, <1>5 DEF Recovers
<1>6. CASE ~MayGoOn'
  <2>1. /\ job[i].why = "threshold" /\ burst # NoErrors
        /\ stage[i] # "check" => EndsOnAssistant(messages)
        /\ job[i].keep # NoCut => EndsOnAssistant(entries)
    BY <1>1, <1>4, <1>6 DEF MayCompact
  <2>2. ~willRetry
    BY <2>1
  <2>3. pc'[i] \notin {"send", "finish"}
           => pc'[i] = "continue" /\ HasQueued' /\ (ok \/ stage[i] # "check")
    BY <2>2
  <2>4. ok => EndsOnAssistant(messages')
    <3> SUFFICES ASSUME ok PROVE EndsOnAssistant(messages')
        OBVIOUS
    <3>1. PICK k \in 1..Len(entries) : k = job[i].keep
        BY DEF JobsOK, IsCut, RestTypeOK, Job
    <3> DEFINE c == Context(Append(entries, Compacted(k)))
    <3>2. messages' = c
        BY <2>1, <3>1
    <3>3. EndsOnAssistant(entries)
        BY <2>1
    <3>4. IsAssistant(entries[Len(entries)])
        BY <3>3 DEF EndsOnAssistant, Last
    <3>5. c # <<>> /\ c[Len(c)] = entries[Len(entries)]
        BY <3>4, CompactedEnds DEF IsAssistant
    <3> HIDE DEF c
    <3> QED BY <3>2, <3>4, <3>5 DEF EndsOnAssistant, Last
  <2>5. pc'[i] \notin {"send", "finish"} => EndsOnAssistant(messages')
    BY <2>1, <2>3, <2>4
  <2> QED BY <1>1, <1>2, <1>3, <2>3, <2>5 DEF Recovers
<1> QED BY <1>5, <1>6

\* A run that begins with a message starts the count anew.
LEMMA StartRunClears ==
    ASSUME RestTypeOK', Owned', Recovering, entries \in Seq(Record), NEW i \in Inputs,
           NEW n \in Inputs, NEW at \in {"poll", "ask"}, StartRun(i, <<n>>, at),
           retry' = retry, cancelled' \subseteq {0}
    PROVE  Recovering'
<1>1. /\ burst' = NoErrors /\ pc'[i] = "running" /\ run'.at = at /\ run'.era = Era
      /\ Heard([k \in 1..Len(<<n>>) |-> User(<<n>>[k])])
    BY DEF StartRun
<1>2. [k \in 1..Len(<<n>>) |-> User(<<n>>[k])] = <<User(n)>>
    OBVIOUS
<1>3. Era' = Era
    BY <1>1, <1>2, EraHeard
<1>4. \A j \in Inputs : pc'[j] # "compacting"
    BY <1>1, BusyPlaces DEF Owned, OneBusy
<1>5. retry' <= MaxRetries
    BY DEF Recovering
<1> QED BY <1>1, <1>3, <1>4, <1>5, ClearIsFine

\* Every step of prompt() keeps the count within what its place allows.
LEMMA PromptStepRecovers ==
    ASSUME StoreInv, Owned, Waiters, HeadOK, Begun, PairsInv, Served, Recovering, Undisturbed,
           RestTypeOK', Owned', Undisturbed', NEW i \in Inputs, PromptStep(i)
    PROVE  Recovering'
<1>0. /\ RestTypeOK /\ messages \in Seq(Record) /\ entries \in Seq(Record) /\ JobsOK
      /\ retry <= MaxRetries /\ Recovers(i) /\ i # 0
    BY InputsAreNats DEF StoreInv, SessionTypeOK, Recovering
<1>01. pc[i] \in Busy /\ pc[i] # "running" => ~Streaming /\ run = NoRun /\ run.at = "idle"
    BY <1>0, AgentIsFree, RunType
<1>02. ASSUME NEW p, pc' = [pc EXCEPT ![i] = p]
       PROVE  pc'[i] = p /\ \A j \in Inputs : j # i => pc'[j] = pc[j]
    BY <1>0, <1>02 DEF RestTypeOK
<1>03. pc[i] \in Busy => /\ cancelled \subseteq {0, i}
                         /\ pc[i] \notin {"sleep", "compacting"} => cancelled \subseteq {0}
    BY <1>0, CancelledOne
<1>04. manual # Off => burst = NoErrors
    BY DEF Recovering
<1>05. ASSUME pc[i] \in Busy, pc[i] # "running", pc'[i] \in Busy, run' = run, manual' = manual,
              burst' = burst, retry' <= MaxRetries, cancelled' \subseteq {0}, Recovers(i)'
       PROVE  Recovering'
  <2>1. RunRecovers'
    BY <1>01, <1>05 DEF RunRecovers
  <2> QED BY <1>04, <1>05, <2>1, RecoveringGoes
<1>06. ASSUME pc'[i] \in Busy, burst' = NoErrors, retry' <= MaxRetries, run'.at = "idle",
              cancelled' \subseteq {0},
              pc'[i] = "compacting" => job'[i].why \in {"overflow", "threshold"}
       PROVE  Recovering'
  <2>1. \A j \in Inputs : pc'[j] = "compacting" => job'[j].why \in {"overflow", "threshold"}
    BY <1>06, BusyPlaces DEF Owned, OneBusy
  <2> QED BY <1>06, <2>1, ClearIsFine
<1>1. CASE AdmitStreaming(i)
  <2>1. /\ pc[i] = "input" /\ Streaming
        /\ UNCHANGED <<burst, retry, tried, last, messages, entries, job, stage, run,
                       manual, cancelled>>
        /\ pc' = [pc EXCEPT ![i] = "refused"] \/ pc' = [pc EXCEPT ![i] = "queued"]
    BY <1>1 DEF AdmitStreaming, Undisturbed, Reject, controls
  <2>2. \A j \in Inputs : pc'[j] = pc[j] \/ (pc[j] \notin Busy /\ pc'[j] \notin Busy)
    BY <1>02, <2>1, BusyPlaces
  <2>3. \A j \in Inputs : pc[j] # "continue"
    BY <1>0, <2>1, AgentIsFree, BusyPlaces
  <2> QED BY <1>0, <2>1, <2>2, <2>3, RecoveringSame
<1>2. CASE AdmitIdle(i)
  <2>1. /\ ~Streaming /\ pc[i] = "input" /\ pc' = [pc EXCEPT ![i] = "preflight"]
        /\ run' = run /\ retry' = retry /\ cancelled' = cancelled /\ burst' = NoErrors
        /\ \A j \in Inputs : pc[j] \notin Busy
    BY <1>2 DEF AdmitIdle, Undisturbed, controls, Intervened
  <2>2. pc'[i] = "preflight" /\ run'.at = "idle"
    BY <1>0, <1>02, <2>1, RunType
  <2>3. cancelled' \subseteq {0}
    <3>1. \A j \in cancelled \ {0} : j \in Inputs
        BY <1>0, InputsAreNats DEF RestTypeOK, Inputs
    <3>2. \A j \in cancelled \ {0} : pc[j] \in Busy
        BY BusyPlaces DEF Recovering
    <3> QED BY <2>1, <3>1, <3>2
  <2> QED BY <1>0, <1>06, <2>1, <2>2, <2>3, BusyPlaces
<1>3. CASE Precheck(i)
  <2>1. /\ pc[i] = "preflight" /\ run' = run /\ Announce(LastAssistant) /\ cancelled' = cancelled
        /\ retry' = retry /\ burst' = burst /\ burst = NoErrors
    BY <1>0, <1>3 DEF Precheck, Recovers, history
  <2>2. pc[i] \in Busy /\ run.at = "idle" /\ cancelled \subseteq {0}
    BY <1>01, <1>03, <2>1, BusyPlaces
  <2> DEFINE why == IF LastAssistant = NoMessage THEN "none" ELSE Reason(LastAssistant, FALSE)
  <2>3. CASE why # "none"
    <3>1. StartCompaction(i, why)
        BY <1>3, <2>3 DEF Precheck
    <3>2. ~GivesUp(LastAssistant)
        BY <1>0, <2>3, ReasonGivesUp
    <3>3. why \in {"overflow", "threshold"}
        BY <2>3, ReasonIs
    <3> HIDE DEF why
    <3>4. pc'[i] = "compacting" /\ job'[i].why \in {"overflow", "threshold"}
        BY <1>0, <2>1, <2>2, <3>1, <3>2, <3>3, WaitersCompacting, JobMade
    <3> QED BY <1>0, <1>06, <2>1, <2>2, <3>4, BusyPlaces
  <2>4. CASE why = "none"
    <3>1. pc' = Afterwards(LastAssistant, [pc EXCEPT ![i] = "send"])
        BY <1>3, <2>4 DEF Precheck
    <3>2. pc'[i] = "send"
        BY <1>0, <2>1, <2>2, <3>1, WaitersAnnounced, PlacesAre
    <3> QED BY <1>0, <1>06, <2>1, <2>2, <3>2, BusyPlaces
  <2> QED BY <2>3, <2>4
<1>4. CASE Send(i)
  <2>1. pc[i] = "send" /\ StartRun(i, <<i>>, "poll") /\ retry' = retry /\ cancelled' = cancelled
    BY <1>4 DEF Send, controls
  <2> QED BY <1>0, <1>03, <2>1, StartRunClears, BusyPlaces
<1>5. CASE SendFails(i)
    BY <1>01, <1>5, BusyPlaces DEF SendFails
<1>6. CASE Post(i)
  <2>1. /\ pc[i] = "post" /\ run' = run /\ manual' = manual /\ cancelled' = cancelled
        /\ last # NoMessage /\ entries' = entries /\ burst' = burst
    BY <1>6 DEF Post, PostUnchanged, Served, RetryErrs, history
  <2>2. pc[i] \in Busy /\ cancelled \subseteq {0} /\ Judged
    BY <1>0, <1>03, <2>1, BusyPlaces DEF Recovers
  <2>3. CASE /\ MayRetry(last) /\ retry' = retry + 1 /\ tried' = tried
             /\ pc' = [pc EXCEPT ![i] = "sleep"]
    <3>1. MayGoOn'
        BY <1>0, <2>1, <2>2, <2>3, RetryMayGoOn DEF MayRetry
    <3>2. pc'[i] = "sleep"
        BY <1>02, <2>3
    <3>3. retry' <= MaxRetries
      <4>1. retry \in Nat /\ MaxRetries \in Nat
        BY <1>0, InputsAreNats DEF RestTypeOK
      <4> QED BY <2>3, <4>1 DEF MayRetry
    <3>4. Recovers(i)'
        BY <1>0, <2>1, <2>2, <3>1, <3>2 DEF Recovers
    <3> QED BY <1>05, <2>1, <2>2, <3>2, <3>3, <3>4, BusyPlaces
  <2>4. CASE (retry' = IF last.stop = "error" THEN 0 ELSE retry) /\ CompactOrResume(i, last)
    <3>1. Recovers(i)' /\ pc'[i] \in Busy
        BY <1>0, <2>1, <2>2, <2>4, CompactOrResumeRecovers
    <3>2. retry' <= MaxRetries
        BY <1>0, <2>4, InputsAreNats
    <3> QED BY <1>05, <2>1, <2>2, <3>1, <3>2, BusyPlaces
  <2> QED BY <1>6, <2>1, <2>3, <2>4 DEF Post
<1>7. CASE WakeRetry(i)
  <2>1. /\ pc[i] = "sleep" /\ i \notin cancelled /\ pc' = [pc EXCEPT ![i] = "continue"]
        /\ run' = run /\ manual' = manual /\ retry' = retry /\ tried' = tried
        /\ burst' = burst /\ cancelled' = cancelled
    BY <1>7 DEF WakeRetry, PostUnchanged, history
  <2>2. pc'[i] = "continue" /\ cancelled' \subseteq {0}
    BY <1>02, <1>03, <2>1, BusyPlaces
  <2>3. MayGoOn'
    BY <1>0, <2>1 DEF Recovers, MayGoOn
  <2>4. Recovers(i)'
    BY <2>2, <2>3 DEF Recovers
  <2> QED BY <1>0, <1>05, <2>1, <2>2, <2>4, BusyPlaces
<1>8. CASE RetryCancelled(i)
  <2>1. /\ pc[i] = "sleep" /\ i \in cancelled /\ run' = run /\ retry' = 0
        /\ CompactOrResume(i, seen[i]) /\ burst' = burst /\ cancelled' = cancelled \ {i}
    BY <1>8 DEF RetryCancelled, PostUnchanged, history
  <2>2. burst' = NoErrors /\ pc[i] \in Busy /\ cancelled' \subseteq {0} /\ run'.at = "idle"
    BY <1>0, <1>01, <1>03, <2>1, BusyPlaces DEF Recovers
  <2>3. pc'[i] \in Busy
    BY <1>0, <2>1, <2>2, CompactOrResumeMoves, BusyPlaces
  <2>4. pc'[i] = "compacting" => job'[i].why \in {"overflow", "threshold"}
    <3> DEFINE why == Reason(seen[i], TRUE)
    <3>1. CASE why # "none"
      <4>1. StartCompaction(i, why)
        BY <2>1, <3>1 DEF CompactOrResume
      <4>2. why \in {"overflow", "threshold"}
        BY <3>1, ReasonIs
      <4> HIDE DEF why
      <4> QED BY <1>0, <4>1, <4>2, JobMade
    <3>2. CASE why = "none"
      <4>1. autoCtl' = autoCtl
        BY <2>1, <3>2 DEF CompactOrResume
      <4>2. autoCtl = 0
        BY <1>0, <2>1, <2>2, OwnerFacts
      <4>3. pc'[i] # "compacting"
        BY <1>0, <2>1, <2>2, <4>1, <4>2, CompactOrResumeMoves
      <4> QED BY <4>3
    <3> QED BY <3>1, <3>2
  <2>5. retry' <= MaxRetries
    BY <2>1, InputsAreNats
  <2> QED BY <1>06, <2>2, <2>3, <2>4, <2>5
<1>9. ASSUME NEW ok \in BOOLEAN, NEW willRetry \in BOOLEAN, pc[i] = "compacting",
             AutoDone(i, ok, willRetry),
             \/ /\ ok /\ willRetry = (job[i].why = "overflow") /\ job[i].keep # NoCut
                /\ entries' = Append(entries, Compacted(job[i].keep))
                /\ job[i].why # "overflow" => messages' = Context(entries')
             \/ ~ok /\ ~willRetry /\ messages' = messages
      PROVE  Recovering'
  <2>1. /\ run' = run /\ retry' = retry /\ burst' = burst /\ tried' = tried
        /\ manual' = manual /\ cancelled' = cancelled \ {i}
    BY <1>9 DEF AutoDone, history
  <2>2. pc'[i] = IF willRetry \/ ((ok \/ stage[i] # "check") /\ HasQueued')
                   THEN "continue" ELSE IF stage[i] = "check" THEN "send" ELSE "finish"
    BY <1>0, <1>9, AutoDoneControl
  <2>3. pc[i] \in Busy /\ pc'[i] \in Busy /\ cancelled' \subseteq {0} /\ MayCompact(i)
    BY <1>0, <1>03, <1>9, <2>1, <2>2, BusyPlaces DEF Recovers
  <2>4. Recovers(i)'
    BY <1>0, <1>9, <2>1, <2>2, <2>3, AutoRecovers
  <2> QED BY <1>0, <1>05, <1>9, <2>1, <2>3, <2>4
<1>10. CASE AutoCompacted(i)
  <2>1. /\ pc[i] = "compacting" /\ AutoDone(i, TRUE, job[i].why = "overflow")
        /\ job[i].keep # NoCut /\ entries' = Append(entries, Compacted(job[i].keep))
        /\ job[i].why # "overflow" => messages' = Context(entries')
    BY <1>10 DEF AutoCompacted
  <2> QED BY <1>9, <2>1
<1>11. CASE AutoFailed(i)
  <2>1. pc[i] = "compacting" /\ AutoDone(i, FALSE, FALSE) /\ messages' = messages
    BY <1>11 DEF AutoFailed
  <2> QED BY <1>9, <2>1
<1>12. CASE ContinueFails(i)
    BY <1>01, <1>12, BusyPlaces DEF ContinueFails
<1>13. CASE ContinueWithQueued(i)
  <2>1. /\ pc[i] = "continue" /\ retry' = retry /\ cancelled' = cancelled /\ HasQueued
        /\ \/ steering # <<>> /\ StartRun(i, <<Head(steering)>>, "ask")
           \/ steering = <<>> /\ StartRun(i, <<Head(followUp)>>, "poll")
    BY <1>13 DEF ContinueWithQueued, controls, Answering
  <2>2. steering \in Seq(Inputs) /\ followUp \in Seq(Inputs)
    BY <1>0, WaitersAreInputs
  <2>3. (steering # <<>> => Head(steering) \in Inputs) /\ (followUp # <<>> => Head(followUp) \in Inputs)
    BY <2>2
  <2>4. PICK n \in Inputs : StartRun(i, <<n>>, "ask") \/ StartRun(i, <<n>>, "poll")
    BY <2>1, <2>3 DEF HasQueued
  <2>5. cancelled' \subseteq {0}
    BY <1>03, <2>1, BusyPlaces
  <2> QED BY <1>0, <2>1, <2>4, <2>5, StartRunClears
<1>14. CASE ContinueTranscript(i)
  <2>1. /\ pc[i] = "continue" /\ ~Answering /\ manual' = manual /\ cancelled' = cancelled
        /\ retry' = retry /\ tried' = tried /\ burst' = burst
    BY <1>14 DEF ContinueTranscript, controls
  <2>2. run.at = "idle" /\ cancelled' \subseteq {0}
    BY <1>01, <1>03, <2>1, BusyPlaces
  <2>3. ~NothingToContinue
    BY <2>1, <2>2, SomethingToContinue
  <2>4. run'.at = "poll" /\ pc' = [pc EXCEPT ![i] = "running"]
    BY <1>14, <2>3 DEF ContinueTranscript
  <2>5. pc'[i] = "running"
    BY <1>02, <2>4
  <2>6. MayGoOn
    BY <1>0, <2>1 DEF Recovers, Answering
  <2>7. MayGoOn'
    BY <2>1, <2>6 DEF MayGoOn
  <2>8. RunRecovers' /\ Recovers(i)'
    BY <2>4, <2>5, <2>7 DEF RunRecovers, Recovers
  <2> QED BY <1>0, <1>04, <2>1, <2>2, <2>5, <2>8, RecoveringGoes, BusyPlaces
<1>15. CASE Finish(i)
  <2>1. /\ pc[i] = "finish" /\ run' = run /\ manual' = manual /\ cancelled' = cancelled
        /\ retry' = retry /\ burst' = burst /\ tried' = tried
        /\ pc' = [pc EXCEPT ![i] = IF stage[i] = "main" THEN "done" ELSE "send"]
    BY <1>15 DEF Finish, controls, history
  <2>2. /\ pc'[i] = IF stage[i] = "main" THEN "done" ELSE "send"
        /\ \A j \in Inputs : j # i => pc'[j] = pc[j]
    BY <1>02, <2>1
  <2>3. pc[i] \in Busy /\ cancelled' \subseteq {0} /\ Bounded /\ run.at = "idle"
    BY <1>0, <1>01, <1>03, <2>1, BusyPlaces DEF Recovers
  <2>4. Bounded'
    BY <2>1, <2>3 DEF Bounded
  <2>5. CASE stage[i] # "main"
    <3>1. pc'[i] = "send"
        BY <2>2, <2>5
    <3>2. Recovers(i)'
        BY <2>4, <3>1 DEF Recovers
    <3> QED BY <1>0, <1>05, <2>1, <2>3, <3>1, <3>2, BusyPlaces
  <2>6. CASE stage[i] = "main"
    <3>1. \A j \in Inputs : pc'[j] \notin Busy
        BY <1>0, <2>2, <2>3, <2>6, OwnerFacts, BusyPlaces
    <3>2. \A j \in Inputs : Recovers(j)'
        BY <3>1, BusyPlaces DEF Recovers
    <3>3. RunRecovers'
        BY <2>1, <2>3 DEF RunRecovers
    <3> QED BY <1>0, <1>04, <2>1, <2>3, <2>4, <3>2, <3>3 DEF Recovering
  <2> QED BY <2>5, <2>6
<1> QED BY <1>1, <1>2, <1>3, <1>4, <1>5, <1>6, <1>7, <1>8, <1>10, <1>11, <1>12,
           <1>13, <1>14, <1>15 DEF PromptStep

-----------------------------------------------------------------------------
(***************************************************************************)
(* The sixth layer: what the errors in a row allow at each place of a      *)
(* prompt, and what follows for their number.                              *)
(***************************************************************************)
RecoveryInv == Undisturbed => Recovering

\* Every step keeps the sixth layer.
LEMMA RecoveryInvStep ==
    ASSUME StoreInv, ControlInv, HeadOK, Begun, PairsInv, ServedInv, RecoveryInv,
           [SessionNext]_sessionVars
    PROVE  RecoveryInv'
<1> SUFFICES ASSUME Undisturbed' PROVE Recovering'
    BY DEF RecoveryInv
<1>1. /\ SessionTypeOK /\ RestTypeOK /\ RestTypeOK' /\ Undisturbed /\ entries \in Seq(Record)
      /\ RunIsHeard /\ ~cut
    BY StepTypes, StaysDisturbed DEF StoreInv, SessionTypeOK, Undisturbed
<1>2. Owned /\ Waiters /\ Served /\ Recovering
    BY <1>1 DEF ControlInv, ServedInv, RecoveryInv
<1>3. Owned'
    BY <1>1, ControlInvStep DEF ControlInv
<1>4. CASE RunStep
  <2>1. run.at # "idle"
    BY <1>4 DEF RunStep, Poll, Turn, ToolsDone, EndRun, Answer
  <2>2. Connected
    BY <1>1, <2>1, RunType DEF RunIsHeard
  <2> QED BY <1>1, <1>2, <1>3, <1>4, <2>2, RunStepRecovers
<1>5. CASE UNCHANGED sessionVars
  <2>1. UNCHANGED <<burst, retry, tried, last, messages, entries, job, stage, run, pc,
                    manual, cancelled, steering, followUp>>
    BY <1>5 DEF sessionVars, inputVars, queues, controls, history
  <2>2. Streaming => \A j \in Inputs : pc[j] # "continue"
    BY <1>1, <1>2, AgentIsFree, BusyPlaces
  <2> QED BY <1>1, <1>2, <2>1, <2>2, RecoveringSame DEF HasQueued
<1>6. CASE UserStep
    BY <1>1, <1>2, <1>6, UserStepRecovers
<1>7. CASE CompactStep
    BY <1>1, <1>2, <1>7, CompactStepRecovers
<1>8. ASSUME NEW i \in Inputs, PromptStep(i) PROVE Recovering'
    BY <1>1, <1>2, <1>3, <1>8, PromptStepRecovers
<1> QED BY <1>4, <1>5, <1>6, <1>7, <1>8 DEF SessionNext

\* There are no errors at the start.
LEMMA RecoveryInvInit ==
    ASSUME SessionInit
    PROVE  RecoveryInv
<1>1. RestTypeOK
    BY StoreInvInit DEF StoreInv, SessionTypeOK
<1>2. /\ burst = NoErrors /\ retry = 0 /\ run.at = "idle" /\ cancelled = {} /\ manual = Off
      /\ \A i \in Inputs : pc[i] = "unused"
    BY DEF SessionInit, NoRun
<1>3. Bounded
    BY <1>1, <1>2, ClearBurst
<1>4. RunRecovers /\ \A i \in Inputs : Recovers(i)
    BY <1>2 DEF RunRecovers, Recovers
<1> QED BY <1>2, <1>3, <1>4, InputsAreNats DEF Recovering, RecoveryInv

\* Wherever the loop is, the errors in a row are within the bound.
LEMMA RecoveryIsBounded ==
    ASSUME SessionTypeOK, ControlInv, RecoveryInv
    PROVE  RecoveryBounded
<1> SUFFICES ASSUME Undisturbed
             PROVE  /\ burst.over <= 2
                    /\ burst.retryable <= (MaxRetries + 1) * (burst.over + 1)
    BY DEF RecoveryBounded
<1>1. RestTypeOK /\ Owned /\ Recovering
    BY DEF SessionTypeOK, ControlInv, RecoveryInv
<1>2. burst.over \in Nat /\ burst.retryable \in Nat /\ retry \in Nat /\ MaxRetries \in Nat
    BY <1>1, InputsAreNats DEF RestTypeOK
<1>3. Allowed(burst.over) \in Nat /\ Allowed(burst.over + 1) = Allowed(burst.over) + MaxRetries + 1
    BY <1>2, AllowedIs
<1>4. MayGoOn \/ Judged \/ Bounded
  <2>1. CASE \A i \in Inputs : pc[i] \notin Busy
    BY <1>1, <2>1 DEF Recovering
  <2>2. ASSUME NEW i \in Inputs, pc[i] \in Busy PROVE MayGoOn \/ Judged \/ Bounded
    <3>1. burst = NoErrors => Bounded
        BY <1>1, ClearBurst
    <3>2. Recovers(i) /\ RunRecovers
        BY <1>1 DEF Recovering
    <3>3. CASE pc[i] = "running"
      <4>1. run \in ActiveRun
        BY <1>1, <2>2, <3>3, OwnerFacts, RunType
      <4>2. run.at \in {"poll", "ask", "tools", "turn", "end"}
        BY <4>1 DEF ActiveRun
      <4> QED BY <3>1, <3>2, <4>2 DEF RunRecovers
    <3>4. CASE pc[i] # "running"
        BY <2>2, <3>1, <3>2, <3>4, BusyPlaces DEF Recovers, MayCompact
    <3> QED BY <3>3, <3>4
  <2> QED BY <2>1, <2>2
<1>5. retry <= MaxRetries
    BY <1>1 DEF Recovering
<1>6. burst.over <= 2 /\ burst.retryable <= Allowed(burst.over) + MaxRetries + 1
    BY <1>2, <1>3, <1>4, <1>5 DEF MayGoOn, Judged, Bounded
<1> QED BY <1>3, <1>6 DEF Allowed

-----------------------------------------------------------------------------
(***************************************************************************)
(* All layers together, and the theorems that need them.                   *)
(***************************************************************************)
SessionLoopInv ==
    StoreInv /\ ControlInv /\ HeadOK /\ Begun /\ PairsInv /\ ServedInv /\ RecoveryInv

\* All layers hold at the start.
LEMMA SessionLoopInvInit == SessionInit => SessionLoopInv
BY StoreInvInit, SessionInvInit, ServedInvInit, RecoveryInvInit DEF SessionLoopInv

\* Every step keeps all layers.
LEMMA SessionLoopInvStep == SessionLoopInv /\ [SessionNext]_sessionVars => SessionLoopInv'
<1> SUFFICES ASSUME SessionLoopInv, [SessionNext]_sessionVars PROVE SessionLoopInv'
    OBVIOUS
<1>1. /\ StoreInv /\ SessionTypeOK /\ ControlInv /\ HeadOK /\ Begun /\ PairsInv /\ ServedInv
      /\ RecoveryInv
    BY DEF SessionLoopInv, StoreInv
<1>2. StoreInv' /\ ControlInv' /\ PairsInv'
    BY <1>1, StoreInvStep, ControlInvStep, PairsInvStep
<1>3. HeadOK' /\ Begun'
    BY <1>1, BegunStep
<1>4. ServedInv'
    BY <1>1, ServedInvStep
<1>5. RecoveryInv'
    BY <1>1, RecoveryInvStep
<1> QED BY <1>2, <1>3, <1>4, <1>5 DEF SessionLoopInv

\* When no prompt is underway and the agent is idle, prompt() has left no queued
\* or held message, no bash result and no retry count behind, for any number of
\* prompts and events.
THEOREM SessionLeavesNothing == SessionSpec => []NothingLeftBehind
<1>1. SessionLoopInv => NothingLeftBehind
    BY ServedLeavesNothing DEF SessionLoopInv, StoreInv
<1> QED BY <1>1, SessionLoopInvInit, SessionLoopInvStep, PTL DEF SessionSpec

\* Left to itself, the loop of prompt() compacts once for a context overflow and
\* retries MaxRetries times, and MaxRetries times again after that compaction,
\* for any number of prompts and any MaxRetries.
THEOREM SessionRecoveryBounded == SessionSpec => []RecoveryBounded
<1>1. SessionLoopInv => RecoveryBounded
    BY RecoveryIsBounded DEF SessionLoopInv, StoreInv
<1> QED BY <1>1, SessionLoopInvInit, SessionLoopInvStep, PTL DEF SessionSpec
=============================================================================
