------------------------- MODULE SessionManagerProofs -------------------------
(***************************************************************************)
(* Proofs for SessionManager: what the file holds, what the indexes say    *)
(* and what is read back, for any number of entries and any faults.        *)
(***************************************************************************)
EXTENDS SessionManager, SeqFilterProofs

-----------------------------------------------------------------------------
(***************************************************************************)
(* Entries in the order of their ids.  Selected(p, s): p is s without some *)
(* of its elements.                                                        *)
(***************************************************************************)
Entries == [id : Nat, parent : Nat, type : Types \cup {"session"}, target : Nat]

Increasing(s) == \A i, j \in 1..Len(s) : i < j => s[i].id < s[j].id

Below(s, n) == \A i \in 1..Len(s) : s[i].id < n

Selected(p, s) == p = Keep(s, Range(p))

LEMMA IncreasingAppend ==
    ASSUME NEW s \in Seq(Entries), NEW x \in Entries
    PROVE  Increasing(Append(s, x)) <=> Increasing(s) /\ Below(s, x.id)
<1> DEFINE t == Append(s, x)
<1>1. /\ Len(t) = Len(s) + 1 /\ t[Len(s) + 1] = x /\ Len(s) \in Nat
      /\ \A i \in 1..Len(s) : t[i] = s[i]
    BY AppendProperties, LenProperties
<1> HIDE DEF t
<1>2. Increasing(t) => Increasing(s) /\ Below(s, x.id)
    BY <1>1 DEF Increasing, Below
<1>3. ASSUME Increasing(s), Below(s, x.id) PROVE Increasing(t)
  <2> SUFFICES ASSUME NEW i \in 1..Len(t), NEW j \in 1..Len(t), i < j
               PROVE  t[i].id < t[j].id
    BY DEF Increasing
  <2>1. i \in 1..Len(s) /\ (j \in 1..Len(s) \/ j = Len(s) + 1)
    BY <1>1
  <2> QED BY <2>1, <1>1, <1>3 DEF Increasing, Below
<1> QED BY <1>2, <1>3 DEF t

LEMMA BelowRange ==
    ASSUME NEW s \in Seq(Entries), NEW n
    PROVE  Below(s, n) <=> \A e \in Range(s) : e.id < n
BY DEF Below, Range

\* Selecting keeps the order.
LEMMA KeepIncreasing ==
    ASSUME NEW S
    PROVE  \A s \in Seq(Entries) : Increasing(s) => Increasing(Keep(s, S))
<1> DEFINE T == {s \in Seq(Entries) : Increasing(s) => Increasing(Keep(s, S))}
<1>1. <<>> \in T
    BY KeepEmpty DEF Increasing
<1>2. ASSUME NEW s \in Seq(Entries), NEW x \in Entries, s \in T PROVE Append(s, x) \in T
  <2> SUFFICES ASSUME Increasing(Append(s, x)) PROVE Increasing(Keep(Append(s, x), S))
    OBVIOUS
  <2>1. Increasing(s) /\ Below(s, x.id)
    BY IncreasingAppend
  <2>2. Keep(s, S) \in Seq(Entries) /\ Range(Keep(s, S)) \subseteq Range(s)
    BY KeepType, KeepSelects
  <2>3. Increasing(Keep(s, S)) /\ Below(Keep(s, S), x.id)
    BY <1>2, <2>1, <2>2, BelowRange
  <2>4. Increasing(Append(Keep(s, S), x))
    BY <2>2, <2>3, IncreasingAppend
  <2>5. Keep(Append(s, x), S) = IF x \in S THEN Append(Keep(s, S), x) ELSE Keep(s, S)
    BY KeepAppend
  <2> QED BY <2>3, <2>4, <2>5
<1> HIDE DEF T
<1>3. \A s \in Seq(Entries) : s \in T
    BY <1>1, <1>2, InductionOnSeq
<1> QED BY <1>3 DEF T

LEMMA IncreasingConcat ==
    ASSUME NEW s \in Seq(Entries), NEW t \in Seq(Entries)
    PROVE  Increasing(s \o t)
             <=> /\ Increasing(s) /\ Increasing(t)
                 /\ \A d \in Range(s), e \in Range(t) : d.id < e.id
<1> DEFINE u == s \o t
<1>1. /\ u \in Seq(Entries) /\ Len(u) = Len(s) + Len(t)
      /\ Len(s) \in Nat /\ Len(t) \in Nat
      /\ \A i \in 1..Len(s) : u[i] = s[i]
      /\ \A i \in 1..Len(t) : u[Len(s) + i] = t[i]
    BY ConcatProperties, LenProperties
<1> HIDE DEF u
<1>2. ASSUME Increasing(u) PROVE Increasing(s) /\ Increasing(t)
  <2>1. Increasing(s)
    BY <1>1, <1>2 DEF Increasing
  <2>2. ASSUME NEW i \in 1..Len(t), NEW j \in 1..Len(t), i < j PROVE t[i].id < t[j].id
    <3>1. /\ Len(s) + i \in 1..Len(u) /\ Len(s) + j \in 1..Len(u)
          /\ Len(s) + i < Len(s) + j
        BY <1>1, <2>2
    <3>2. u[Len(s) + i].id < u[Len(s) + j].id
        BY <3>1, <1>2 DEF Increasing
    <3> QED BY <3>2, <1>1
  <2> QED BY <2>1, <2>2 DEF Increasing
<1>3. ASSUME Increasing(u), NEW d \in Range(s), NEW e \in Range(t) PROVE d.id < e.id
  <2>1. PICK i \in 1..Len(s) : s[i] = d
    BY DEF Range
  <2>2. PICK j \in 1..Len(t) : t[j] = e
    BY DEF Range
  <2>3. i \in 1..Len(u) /\ Len(s) + j \in 1..Len(u) /\ i < Len(s) + j
    BY <1>1
  <2>4. u[i].id < u[Len(s) + j].id
    BY <2>3, <1>3 DEF Increasing
  <2> QED BY <2>1, <2>2, <2>4, <1>1
<1>4. ASSUME Increasing(s), Increasing(t), \A d \in Range(s), e \in Range(t) : d.id < e.id
      PROVE  Increasing(u)
  <2> SUFFICES ASSUME NEW i \in 1..Len(u), NEW j \in 1..Len(u), i < j
               PROVE  u[i].id < u[j].id
    BY DEF Increasing
  <2>1. CASE j <= Len(s)
    <3>1. i \in 1..Len(s) /\ j \in 1..Len(s)
        BY <2>1, <1>1
    <3>2. u[i] = s[i] /\ u[j] = s[j]
        BY <3>1, <1>1
    <3> QED BY <3>1, <3>2, <1>4 DEF Increasing
  <2>2. CASE i > Len(s)
    <3>1. i - Len(s) \in 1..Len(t) /\ j - Len(s) \in 1..Len(t) /\ i - Len(s) < j - Len(s)
        BY <2>2, <1>1
    <3>2. Len(s) + (i - Len(s)) = i /\ Len(s) + (j - Len(s)) = j
        BY <1>1
    <3>3. u[Len(s) + (i - Len(s))] = t[i - Len(s)] /\ u[Len(s) + (j - Len(s))] = t[j - Len(s)]
        BY <3>1, <1>1
    <3> QED BY <3>1, <3>2, <3>3, <1>4 DEF Increasing
  <2>3. CASE i <= Len(s) /\ j > Len(s)
    <3>1. i \in 1..Len(s) /\ j - Len(s) \in 1..Len(t)
        BY <2>3, <1>1
    <3>2. u[i] = s[i] /\ u[Len(s) + (j - Len(s))] = t[j - Len(s)]
        BY <3>1, <1>1
    <3>4. Len(s) + (j - Len(s)) = j
        BY <1>1
    <3>3. s[i] \in Range(s) /\ t[j - Len(s)] \in Range(t)
        BY <3>1 DEF Range
    <3> QED BY <3>2, <3>3, <3>4, <1>4
  <2> QED BY <2>1, <2>2, <2>3, <1>1
<1> QED BY <1>2, <1>3, <1>4 DEF u
\* A part of a sequence in order is a selection of it, and what is selected
\* from a selection is selected from the whole.
LEMMA SelectedPart ==
    ASSUME NEW p \in Seq(Entries), NEW q \in Seq(Entries), NEW r \in Seq(Entries),
           Increasing(p \o (q \o r))
    PROVE  Selected(q, p \o (q \o r))
<1> DEFINE R == Range(q)
<1>1. q \o r \in Seq(Entries) /\ Range(q \o r) = Range(q) \cup Range(r)
    BY RangeOfConcat
<1>2. /\ Increasing(q \o r)
      /\ \A d \in Range(p), e \in Range(q \o r) : d.id < e.id
    BY <1>1, IncreasingConcat
<1>3. \A d \in Range(q), e \in Range(r) : d.id < e.id
    BY <1>2, IncreasingConcat
<1>4. /\ Range(p) \subseteq Entries /\ Range(q) \subseteq Entries
      /\ Range(r) \subseteq Entries
    BY DEF Range
<1>5. Range(p) \cap R = {} /\ Range(r) \cap R = {}
    BY <1>1, <1>2, <1>3, <1>4 DEF Entries
<1> HIDE DEF R
<1>6. Keep(p, R) = <<>> /\ Keep(r, R) = <<>>
    BY <1>5, KeepSelects
<1>7. Keep(q, R) = q
    BY KeepSelects DEF R
<1>8. Keep(q \o r, R) = q
  <2>1. Keep(q \o r, R) = Keep(q, R) \o Keep(r, R)
    BY KeepConcat
  <2> QED BY <2>1, <1>6, <1>7, ConcatEmptySeq
<1>9. Keep(p \o (q \o r), R) = q
  <2> DEFINE v == q \o r
  <2> HIDE DEF v
  <2>1. Keep(p \o v, R) = Keep(p, R) \o Keep(v, R)
    BY <1>1, KeepConcat DEF v
  <2> QED BY <2>1, <1>6, <1>8, ConcatEmptySeq DEF v
<1> QED BY <1>9 DEF Selected, R

LEMMA SelectedTwice ==
    ASSUME NEW s \in Seq(Entries), NEW q \in Seq(Entries), NEW p \in Seq(Entries),
           Selected(p, q), Selected(q, s)
    PROVE  Selected(p, s)
<1>1. p = Keep(q, Range(p)) /\ q = Keep(s, Range(q))
    BY DEF Selected
<1>2. Range(p) \subseteq Range(q)
    BY <1>1, KeepSelects
<1>3. Keep(Keep(s, Range(q)), Range(p)) = Keep(s, Range(q) \cap Range(p))
    BY KeepTwice
<1>4. Range(q) \cap Range(p) = Range(p)
    BY <1>2
<1> QED BY <1>1, <1>3, <1>4 DEF Selected

LEMMA SelectedParts ==
    ASSUME NEW s \in Seq(Entries), NEW a \in Seq(Entries), NEW b \in Seq(Entries),
           Increasing(s), Selected(a \o b, s)
    PROVE  Selected(a, s) /\ Selected(b, s)
<1>1. a \o b \in Seq(Entries)
    OBVIOUS
<1>2. Increasing(a \o b)
    BY KeepIncreasing DEF Selected
<1>3. Selected(a, a \o b)
  <2>1. <<>> \o (a \o b) = a \o b /\ <<>> \in Seq(Entries)
    OBVIOUS
  <2> QED BY <2>1, <1>2, SelectedPart
<1>4. Selected(b, a \o b)
  <2>1. a \o (b \o <<>>) = a \o b /\ <<>> \in Seq(Entries)
    OBVIOUS
  <2> QED BY <2>1, <1>2, SelectedPart
<1> QED BY <1>1, <1>3, <1>4, SelectedTwice

\* A sequence is a selection of itself; so is an initial part, and nothing.
LEMMA SelectedSelf ==
    ASSUME NEW s \in Seq(Entries)
    PROVE  Selected(s, s) /\ Selected(<<>>, s)
<1>1. Selected(s, s)
    BY KeepSelects DEF Selected
<1>2. Range(<<>>) = {}
    BY DEF Range
<1>3. Keep(s, {}) = <<>>
    BY KeepSelects
<1> QED BY <1>1, <1>2, <1>3 DEF Selected

LEMMA SelectedPrefix ==
    ASSUME NEW s \in Seq(Entries), NEW k \in 0..Len(s), Increasing(s)
    PROVE  Selected(SubSeq(s, 1, k), s)
<1> DEFINE a == SubSeq(s, 1, k)
           b == SubSeq(s, k + 1, Len(s))
<1>1. a \in Seq(Entries) /\ b \in Seq(Entries)
    OBVIOUS
<1>2. a \o b = s
  <2>1. 1 \in 1..(Len(s) + 1) /\ k \in (1 - 1)..Len(s) /\ Len(s) \in k..Len(s)
    BY LenProperties
  <2>2. a \o b = SubSeq(s, 1, Len(s))
    BY <2>1, ConcatAdjacentSubSeq
  <2> QED BY <2>2, SubSeqFull
<1> HIDE DEF a, b
<1>3. Selected(a \o b, s)
    BY <1>2, SelectedSelf
<1> QED BY <1>1, <1>3, SelectedParts DEF a

\* Selections of two sequences one behind the other.
LEMMA SelectedConcat ==
    ASSUME NEW s \in Seq(Entries), NEW t \in Seq(Entries), Increasing(s \o t),
           NEW p \in Seq(Entries), NEW q \in Seq(Entries), Selected(p, s), Selected(q, t)
    PROVE  Selected(p \o q, s \o t)
<1> DEFINE R == Range(p \o q)
<1>1. R = Range(p) \cup Range(q)
    BY RangeOfConcat
<1>2. Range(p) \subseteq Range(s) /\ Range(q) \subseteq Range(t)
    BY KeepSelects DEF Selected
<1>3. Range(s) \subseteq Entries /\ Range(t) \subseteq Entries
    BY DEF Range
<1>4. Range(s) \cap Range(t) = {}
  <2>1. \A d \in Range(s), e \in Range(t) : d.id < e.id
    BY IncreasingConcat
  <2> QED BY <2>1, <1>3 DEF Entries
<1> HIDE DEF R
<1>5. Range(s) \cap R = Range(s) \cap Range(p) /\ Range(t) \cap R = Range(t) \cap Range(q)
    BY <1>1, <1>2, <1>4
<1>6. Keep(s, R) = Keep(s, Range(p)) /\ Keep(t, R) = Keep(t, Range(q))
  <2>1. Keep(s, R) = Keep(s, Range(p))
    BY <1>5, KeepSame
  <2>2. Keep(t, R) = Keep(t, Range(q))
    BY <1>5, KeepSame
  <2> QED BY <2>1, <2>2
<1>7. Keep(s \o t, R) = Keep(s, R) \o Keep(t, R)
    BY KeepConcat
<1> QED BY <1>6, <1>7 DEF Selected, R
-----------------------------------------------------------------------------
(***************************************************************************)
(* Lines of the file, and what they are parsed to.                         *)
(***************************************************************************)
FileLine == [json : Entries \cup {Garbage}, newline : BOOLEAN]

LEMMA GarbageIsNoEntry == Garbage \notin Entries
BY DEF Garbage, Entry, Entries, Types

LEMMA JsonsOf ==
    ASSUME NEW a \in Seq(FileLine)
    PROVE  /\ Jsons(a) \in Seq(Entries \cup {Garbage})
           /\ Len(Jsons(a)) = Len(a)
           /\ \A k \in 1..Len(a) : Jsons(a)[k] = a[k].json
<1>1. \A k \in 1..Len(a) : a[k].json \in Entries \cup {Garbage}
  <2>1. \A k \in 1..Len(a) : a[k] \in FileLine
    OBVIOUS
  <2> QED BY <2>1 DEF FileLine
<1>2. Len(a) \in Nat
    OBVIOUS
<1> QED BY <1>1, <1>2 DEF Jsons

\* Lines that do not parse are skipped.
LEMMA ParsedIs ==
    ASSUME NEW a \in Seq(FileLine)
    PROVE  Parsed(a) = Keep(Jsons(a), Entries) /\ Parsed(a) \in Seq(Entries)
<1> DEFINE j == Jsons(a)
<1>1. j \in Seq(Entries \cup {Garbage})
    BY JsonsOf
<1>2. Range(j) \subseteq Entries \cup {Garbage}
    BY <1>1 DEF Range
<1> HIDE DEF j
<1>3. Range(j) \cap (Range(j) \ {Garbage}) = Range(j) \cap Entries
    BY <1>2, GarbageIsNoEntry
<1>4. Keep(j, Range(j) \ {Garbage}) = Keep(j, Entries)
    BY <1>1, <1>3, KeepSame
<1>5. Keep(j, Entries) \in Seq(Entries \cup {Garbage})
    BY <1>1, KeepType
<1>6. Range(Keep(j, Entries)) \subseteq Entries
    BY <1>1, KeepSelects
<1>7. Keep(j, Entries) \in Seq(Entries)
  <2> DEFINE t == Keep(j, Entries)
  <2> HIDE DEF t
  <2>1. t \in Seq(Entries \cup {Garbage}) /\ \A k \in 1..Len(t) : t[k] \in Entries
    BY <1>5, <1>6 DEF Range, t
  <2>2. t \in Seq(Entries)
    BY <2>1
  <2> QED BY <2>2 DEF t
<1> QED BY <1>4, <1>7 DEF Parsed, j

LEMMA ParsedConcat ==
    ASSUME NEW a \in Seq(FileLine), NEW b \in Seq(FileLine)
    PROVE  Parsed(a \o b) = Parsed(a) \o Parsed(b)
<1>1. a \o b \in Seq(FileLine)
    OBVIOUS
<1>2. /\ Jsons(a) \in Seq(Entries \cup {Garbage})
      /\ Jsons(b) \in Seq(Entries \cup {Garbage})
      /\ Jsons(a \o b) \in Seq(Entries \cup {Garbage})
    BY <1>1, JsonsOf
<1>3. Jsons(a \o b) = Jsons(a) \o Jsons(b)
  <2> DEFINE c == a \o b
             j == Jsons(a)
             l == Jsons(b)
  <2>1. /\ Len(c) = Len(a) + Len(b)
        /\ Len(a) \in Nat /\ Len(b) \in Nat
        /\ \A k \in 1..(Len(a) + Len(b)) :
              c[k] = IF k <= Len(a) THEN a[k] ELSE b[k - Len(a)]
    BY ConcatProperties, LenProperties
  <2>2. /\ Len(j) = Len(a) /\ \A k \in 1..Len(a) : j[k] = a[k].json
        /\ Len(l) = Len(b) /\ \A k \in 1..Len(b) : l[k] = b[k].json
    BY JsonsOf
  <2> HIDE DEF c, j, l
  <2>3. /\ Len(Jsons(c)) = Len(c) /\ \A k \in 1..Len(c) : Jsons(c)[k] = c[k].json
    BY <1>1, JsonsOf DEF c
  <2>4. j \in Seq(Entries \cup {Garbage}) /\ l \in Seq(Entries \cup {Garbage})
    BY <1>2 DEF j, l
  <2>5. /\ Len(j \o l) = Len(a) + Len(b)
        /\ \A k \in 1..(Len(a) + Len(b)) :
              (j \o l)[k] = IF k <= Len(a) THEN j[k] ELSE l[k - Len(a)]
    <3>1. /\ Len(j \o l) = Len(j) + Len(l)
          /\ \A k \in 1..(Len(j) + Len(l)) :
                (j \o l)[k] = IF k <= Len(j) THEN j[k] ELSE l[k - Len(j)]
        BY <2>4, ConcatProperties
    <3> QED BY <3>1, <2>2
  <2>6. ASSUME NEW k \in 1..(Len(a) + Len(b)) PROVE Jsons(c)[k] = (j \o l)[k]
    <3>1. CASE k <= Len(a)
      <4>1. k \in 1..Len(a)
        BY <3>1, <2>1
      <4> QED BY <3>1, <4>1, <2>1, <2>2, <2>3, <2>5
    <3>2. CASE ~(k <= Len(a))
      <4>1. k - Len(a) \in 1..Len(b)
        BY <3>2, <2>1
      <4> QED BY <3>2, <4>1, <2>1, <2>2, <2>3, <2>5
    <3> QED BY <3>1, <3>2
  <2>7. Jsons(c) \in Seq(Entries \cup {Garbage}) /\ j \o l \in Seq(Entries \cup {Garbage})
    BY <1>2, <2>4 DEF c
  <2>8. Jsons(c) = j \o l
    BY <2>1, <2>3, <2>5, <2>6, <2>7, SeqEqual
  <2> QED BY <2>8 DEF c, j, l
<1>4. Keep(Jsons(a) \o Jsons(b), Entries) = Keep(Jsons(a), Entries) \o Keep(Jsons(b), Entries)
    BY <1>2, KeepConcat
<1> QED BY <1>1, <1>3, <1>4, ParsedIs

\* Whole lines are parsed to what was written.
LEMMA ParsedLines ==
    ASSUME NEW s \in Seq(Entries)
    PROVE  Lines(s) \in Seq(FileLine) /\ Len(Lines(s)) = Len(s) /\ Parsed(Lines(s)) = s
<1>1. Lines(s) \in Seq(FileLine) /\ Len(Lines(s)) = Len(s)
    BY DEF Lines, Line, FileLine
<1>2. \A k \in 1..Len(s) : Lines(s)[k].json = s[k]
    BY DEF Lines, Line
<1>3. Jsons(Lines(s)) = s
    BY <1>1, <1>2, JsonsOf, SeqEqual
<1>4. Range(s) \subseteq Entries
    BY DEF Range
<1>5. Keep(s, Entries) = s
    BY <1>4, KeepSelects
<1> QED BY <1>1, <1>3, <1>5, ParsedIs

LEMMA ParsedOne ==
    ASSUME NEW l \in FileLine
    PROVE  Parsed(<<l>>) = IF l.json = Garbage THEN <<>> ELSE <<l.json>>
<1>1. <<l>> \in Seq(FileLine) /\ Jsons(<<l>>) = <<l.json>>
    BY DEF Jsons
<1>2. l.json \in Entries \cup {Garbage}
    BY DEF FileLine
<1>3. Append(<<>>, l.json) = <<l.json>> /\ <<>> \in Seq(Entries \cup {Garbage})
    OBVIOUS
<1>4. Keep(Append(<<>>, l.json), Entries)
          = IF l.json \in Entries THEN Append(Keep(<<>>, Entries), l.json)
            ELSE Keep(<<>>, Entries)
    BY <1>2, <1>3, KeepAppend
<1>5. Keep(<<>>, Entries) = <<>>
    BY KeepEmpty
<1>6. l.json \in Entries <=> l.json # Garbage
    BY <1>2, GarbageIsNoEntry
<1>7. Parsed(<<l>>) = Keep(<<l.json>>, Entries)
    BY <1>1, ParsedIs
<1> QED BY <1>3, <1>4, <1>5, <1>6, <1>7
LEMMA LinesPrefix ==
    ASSUME NEW s \in Seq(Entries), NEW k \in 0..Len(s)
    PROVE  SubSeq(Lines(s), 1, k) = Lines(SubSeq(s, 1, k))
<1>1. Lines(s) \in Seq(FileLine) /\ Len(Lines(s)) = Len(s)
    BY ParsedLines
<1>2. SubSeq(s, 1, k) \in Seq(Entries) /\ Len(SubSeq(s, 1, k)) = k
    OBVIOUS
<1>3. \A i \in 1..k : SubSeq(s, 1, k)[i] = s[i]
    OBVIOUS
<1>4. Lines(SubSeq(s, 1, k)) = [i \in 1..k |-> Line(s[i], TRUE)]
    BY <1>2, <1>3 DEF Lines
<1>5. SubSeq(Lines(s), 1, k) = [i \in 1..k |-> Line(s[i], TRUE)]
  <2>1. SubSeq(Lines(s), 1, k) = [i \in 1..k |-> Lines(s)[i]]
    BY <1>1
  <2>2. \A i \in 1..k : i \in 1..Len(s)
    BY LenProperties
  <2>3. \A i \in 1..k : Lines(s)[i] = Line(s[i], TRUE)
    BY <2>2 DEF Lines
  <2> QED BY <2>1, <2>3
<1> QED BY <1>4, <1>5

\* Lines that were written whole end in a newline.
LEMMA LinesAreWhole ==
    ASSUME NEW s \in Seq(Entries)
    PROVE  ~Unterminated(Lines(s))
<1>1. Lines(s) \in Seq(FileLine) /\ Len(Lines(s)) = Len(s) /\ Len(s) \in Nat
    BY ParsedLines
<1>2. \A k \in 1..Len(s) : Lines(s)[k].newline
    BY DEF Lines, Line
<1>3. Lines(s) # <<>> => Len(s) \in 1..Len(s)
    BY <1>1, EmptySeq
<1> QED BY <1>1, <1>2, <1>3 DEF Unterminated, Last

\* Whatever is left of a write of s parses to the first entries of s, one at
\* least if there is a whole line.
LEMMA PartialWrite ==
    ASSUME NEW s \in Seq(Entries), Increasing(s),
           NEW part \in {<<>>, Lines(s)} \cup WholeLines(Lines(s)) \cup CutOff(Lines(s))
    PROVE  /\ part \in Seq(FileLine) /\ Selected(Parsed(part), s)
           /\ Parsed(part) # <<>> => s # <<>> /\ Parsed(part)[1] = s[1]
           /\ part # <<>> /\ ~Unterminated(part) => Parsed(part) # <<>>
<1>1. Len(Lines(s)) = Len(s) /\ Len(s) \in Nat
    BY ParsedLines
<1>a. \A k \in 0..Len(s) : SubSeq(s, 1, k) # <<>> => s # <<>> /\ SubSeq(s, 1, k)[1] = s[1]
  <2> SUFFICES ASSUME NEW k \in 0..Len(s), SubSeq(s, 1, k) # <<>>
               PROVE  s # <<>> /\ SubSeq(s, 1, k)[1] = s[1]
    OBVIOUS
  <2>1. k # 0
    BY SubSeqEmpty
  <2>2. 1 \in 1..k /\ 1 \in 1..Len(s)
    BY <2>1, <1>1
  <2> QED BY <2>2
<1>3. ASSUME NEW k \in 0..Len(s), part = SubSeq(Lines(s), 1, k)
      PROVE  /\ part \in Seq(FileLine) /\ Selected(Parsed(part), s)
             /\ Parsed(part) # <<>> => s # <<>> /\ Parsed(part)[1] = s[1]
             /\ part # <<>> => Parsed(part) # <<>>
  <2>1. SubSeq(s, 1, k) \in Seq(Entries) /\ Len(SubSeq(s, 1, k)) = k
    OBVIOUS
  <2>2. part \in Seq(FileLine) /\ Parsed(part) = SubSeq(s, 1, k) /\ Len(part) = k
    BY <1>3, <2>1, LinesPrefix, ParsedLines
  <2>3. part # <<>> => Parsed(part) # <<>>
    BY <2>1, <2>2, EmptySeq
  <2> QED BY <2>2, <2>3, <1>a, SelectedPrefix
<1>2. CASE part = Lines(s)
  <2>1. Lines(s) = SubSeq(Lines(s), 1, Len(s)) /\ Len(s) \in 0..Len(s)
    BY <1>1, ParsedLines, SubSeqFull
  <2> QED BY <2>1, <1>2, <1>3
<1>4. CASE part = <<>>
  <2>1. SubSeq(Lines(s), 1, 0) = <<>>
    BY SubSeqEmpty
  <2> QED BY <2>1, <1>1, <1>3, <1>4
<1>5. CASE part \in WholeLines(Lines(s))
    BY <1>1, <1>3, <1>5 DEF WholeLines
<1>6. CASE part \in CutOff(Lines(s))
  <2>1. PICK k \in 0..(Len(s) - 1) : \E json \in {Garbage, Lines(s)[k + 1].json} :
            part = Append(SubSeq(Lines(s), 1, k), Line(json, FALSE))
    BY <1>1, <1>6 DEF CutOff
  <2>14. PICK json \in {Garbage, Lines(s)[k + 1].json} :
            part = Append(SubSeq(Lines(s), 1, k), Line(json, FALSE))
    BY <2>1
  <2>2. k \in 0..Len(s) /\ k + 1 \in 1..Len(s)
    BY <1>1
  <2> DEFINE q == SubSeq(s, 1, k)
             l == Line(json, FALSE)
  <2>3. q \in Seq(Entries) /\ Len(q) = k /\ s[k + 1] \in Entries
    BY <2>2
  <2>4. Lines(s)[k + 1].json = s[k + 1]
    BY <2>2 DEF Lines, Line
  <2>5. l \in FileLine /\ l.json = json
    BY <2>1, <2>3, <2>4 DEF FileLine, Line
  <2>6. SubSeq(Lines(s), 1, k) = Lines(q)
    BY <2>2, LinesPrefix
  <2>7. SubSeq(s, 1, k + 1) = Append(q, s[k + 1])
    BY <2>2
  <2> HIDE DEF q, l
  <2>8. Lines(q) \in Seq(FileLine) /\ Parsed(Lines(q)) = q
    BY <2>3, ParsedLines
  <2>9. part = Lines(q) \o <<l>> /\ <<l>> \in Seq(FileLine)
    <3>1. part = Append(Lines(q), l)
        BY <2>14, <2>6 DEF l
    <3> QED BY <3>1, <2>5, <2>8, AppendIsConcat
  <2>10. part \in Seq(FileLine)
    BY <2>8, <2>9, ConcatProperties
  <2>11. Parsed(part) = q \o Parsed(<<l>>)
    BY <2>8, <2>9, ParsedConcat
  <2>15. Unterminated(part)
    <3>1. l.newline = FALSE
        BY DEF l, Line
    <3>2. Len(part) = Len(Lines(q)) + 1 /\ part[Len(Lines(q)) + 1] = l
        BY <2>5, <2>8, <2>9
    <3>3. Len(Lines(q)) \in Nat
        BY <2>8, LenProperties
    <3> QED BY <3>1, <3>2, <3>3, <2>10, EmptySeq DEF Unterminated, Last
  <2>12. CASE json = Garbage
    <3>1. Parsed(<<l>>) = <<>>
        BY <2>5, <2>12, ParsedOne
    <3>2. Parsed(part) = q
        BY <3>1, <2>3, <2>11, ConcatEmptySeq
    <3> QED BY <3>2, <2>2, <2>10, <2>15, <1>a, SelectedPrefix DEF q
  <2>13. CASE json # Garbage
    <3>1. json = s[k + 1]
        BY <2>14, <2>4, <2>13
    <3>4. Parsed(<<l>>) = <<s[k + 1]>>
        BY <3>1, <2>5, <2>13, ParsedOne
    <3>2. Parsed(part) = SubSeq(s, 1, k + 1)
        BY <3>4, <2>3, <2>7, <2>11, AppendIsConcat
    <3>3. k + 1 \in 0..Len(s)
        BY <2>2
    <3> QED BY <3>2, <3>3, <2>10, <2>15, <1>a, SelectedPrefix
  <2> QED BY <2>12, <2>13
<1> QED BY <1>2, <1>4, <1>5, <1>6

\* An append after a line that was cut off loses that line and its own first.
LEMMA ExtendSelected ==
    ASSUME NEW s \in Seq(Entries), NEW new \in Seq(Entries), Increasing(s \o new),
           NEW lines \in Seq(FileLine), Selected(Parsed(lines), s),
           NEW chunk \in Seq(FileLine), Selected(Parsed(chunk), new)
    PROVE  /\ Extend(lines, chunk) \in Seq(FileLine)
           /\ Selected(Parsed(Extend(lines, chunk)), s \o new)
<1>1. Increasing(s) /\ Increasing(new)
    BY IncreasingConcat
<1>2. CASE lines # <<>> /\ chunk # <<>> /\ ~Last(lines).newline
  <2> DEFINE f == SubSeq(lines, 1, Len(lines) - 1)
             t == Tail(chunk)
             g == Line(Garbage, Head(chunk).newline)
             x == lines[Len(lines)]
             h == Head(chunk)
  <2>1. f \in Seq(FileLine) /\ x \in FileLine /\ lines = f \o <<x>>
    <3>1. Len(lines) \in Nat \ {0}
        BY <1>2, EmptySeq
    <3> QED BY <3>1
  <2>2. t \in Seq(FileLine) /\ h \in FileLine /\ chunk = <<h>> \o t
    BY <1>2
  <2>3. g \in FileLine /\ g.json = Garbage
    BY <2>2 DEF FileLine, Line
  <2>4. Extend(lines, chunk) = f \o <<g>> \o t
    BY <1>2 DEF Extend, Front
  <2> HIDE DEF f, t, g, x, h
  <2>5. /\ <<x>> \in Seq(FileLine) /\ <<h>> \in Seq(FileLine) /\ <<g>> \in Seq(FileLine)
        /\ f \o <<g>> \in Seq(FileLine) /\ f \o <<g>> \o t \in Seq(FileLine)
    BY <2>1, <2>2, <2>3
  <2>6. /\ Parsed(lines) = Parsed(f) \o Parsed(<<x>>)
        /\ Parsed(chunk) = Parsed(<<h>>) \o Parsed(t)
        /\ Parsed(f \o <<g>>) = Parsed(f) \o Parsed(<<g>>)
        /\ Parsed(f \o <<g>> \o t) = Parsed(f \o <<g>>) \o Parsed(t)
    BY <2>1, <2>2, <2>5, ParsedConcat
  <2>7. /\ Parsed(f) \in Seq(Entries) /\ Parsed(<<x>>) \in Seq(Entries)
        /\ Parsed(<<h>>) \in Seq(Entries) /\ Parsed(t) \in Seq(Entries)
    BY <2>1, <2>2, <2>5, ParsedIs
  <2>8. Parsed(<<g>>) = <<>>
    BY <2>3, ParsedOne
  <2>9. Selected(Parsed(f), s)
    BY <1>1, <2>6, <2>7, SelectedParts
  <2>10. Selected(Parsed(t), new)
    BY <1>1, <2>6, <2>7, SelectedParts
  <2>11. Parsed(f \o <<g>> \o t) = Parsed(f) \o Parsed(t)
    BY <2>6, <2>7, <2>8, ConcatEmptySeq
  <2> QED BY <2>4, <2>5, <2>7, <2>9, <2>10, <2>11, SelectedConcat
<1>3. CASE ~(lines # <<>> /\ chunk # <<>> /\ ~Last(lines).newline)
  <2>1. Extend(lines, chunk) = lines \o chunk /\ lines \o chunk \in Seq(FileLine)
    BY <1>3 DEF Extend
  <2>2. Parsed(lines) \in Seq(Entries) /\ Parsed(chunk) \in Seq(Entries)
    BY ParsedIs
  <2>3. Parsed(lines \o chunk) = Parsed(lines) \o Parsed(chunk)
    BY ParsedConcat
  <2> QED BY <2>1, <2>2, <2>3, SelectedConcat
<1> QED BY <1>2, <1>3
-----------------------------------------------------------------------------
(***************************************************************************)
(* The index of labels.                                                    *)
(***************************************************************************)
IsIndexed(s, n, f) ==
    f[0] = <<>> /\ \A k \in 1..n : f[k] = ApplyLabel(f[k - 1], s[k])

LEMMA ApplyLabelType ==
    ASSUME NEW labels \in Seq(Nat), NEW e \in Entries
    PROVE  /\ ApplyLabel(labels, e) \in Seq(Nat)
           /\ ~IsLabel(e) => ApplyLabel(labels, e) = labels
           /\ e.type = "label" => Range(ApplyLabel(labels, e)) = Range(labels) \cup {e.target}
<1>1. e.target \in Nat
    BY DEF Entries
<1>2. WithLabel(labels, e.target) \in Seq(Nat)
    BY <1>1 DEF WithLabel
<1>3. WithoutLabel(labels, e.target) \in Seq(Nat)
    BY KeepType DEF WithoutLabel
<1>4. Range(WithLabel(labels, e.target)) = Range(labels) \cup {e.target}
  <2>1. Range(Append(labels, e.target)) = Range(labels) \cup {e.target}
    BY <1>1, RangeOfAppend
  <2> QED BY <2>1 DEF WithLabel
<1>5. CASE e.type = "label"
    BY <1>2, <1>4, <1>5 DEF ApplyLabel, IsLabel
<1>6. CASE e.type = "unlabel"
    BY <1>3, <1>6 DEF ApplyLabel, IsLabel
<1>7. CASE ~IsLabel(e)
    BY <1>7 DEF ApplyLabel, IsLabel
<1> QED BY <1>5, <1>6, <1>7 DEF IsLabel

LEMMA IndexedExists ==
    ASSUME NEW s \in Seq(Entries)
    PROVE  \E f \in [0..Len(s) -> Seq(Nat)] : IsIndexed(s, Len(s), f)
<1> DEFINE T == {n \in Nat : n <= Len(s) =>
                    \E f \in [0..n -> Seq(Nat)] : IsIndexed(s, n, f)}
<1>1. 0 \in T
  <2>1. [k \in 0..0 |-> <<>>] \in [0..0 -> Seq(Nat)]
    OBVIOUS
  <2>2. IsIndexed(s, 0, [k \in 0..0 |-> <<>>])
    BY DEF IsIndexed
  <2> QED BY <2>1, <2>2
<1>2. ASSUME NEW n \in Nat, n \in T PROVE n + 1 \in T
  <2> SUFFICES ASSUME n + 1 <= Len(s)
               PROVE  \E f \in [0..(n + 1) -> Seq(Nat)] : IsIndexed(s, n + 1, f)
    OBVIOUS
  <2>1. PICK f \in [0..n -> Seq(Nat)] : IsIndexed(s, n, f)
    BY <1>2
  <2> DEFINE x == ApplyLabel(f[n], s[n + 1])
             g == [k \in 0..(n + 1) |-> IF k = n + 1 THEN x ELSE f[k]]
  <2>2. x \in Seq(Nat)
    <3>1. s[n + 1] \in Entries /\ f[n] \in Seq(Nat)
        BY <2>1
    <3> QED BY <3>1, ApplyLabelType
  <2>3. g \in [0..(n + 1) -> Seq(Nat)]
    <3> HIDE DEF x
    <3> QED BY <2>2
  <2>4. g[0] = <<>>
    BY <2>1 DEF IsIndexed
  <2>5. ASSUME NEW k \in 1..(n + 1) PROVE g[k] = ApplyLabel(g[k - 1], s[k])
    <3>1. CASE k = n + 1
      <4>1. g[n + 1] = x /\ g[n] = f[n] /\ k - 1 = n
        BY <3>1
      <4> QED BY <3>1, <4>1
    <3>2. CASE k # n + 1
      <4>1. k \in 1..n /\ g[k] = f[k] /\ g[k - 1] = f[k - 1]
        BY <3>2
      <4> HIDE DEF g
      <4> QED BY <4>1, <2>1 DEF IsIndexed
    <3> QED BY <3>1, <3>2
  <2> HIDE DEF g
  <2> QED BY <2>3, <2>4, <2>5 DEF IsIndexed
<1> HIDE DEF T
<1>3. Len(s) \in T
    BY <1>1, <1>2, InductionOnNat, LenProperties
<1> QED BY <1>3, LenProperties DEF T

LEMMA IndexedIs ==
    ASSUME NEW s \in Seq(Entries)
    PROVE  \E f \in [0..Len(s) -> Seq(Nat)] :
              IsIndexed(s, Len(s), f) /\ LabelIndex(s) = f[Len(s)]
<1> DEFINE labels[k \in 0..Len(s)] ==
                IF k = 0 THEN <<>> ELSE ApplyLabel(labels[k - 1], s[k])
<1>1. LabelIndex(s) = labels[Len(s)]
    BY DEF LabelIndex
<1>2. PICK f \in [0..Len(s) -> Seq(Nat)] : IsIndexed(s, Len(s), f)
    BY IndexedExists
<1>3. f = [k \in 0..Len(s) |-> IF k = 0 THEN <<>> ELSE ApplyLabel(f[k - 1], s[k])]
  <2>1. f = [k \in 0..Len(s) |-> f[k]]
    OBVIOUS
  <2>2. \A k \in 0..Len(s) :
            f[k] = IF k = 0 THEN <<>> ELSE ApplyLabel(f[k - 1], s[k])
    <3>1. \A k \in 0..Len(s) : k # 0 => k \in 1..Len(s)
        BY LenProperties
    <3> QED BY <1>2, <3>1 DEF IsIndexed
  <2> QED BY <2>1, <2>2, Zenon
<1>4. labels = [k \in 0..Len(s) |->
                   IF k = 0 THEN <<>> ELSE ApplyLabel(labels[k - 1], s[k])]
    BY <1>3
<1> HIDE DEF labels
<1> DEFINE T == {n \in Nat : n <= Len(s) => labels[n] = f[n]}
<1>5. Len(s) \in Nat
    BY LenProperties
<1>6. 0 \in T
    BY <1>4, <1>3, <1>5
<1>7. ASSUME NEW n \in Nat, n \in T PROVE n + 1 \in T
  <2> SUFFICES ASSUME n + 1 <= Len(s) PROVE labels[n + 1] = f[n + 1]
    OBVIOUS
  <2>1. labels[n] = f[n] /\ n + 1 \in 0..Len(s) /\ n + 1 # 0 /\ (n + 1) - 1 = n
    BY <1>7, <1>5
  <2>2. labels[n + 1] = ApplyLabel(labels[n], s[n + 1])
    BY <1>4, <2>1
  <2>3. f[n + 1] = ApplyLabel(f[n], s[n + 1])
    BY <1>3, <2>1
  <2> QED BY <2>1, <2>2, <2>3
<1>8. \A n \in Nat : n \in T
  <2> HIDE DEF T
  <2> QED BY <1>6, <1>7, InductionOnNat
<1>9. labels[Len(s)] = f[Len(s)]
    BY <1>8, <1>5
<1> QED BY <1>1, <1>2, <1>9

LEMMA LabelIndexEmpty == LabelIndex(<<>>) = <<>>
<1>1. <<>> \in Seq(Entries) /\ Len(<<>>) = 0
    OBVIOUS
<1>2. PICK f : IsIndexed(<<>>, 0, f) /\ LabelIndex(<<>>) = f[0]
    BY <1>1, IndexedIs
<1> QED BY <1>2 DEF IsIndexed

LEMMA LabelIndexType ==
    ASSUME NEW s \in Seq(Entries)
    PROVE  LabelIndex(s) \in Seq(Nat)
<1>1. PICK f \in [0..Len(s) -> Seq(Nat)] : LabelIndex(s) = f[Len(s)]
    BY IndexedIs
<1>2. Len(s) \in 0..Len(s)
    BY LenProperties
<1> QED BY <1>1, <1>2

\* The index kept up to date is the index computed anew.
LEMMA LabelIndexAppend ==
    ASSUME NEW s \in Seq(Entries), NEW x \in Entries
    PROVE  LabelIndex(Append(s, x)) = ApplyLabel(LabelIndex(s), x)
<1> DEFINE t == Append(s, x)
<1>1. t \in Seq(Entries) /\ Len(t) = Len(s) + 1 /\ t[Len(s) + 1] = x /\ Len(s) \in Nat
    BY AppendProperties, LenProperties
<1>2. \A k \in 1..Len(s) : t[k] = s[k]
    BY AppendProperties
<1> HIDE DEF t
<1>3. PICK f \in [0..Len(s) -> Seq(Nat)] :
          IsIndexed(s, Len(s), f) /\ LabelIndex(s) = f[Len(s)]
    BY IndexedIs
<1>4. PICK g \in [0..Len(t) -> Seq(Nat)] :
          IsIndexed(t, Len(t), g) /\ LabelIndex(t) = g[Len(t)]
    BY <1>1, IndexedIs
<1> DEFINE T == {n \in Nat : n <= Len(s) => g[n] = f[n]}
<1>5. 0 \in T
    BY <1>3, <1>4 DEF IsIndexed
<1>6. ASSUME NEW n \in Nat, n \in T PROVE n + 1 \in T
  <2> SUFFICES ASSUME n + 1 <= Len(s) PROVE g[n + 1] = f[n + 1]
    OBVIOUS
  <2>1. g[n] = f[n] /\ n + 1 \in 1..Len(s) /\ n + 1 \in 1..Len(t) /\ (n + 1) - 1 = n
    BY <1>6, <1>1
  <2>2. f[n + 1] = ApplyLabel(f[n], s[n + 1])
    BY <1>3, <2>1 DEF IsIndexed
  <2>3. g[n + 1] = ApplyLabel(g[n], t[n + 1])
    BY <1>4, <2>1 DEF IsIndexed
  <2> QED BY <2>1, <2>2, <2>3, <1>2
<1>7. \A n \in Nat : n \in T
  <2> HIDE DEF T
  <2> QED BY <1>5, <1>6, InductionOnNat
<1>8. g[Len(s)] = f[Len(s)]
  <2>1. Len(s) \in T
    BY <1>7, <1>1
  <2> QED BY <2>1, <1>1
<1>9. g[Len(t)] = ApplyLabel(g[Len(s)], x)
    BY <1>4, <1>1 DEF IsIndexed
<1> QED BY <1>3, <1>4, <1>8, <1>9 DEF t

LEMMA LabelIndexOfOthers ==
    ASSUME NEW s \in Seq(Entries), NEW t \in Seq(Entries), \A e \in Range(t) : ~IsLabel(e)
    PROVE  LabelIndex(s \o t) = LabelIndex(s)
<1> DEFINE T == {u \in Seq(Entries) : (\A e \in Range(u) : ~IsLabel(e))
                                         => LabelIndex(s \o u) = LabelIndex(s)}
<1>1. <<>> \in T
    BY ConcatEmptySeq
<1>2. ASSUME NEW u \in Seq(Entries), NEW x \in Entries, u \in T PROVE Append(u, x) \in T
  <2> SUFFICES ASSUME \A e \in Range(Append(u, x)) : ~IsLabel(e)
               PROVE  LabelIndex(s \o Append(u, x)) = LabelIndex(s)
    OBVIOUS
  <2>1. Range(Append(u, x)) = Range(u) \cup {x}
    BY RangeOfAppend
  <2>2. LabelIndex(s \o u) = LabelIndex(s)
    BY <1>2, <2>1
  <2> DEFINE v == s \o u
  <2>3. v \in Seq(Entries) /\ s \o Append(u, x) = Append(v, x)
    OBVIOUS
  <2> HIDE DEF v
  <2>4. LabelIndex(Append(v, x)) = ApplyLabel(LabelIndex(v), x)
    BY <2>3, LabelIndexAppend
  <2>5. ApplyLabel(LabelIndex(v), x) = LabelIndex(v)
    BY <2>1, <2>3, LabelIndexType, ApplyLabelType
  <2> QED BY <2>2, <2>3, <2>4, <2>5 DEF v
<1> HIDE DEF T
<1>3. t \in T
    BY <1>1, <1>2, InductionOnSeq
<1> QED BY <1>3 DEF T

LEMMA LabelIndexSets ==
    \A s \in Seq(Entries) :
        (\A e \in Range(s) : e.type # "unlabel")
            => Range(LabelIndex(s)) = {e.target : e \in {d \in Range(s) : d.type = "label"}}
<1> DEFINE Targets(s) == {e.target : e \in {d \in Range(s) : d.type = "label"}}
           T == {s \in Seq(Entries) : (\A e \in Range(s) : e.type # "unlabel")
                                         => Range(LabelIndex(s)) = Targets(s)}
<1>1. <<>> \in T
    BY LabelIndexEmpty DEF Range
<1>2. ASSUME NEW s \in Seq(Entries), NEW x \in Entries, s \in T PROVE Append(s, x) \in T
  <2> SUFFICES ASSUME \A e \in Range(Append(s, x)) : e.type # "unlabel"
               PROVE  Range(LabelIndex(Append(s, x))) = Targets(Append(s, x))
    OBVIOUS
  <2>1. Range(Append(s, x)) = Range(s) \cup {x}
    BY RangeOfAppend
  <2>2. Range(LabelIndex(s)) = Targets(s) /\ LabelIndex(s) \in Seq(Nat)
    BY <1>2, <2>1, LabelIndexType
  <2>3. LabelIndex(Append(s, x)) = ApplyLabel(LabelIndex(s), x)
    BY LabelIndexAppend
  <2>4. CASE x.type = "label"
    <3>1. Range(LabelIndex(Append(s, x))) = Range(LabelIndex(s)) \cup {x.target}
        BY <2>2, <2>3, <2>4, ApplyLabelType
    <3>2. Targets(Append(s, x)) = Targets(s) \cup {x.target}
        BY <2>1, <2>4
    <3> QED BY <3>1, <3>2, <2>2
  <2>5. CASE x.type # "label"
    <3>1. ~IsLabel(x)
        BY <2>1, <2>5 DEF IsLabel
    <3>2. LabelIndex(Append(s, x)) = LabelIndex(s)
        BY <3>1, <2>2, <2>3, ApplyLabelType
    <3>3. Targets(Append(s, x)) = Targets(s)
        BY <2>1, <2>5
    <3> QED BY <3>2, <3>3, <2>2
  <2> QED BY <2>4, <2>5
<1> HIDE DEF T
<1>3. \A s \in Seq(Entries) : s \in T
    BY <1>1, <1>2, InductionOnSeq
<1> QED BY <1>3 DEF T
-----------------------------------------------------------------------------
(***************************************************************************)
(* The path to an entry.                                                   *)
(***************************************************************************)
IsBranch(s, n, f) ==
    \A id \in 0..n : f[id] = IF id \notin IdsOf(s) \ {Null} THEN <<>>
                             ELSE Append(f[EntryWithId(s, id).parent], EntryWithId(s, id))

ParentsFirst(s) == \A e \in Range(s) : e.id # Null => e.parent < e.id

OnPath(s, id, path) ==
    /\ path \in Seq(Entries) /\ Increasing(path) /\ Below(path, id + 1)
    /\ \A e \in Range(path) : e \in Range(s) /\ e.id # Null

LEMMA EntryWithIdIs ==
    ASSUME NEW s \in Seq(Entries), ParentsFirst(s), NEW id \in IdsOf(s) \ {Null}
    PROVE  /\ EntryWithId(s, id) \in Range(s) /\ EntryWithId(s, id) \in Entries
           /\ EntryWithId(s, id).id = id
           /\ EntryWithId(s, id).parent \in 0..(id - 1)
<1>1. \E x \in Range(s) : x.id = id
    BY DEF IdsOf
<1>2. EntryWithId(s, id) \in Range(s) /\ EntryWithId(s, id).id = id
    BY <1>1 DEF EntryWithId
<1>3. Range(s) \subseteq Entries
    BY DEF Range
<1>4. EntryWithId(s, id).parent < id
    BY <1>2 DEF ParentsFirst
<1> QED BY <1>2, <1>3, <1>4 DEF Entries

LEMMA BranchExists ==
    ASSUME NEW s \in Seq(Entries), ParentsFirst(s), NEW m \in Nat
    PROVE  \E f \in [0..m -> Seq(Entries)] : IsBranch(s, m, f)
<1> DEFINE T == {n \in Nat : \E f \in [0..n -> Seq(Entries)] : IsBranch(s, n, f)}
<1>1. 0 \in T
  <2>1. [id \in 0..0 |-> <<>>] \in [0..0 -> Seq(Entries)]
    OBVIOUS
  <2>2. IsBranch(s, 0, [id \in 0..0 |-> <<>>])
    BY DEF IsBranch, Null
  <2> QED BY <2>1, <2>2
<1>2. ASSUME NEW n \in Nat, n \in T PROVE n + 1 \in T
  <2>1. PICK f \in [0..n -> Seq(Entries)] : IsBranch(s, n, f)
    BY <1>2
  <2> DEFINE e == EntryWithId(s, n + 1)
             x == IF n + 1 \notin IdsOf(s) \ {Null} THEN <<>> ELSE Append(f[e.parent], e)
             g == [id \in 0..(n + 1) |-> IF id = n + 1 THEN x ELSE f[id]]
  <2>2. x \in Seq(Entries)
    <3>1. CASE n + 1 \notin IdsOf(s) \ {Null}
        BY <3>1
    <3>2. CASE n + 1 \in IdsOf(s) \ {Null}
      <4>1. e \in Entries /\ e.parent \in 0..n
        BY <3>2, EntryWithIdIs
      <4> HIDE DEF e
      <4>2. f[e.parent] \in Seq(Entries)
        BY <4>1
      <4> QED BY <3>2, <4>1, <4>2
    <3> QED BY <3>1, <3>2
  <2>3. g \in [0..(n + 1) -> Seq(Entries)]
    <3> HIDE DEF x
    <3> QED BY <2>2
  <2>4. ASSUME NEW id \in 0..(n + 1), id \in IdsOf(s) \ {Null}
        PROVE  g[EntryWithId(s, id).parent] = f[EntryWithId(s, id).parent]
    <3>1. EntryWithId(s, id).parent \in 0..(id - 1)
        BY <2>4, EntryWithIdIs
    <3>2. EntryWithId(s, id).parent \in 0..n /\ EntryWithId(s, id).parent # n + 1
        BY <3>1
    <3> HIDE DEF x, e
    <3> QED BY <3>2
  <2>5. ASSUME NEW id \in 0..(n + 1)
        PROVE  g[id] = IF id \notin IdsOf(s) \ {Null} THEN <<>>
                       ELSE Append(g[EntryWithId(s, id).parent], EntryWithId(s, id))
    <3>1. CASE id = n + 1
      <4>1. g[n + 1] = x
        OBVIOUS
      <4> HIDE DEF g
      <4> QED BY <3>1, <4>1, <2>4
    <3>2. CASE id # n + 1
      <4>1. id \in 0..n /\ g[id] = f[id]
        BY <3>2
      <4> HIDE DEF g
      <4> QED BY <4>1, <2>1, <2>4 DEF IsBranch
    <3> QED BY <3>1, <3>2
  <2> HIDE DEF g
  <2>6. IsBranch(s, n + 1, g)
    BY <2>5 DEF IsBranch
  <2> QED BY <2>3, <2>6
<1> HIDE DEF T
<1>3. m \in T
    BY <1>1, <1>2, InductionOnNat
<1> QED BY <1>3 DEF T

\* getBranch ends, and gives entries of the session from the root on.
LEMMA BranchOnPath ==
    ASSUME NEW s \in Seq(Entries), ParentsFirst(s), NEW from \in 0..MaxId
    PROVE  OnPath(s, from, GetBranch(s, from))
<1> DEFINE branch[id \in 0..MaxId] ==
                IF id \notin IdsOf(s) \ {Null} THEN <<>>
                ELSE Append(branch[EntryWithId(s, id).parent], EntryWithId(s, id))
<1>1. GetBranch(s, from) = branch[from]
    BY DEF GetBranch
<1>2. PICK f \in [0..MaxId -> Seq(Entries)] : IsBranch(s, MaxId, f)
    BY BranchExists, MaxIdAssumption
<1>3. f = [id \in 0..MaxId |->
              IF id \notin IdsOf(s) \ {Null} THEN <<>>
              ELSE Append(f[EntryWithId(s, id).parent], EntryWithId(s, id))]
  <2>1. f = [id \in 0..MaxId |-> f[id]]
    OBVIOUS
  <2>2. \A id \in 0..MaxId :
            f[id] = IF id \notin IdsOf(s) \ {Null} THEN <<>>
                    ELSE Append(f[EntryWithId(s, id).parent], EntryWithId(s, id))
    BY <1>2 DEF IsBranch
  <2> QED BY <2>1, <2>2, Zenon
<1>4. branch = [id \in 0..MaxId |->
              IF id \notin IdsOf(s) \ {Null} THEN <<>>
              ELSE Append(branch[EntryWithId(s, id).parent], EntryWithId(s, id))]
    BY <1>3
<1> HIDE DEF branch
<1>5. \A id \in 0..MaxId :
          branch[id] = IF id \notin IdsOf(s) \ {Null} THEN <<>>
                       ELSE Append(branch[EntryWithId(s, id).parent], EntryWithId(s, id))
    BY <1>4
<1> DEFINE T == {n \in Nat : \A id \in 0..n : id <= MaxId => OnPath(s, id, branch[id])}
<1>6. ASSUME NEW id \in 0..MaxId, \A i \in 0..(id - 1) : OnPath(s, i, branch[i])
      PROVE  OnPath(s, id, branch[id])
  <2>1. CASE id \notin IdsOf(s) \ {Null}
    <3>1. branch[id] = <<>>
        BY <2>1, <1>5
    <3> QED BY <3>1 DEF OnPath, Increasing, Below, Range
  <2>2. CASE id \in IdsOf(s) \ {Null}
    <3> DEFINE e == EntryWithId(s, id)
               p == branch[e.parent]
    <3>1. e \in Range(s) /\ e \in Entries /\ e.id = id /\ e.parent \in 0..(id - 1)
        BY <2>2, EntryWithIdIs
    <3>2. branch[id] = Append(p, e)
        BY <2>2, <1>5
    <3> HIDE DEF e
    <3>3. OnPath(s, e.parent, p)
        BY <3>1, <1>6
    <3> HIDE DEF p
    <3>4. /\ p \in Seq(Entries) /\ Increasing(p)
          /\ \A d \in Range(p) : d \in Range(s) /\ d.id # Null /\ d.id < e.parent + 1
        BY <3>3, BelowRange DEF OnPath
    <3>5. Range(p) \subseteq Entries
        BY <3>4 DEF Range
    <3>6. \A d \in Range(p) : d.id < id
        BY <3>1, <3>4, <3>5 DEF Entries
    <3>7. Append(p, e) \in Seq(Entries) /\ Range(Append(p, e)) = Range(p) \cup {e}
        BY <3>1, <3>4, RangeOfAppend
    <3>8. Increasing(Append(p, e))
        BY <3>1, <3>4, <3>6, IncreasingAppend, BelowRange
    <3>9. \A d \in Range(Append(p, e)) : d \in Range(s) /\ d.id # Null /\ d.id < id + 1
        BY <3>1, <3>4, <3>5, <3>6, <3>7, <2>2 DEF Entries
    <3> QED BY <3>2, <3>7, <3>8, <3>9, BelowRange DEF OnPath
  <2> QED BY <2>1, <2>2
<1>7. 0 \in T
    BY <1>6, MaxIdAssumption
<1>8. ASSUME NEW n \in Nat, n \in T PROVE n + 1 \in T
  <2> SUFFICES ASSUME NEW id \in 0..(n + 1), id <= MaxId PROVE OnPath(s, id, branch[id])
    OBVIOUS
  <2>1. \A i \in 0..n : i <= MaxId => OnPath(s, i, branch[i])
    BY <1>8
  <2>2. \A i \in 0..(id - 1) : i \in 0..n /\ i <= MaxId
    BY MaxIdAssumption
  <2> QED BY <2>1, <2>2, <1>6, MaxIdAssumption
<1>9. \A n \in Nat : n \in T
  <2> HIDE DEF T
  <2> QED BY <1>7, <1>8, InductionOnNat
<1>10. OnPath(s, from, branch[from])
  <2>1. from \in Nat /\ from \in 0..from /\ from <= MaxId
    BY MaxIdAssumption
  <2>2. from \in T
    BY <2>1, <1>9
  <2> QED BY <2>1, <2>2
<1> QED BY <1>1, <1>10
-----------------------------------------------------------------------------
(***************************************************************************)
(* The inductive invariant.  Ids grow along the session, and parents come  *)
(* before their children; what the file parses to is a selection of that.  *)
(* In a file that is not damaged the last line is whole, and what parses   *)
(* starts with the header.                                                 *)
(***************************************************************************)
SessionTypes ==
    /\ fileEntries \in Seq(Entries)
    /\ lastId \in 0..MaxId
    /\ leafId \in 0..lastId
    /\ flushed \in BOOLEAN
    /\ hasAssistant \in BOOLEAN
    /\ labelsById \in Seq(Nat)
    /\ appendFd \in {"closed", "current"}
    /\ fileExists \in BOOLEAN
    /\ file \in Seq(FileLine)
    /\ damaged \in BOOLEAN

Ordered(s, n) ==
    /\ s # <<>> /\ s[1] = Header
    /\ Increasing(s) /\ ParentsFirst(s) /\ Below(s, n + 1)

StartsWithHeader(s) == s # <<>> /\ s[1] = Header

CleanFile ==
    ~damaged =>
        /\ ~Unterminated(file)
        /\ Parsed(file) # <<>> => StartsWithHeader(Parsed(file))
        /\ flushed => Parsed(file) # <<>>

MissingFileIsEmpty == ~fileExists => file = <<>>

SessionInv ==
    /\ SessionTypes
    /\ MissingFileIsEmpty
    /\ Ordered(fileEntries, lastId)
    /\ FileFollowsMemory
    /\ IndexMatchesEntries
    /\ CleanFile
    /\ AcknowledgedIsDurable

LEMMA HeaderIs ==
    /\ Header \in Entries /\ Header.id = 0 /\ ~IsLabel(Header)
    /\ Header.type # "assistant" /\ <<Header>> \in Seq(Entries)
BY DEF Header, Entry, Entries, IsLabel, Null

LEMMA OnlyHeader ==
    /\ \A n \in Nat : Ordered(<<Header>>, n)
    /\ LabelIndex(<<Header>>) = <<>>
    /\ ~ContainsAssistant(<<Header>>)
<1>1. \A n \in Nat : Ordered(<<Header>>, n)
    BY HeaderIs, RangeOfOne DEF Ordered, Increasing, ParentsFirst, Below, Null
<1>2. LabelIndex(<<Header>>) = <<>>
  <2>1. <<>> \o <<Header>> = <<Header>> /\ <<>> \in Seq(Entries)
    BY HeaderIs
  <2>2. \A e \in Range(<<Header>>) : ~IsLabel(e)
    BY HeaderIs, RangeOfOne
  <2>3. LabelIndex(<<>> \o <<Header>>) = LabelIndex(<<>>)
    BY <2>1, <2>2, HeaderIs, LabelIndexOfOthers
  <2> QED BY <2>1, <2>3, LabelIndexEmpty
<1>3. ~ContainsAssistant(<<Header>>)
    BY HeaderIs, RangeOfOne DEF ContainsAssistant
<1> QED BY <1>1, <1>2, <1>3

LEMMA LoadIs ==
    ASSUME NEW lines
    PROVE  /\ StartsWithHeader(Parsed(lines)) => LoadEntriesFromFile(lines) = Parsed(lines)
           /\ ~StartsWithHeader(Parsed(lines)) => LoadEntriesFromFile(lines) = <<>>
BY DEF StartsWithHeader, LoadEntriesFromFile

\* newSession starts with a header in memory and no file.
LEMMA SessionInvAtStart == Init => SessionInv
<1> SUFFICES ASSUME Init PROVE SessionInv
    OBVIOUS
<1>1. <<>> \in Seq(FileLine)
    OBVIOUS
<1>2. Parsed(<<>>) = <<>>
  <2>1. Jsons(<<>>) = <<>>
    BY DEF Jsons
  <2> QED BY <2>1, KeepEmpty DEF Parsed
<1>3. SessionTypes
  <2>1. <<>> \in Seq(Nat) /\ 0 \in 0..MaxId /\ 0 \in 0..0
    BY MaxIdAssumption
  <2>2. fileEntries \in Seq(Entries)
    BY HeaderIs DEF Init
  <2> QED BY <1>1, <2>1, <2>2 DEF Init, SessionTypes, Null
<1>4. Ordered(fileEntries, lastId)
    BY OnlyHeader DEF Init
<1>5. FileFollowsMemory
  <2>1. Selected(<<>>, <<Header>>)
    BY HeaderIs, SelectedSelf
  <2> QED BY <2>1, <1>2 DEF Init, FileFollowsMemory, Selected
<1>6. IndexMatchesEntries
  <2>1. ContainsAssistant(fileEntries) = FALSE
    BY OnlyHeader DEF Init, ContainsAssistant
  <2>2. labelsById = LabelIndex(fileEntries)
    BY OnlyHeader DEF Init
  <2> QED BY <2>1, <2>2 DEF Init, IndexMatchesEntries
<1>7. CleanFile
    BY <1>2 DEF Init, CleanFile, Unterminated
<1>8. AcknowledgedIsDurable
    BY DEF Init, AcknowledgedIsDurable
<1>9. MissingFileIsEmpty
    BY DEF Init, MissingFileIsEmpty
<1> QED BY <1>3, <1>4, <1>5, <1>6, <1>7, <1>8, <1>9 DEF SessionInv

-----------------------------------------------------------------------------
(***************************************************************************)
(* Appending.  A write leaves the file alone, writes a new one, or extends *)
(* it; where it returned normally, all of it is there.                     *)
(***************************************************************************)
Parts(chunk) == {<<>>, chunk} \cup WholeLines(chunk) \cup CutOff(chunk)

LeftAlone(ok) == file' = file /\ flushed' = flushed /\ ~(ok /\ flushed')

WrittenAnew(ok) ==
    /\ file' \in Parts(Lines(fileEntries'))
    /\ flushed' = ok
    /\ ok => file' = Lines(fileEntries')

Extended(new, ok) ==
    /\ flushed /\ flushed' = flushed
    /\ \E part \in Parts(Lines(new)) :
          file' = Extend(file, part) /\ (ok => part = Lines(new))

LEMMA WriteOutcomes ==
    ASSUME SessionInv, NEW new, NEW ok \in BOOLEAN, AppendEntries(new, ok)
    PROVE  /\ LeftAlone(ok) \/ WrittenAnew(ok) \/ Extended(new, ok)
           /\ fileExists' \in BOOLEAN /\ appendFd' \in {"closed", "current"}
           /\ MissingFileIsEmpty'
<1>1. /\ appendFd \in {"closed", "current"} /\ fileExists \in BOOLEAN
      /\ flushed \in BOOLEAN /\ MissingFileIsEmpty
    BY DEF SessionInv, SessionTypes
<1>2. CASE DeferWrite(ok)
    BY <1>1, <1>2 DEF DeferWrite, LeftAlone, disk, MissingFileIsEmpty
<1>3. CASE FirstFlush(ok)
  <2>1. LeftAlone(ok) \/ WrittenAnew(ok)
    BY <1>1, <1>3 DEF FirstFlush, LeftAlone, WrittenAnew, Parts
  <2>2. MissingFileIsEmpty'
    BY <1>1, <1>3 DEF FirstFlush, MissingFileIsEmpty
  <2>3. fileExists' \in BOOLEAN /\ appendFd' \in {"closed", "current"}
    BY <1>1, <1>3 DEF FirstFlush
  <2> QED BY <2>1, <2>2, <2>3
<1>4. CASE WriteJsonlChunk(Lines(new), ok)
  <2>1. LeftAlone(ok) \/ Extended(new, ok)
    BY <1>1, <1>4 DEF WriteJsonlChunk, Written, Extended, LeftAlone, Parts, disk
  <2>2. MissingFileIsEmpty'
    BY <1>1, <1>4 DEF WriteJsonlChunk, MissingFileIsEmpty, disk
  <2>3. fileExists' \in BOOLEAN /\ appendFd' \in {"closed", "current"}
    BY <1>1, <1>4 DEF WriteJsonlChunk, disk
  <2> QED BY <2>1, <2>2, <2>3
<1> QED BY <1>2, <1>3, <1>4 DEF AppendEntries

\* The entries that an append adds come behind all others.
LEMMA AppendedInOrder ==
    ASSUME SessionInv, NEW new \in Seq(Entries), NEW n \in Nat, Increasing(new),
           \A e \in Range(new) : lastId < e.id /\ e.id <= n /\ e.parent < e.id,
           lastId <= n
    PROVE  /\ fileEntries \o new \in Seq(Entries)
           /\ Ordered(fileEntries \o new, n)
<1>1. fileEntries \in Seq(Entries) /\ lastId \in Nat
    BY DEF SessionInv, SessionTypes
<1>2. Ordered(fileEntries, lastId)
    BY DEF SessionInv
<1>3. Range(fileEntries) \subseteq Entries /\ Range(new) \subseteq Entries
    BY <1>1 DEF Range
<1>4. fileEntries \o new \in Seq(Entries)
    BY <1>1
<1>5. Range(fileEntries \o new) = Range(fileEntries) \cup Range(new)
    BY <1>1, RangeOfConcat
<1>6. \A e \in Range(fileEntries) : e.id < lastId + 1
    BY <1>1, <1>2, BelowRange DEF Ordered
<1>7. \A d \in Range(fileEntries), e \in Range(new) : d.id < e.id
    BY <1>1, <1>3, <1>6 DEF Entries
<1>8. Increasing(fileEntries \o new)
    BY <1>1, <1>2, <1>7, IncreasingConcat DEF Ordered
<1>9. Below(fileEntries \o new, n + 1)
  <2>1. \A e \in Range(fileEntries \o new) : e.id < n + 1
    BY <1>1, <1>3, <1>5, <1>6 DEF Entries
  <2> QED BY <1>4, <2>1, BelowRange
<1>10. ParentsFirst(fileEntries \o new)
    BY <1>2, <1>5 DEF Ordered, ParentsFirst
<1>11. fileEntries \o new # <<>> /\ (fileEntries \o new)[1] = Header
  <2>1. 1 \in 1..Len(fileEntries)
    BY <1>1, <1>2, EmptySeq DEF Ordered
  <2> QED BY <1>1, <1>2, <2>1, ConcatProperties, ConcatEqualIffEmpty DEF Ordered
<1> QED BY <1>4, <1>8, <1>9, <1>10, <1>11 DEF Ordered

\* What an append makes of the file.
LEMMA AppendWrites ==
    ASSUME SessionInv, NEW new \in Seq(Entries), NEW ok \in BOOLEAN,
           AppendEntries(new, ok),
           Increasing(fileEntries \o new), new # <<>>,
           StartsWithHeader(fileEntries \o new)
    PROVE  /\ file' \in Seq(FileLine) /\ flushed' \in BOOLEAN
           /\ FileFollowsMemory' /\ CleanFile' /\ AcknowledgedIsDurable'
<1> DEFINE all == fileEntries \o new
           p == Parsed(file)
<1>1. /\ fileEntries \in Seq(Entries) /\ file \in Seq(FileLine) /\ flushed \in BOOLEAN
      /\ Selected(p, fileEntries) /\ CleanFile /\ AcknowledgedIsDurable
    BY DEF SessionInv, SessionTypes, FileFollowsMemory, Selected
<1>2. /\ fileEntries' = all /\ damaged' = (damaged \/ Unterminated(file'))
      /\ failed' = IF ok THEN failed ELSE failed \cup IdsOf(new)
    BY DEF AppendEntries
<1>3. all \in Seq(Entries) /\ Range(all) = Range(fileEntries) \cup Range(new)
    BY <1>1, RangeOfConcat
<1>4. p \in Seq(Entries)
    BY <1>1, ParsedIs
<1>6. Increasing(new)
    BY <1>1, IncreasingConcat
<1> HIDE DEF all, p
<1>8. CASE LeftAlone(ok)
  <2>1. file' = file /\ flushed' = flushed /\ Parsed(file)' = p
    BY <1>8 DEF LeftAlone, p
  <2>2. Selected(p, all)
    <3>1. Selected(p \o <<>>, all)
      <4>1. Selected(<<>>, new) /\ <<>> \in Seq(Entries)
        BY SelectedSelf
      <4> QED BY <4>1, <1>1, <1>4, SelectedConcat DEF all
    <3> QED BY <3>1, <1>4, ConcatEmptySeq
  <2>3. FileFollowsMemory'
    BY <2>1, <2>2, <1>2 DEF FileFollowsMemory, Selected, p
  <2>4. CleanFile'
    BY <2>1, <1>1, <1>2 DEF CleanFile, p
  <2>5. AcknowledgedIsDurable'
    <3> SUFFICES ASSUME flushed, ~damaged, NEW e \in Range(all), e.id \notin failed'
                 PROVE  e \in Range(LoadEntriesFromFile(file))
        BY <2>1, <1>2 DEF AcknowledgedIsDurable
    <3>1. ~ok
        BY <1>8 DEF LeftAlone
    <3>2. e.id \notin failed /\ e \notin Range(new)
        BY <3>1, <1>2 DEF IdsOf
    <3> QED BY <3>2, <1>1, <1>3 DEF AcknowledgedIsDurable
  <2> QED BY <2>1, <2>3, <2>4, <2>5, <1>1
<1>9. CASE WrittenAnew(ok)
  <2>1. file' \in Parts(Lines(all))
    BY <1>2, <1>9 DEF WrittenAnew
  <2>2. file' \in Seq(FileLine) /\ Selected(Parsed(file'), all)
    BY <2>1, <1>3, PartialWrite DEF Parts, all
  <2>3. FileFollowsMemory'
    BY <2>2, <1>2 DEF FileFollowsMemory, Selected
  <2>4. StartsWithHeader(all) /\ Increasing(all)
    BY DEF all
  <2>5. Parsed(file') # <<>> => StartsWithHeader(Parsed(file'))
    BY <2>1, <2>4, <1>3, PartialWrite DEF Parts, StartsWithHeader
  <2>6. CASE ok
    <3>1. file' = Lines(all)
        BY <1>2, <1>9, <2>6 DEF WrittenAnew
    <3>2. Parsed(file') = all /\ Len(file') = Len(all)
        BY <3>1, <1>3, ParsedLines
    <3>3. LoadEntriesFromFile(file') = all
        BY <3>2, LoadIs DEF all
    <3>4. AcknowledgedIsDurable'
        BY <3>3, <1>2 DEF AcknowledgedIsDurable
    <3>6. CleanFile'
        BY <3>2, <2>4, <2>5, <1>2 DEF CleanFile, StartsWithHeader
    <3> QED BY <3>4, <3>6, <2>2, <2>3, <1>9 DEF WrittenAnew
  <2>7. CASE ~ok
    <3>1. flushed' = FALSE
        BY <1>9, <2>7 DEF WrittenAnew
    <3> QED BY <3>1, <2>2, <2>3, <2>5, <1>2 DEF CleanFile, AcknowledgedIsDurable
  <2> QED BY <2>6, <2>7
<1>10. CASE Extended(new, ok)
  <2>1. PICK part \in Parts(Lines(new)) :
            file' = Extend(file, part) /\ (ok => part = Lines(new))
    BY <1>10 DEF Extended
  <2>2. part \in Seq(FileLine) /\ Selected(Parsed(part), new)
    BY <1>6, PartialWrite DEF Parts
  <2>3. file' \in Seq(FileLine) /\ Selected(Parsed(file'), all)
    BY <2>1, <2>2, <1>1, ExtendSelected DEF all, p
  <2>4. FileFollowsMemory'
    BY <2>3, <1>2 DEF FileFollowsMemory, Selected
  <2>5. flushed /\ flushed' = flushed
    BY <1>10 DEF Extended
  <2>6. CASE damaged'
    BY <2>3, <2>4, <2>5, <2>6, <1>1 DEF CleanFile, AcknowledgedIsDurable
  <2>7. CASE ~damaged'
    <3>1. ~damaged /\ ~Unterminated(file') /\ ~Unterminated(file) /\ StartsWithHeader(p)
        BY <2>5, <2>7, <1>1, <1>2 DEF CleanFile, p
    <3> DEFINE q == p \o Parsed(part)
    <3>2. Parsed(part) \in Seq(Entries) /\ (ok => Parsed(part) = new)
        BY <2>1, <2>2, ParsedIs, ParsedLines
    <3>3. Parsed(file') = q
      <4>1. Extend(file, part) = file \o part
        BY <3>1 DEF Extend, Unterminated
      <4> QED BY <4>1, <2>1, <2>2, <1>1, ParsedConcat DEF p
    <3>4. Range(q) = Range(p) \cup Range(Parsed(part))
        BY <3>2, <1>4, RangeOfConcat
    <3>6. StartsWithHeader(q)
        BY <3>1, <3>2, <1>4, ConcatProperties, ConcatEqualIffEmpty, EmptySeq DEF StartsWithHeader
    <3> HIDE DEF q
    <3>8. LoadEntriesFromFile(file) = p /\ LoadEntriesFromFile(file') = q
        BY <3>1, <3>3, <3>6, LoadIs DEF p
    <3>9. AcknowledgedIsDurable'
      <4> SUFFICES ASSUME NEW e \in Range(all), e.id \notin failed'
                   PROVE  e \in Range(LoadEntriesFromFile(file'))
        BY <1>2 DEF AcknowledgedIsDurable
      <4>1. CASE e \in Range(new)
        <5>1. ok
            BY <4>1, <1>2 DEF IdsOf
        <5> QED BY <5>1, <4>1, <3>2, <3>4, <3>8
      <4>2. CASE e \in Range(fileEntries)
        <5>1. e.id \notin failed
            BY <1>2
        <5>2. e \in Range(p)
            BY <4>2, <5>1, <3>1, <3>8, <2>5, <1>1 DEF AcknowledgedIsDurable
        <5> QED BY <5>2, <3>4, <3>8
      <4> QED BY <4>1, <4>2, <1>3
    <3>10. CleanFile'
        BY <3>1, <3>3, <3>6 DEF CleanFile, StartsWithHeader
    <3> QED BY <2>3, <2>4, <2>5, <3>9, <3>10, <1>1
  <2> QED BY <2>6, <2>7
<1> QED BY <1>8, <1>9, <1>10, WriteOutcomes
\* _appendEntries with new entries whose parents exist.
LEMMA AppendEntriesInv ==
    ASSUME SessionInv, NEW new \in Seq(Entries), NEW ok \in BOOLEAN,
           AppendEntries(new, ok),
           new # <<>>, Increasing(new),
           \A e \in Range(new) : lastId < e.id /\ e.id <= lastId + Len(new) /\ e.parent < e.id,
           labelsById' \in Seq(Nat),
           ok => \/ labelsById' = labelsById /\ \A e \in Range(new) : ~IsLabel(e)
                 \/ labelsById' = ApplyLabel(labelsById, new[1]) /\ Len(new) = 1
    PROVE  SessionInv'
<1> DEFINE all == fileEntries \o new
<1>1. /\ fileEntries \in Seq(Entries) /\ lastId \in 0..MaxId /\ hasAssistant \in BOOLEAN
      /\ Len(new) \in Nat \ {0} /\ IndexMatchesEntries
    BY EmptySeq DEF SessionInv, SessionTypes
<1>2. lastId \in Nat /\ lastId + Len(new) \in Nat /\ lastId <= lastId + Len(new)
    BY <1>1
<1>3. all \in Seq(Entries) /\ Ordered(all, lastId + Len(new))
    BY <1>2, AppendedInOrder
<1>4. /\ fileEntries' = all /\ lastId' = lastId + Len(new) /\ lastId' <= MaxId
      /\ leafId' = Last(new).id
      /\ hasAssistant' = (hasAssistant \/ ContainsAssistant(new))
      /\ failed' = IF ok THEN failed ELSE failed \cup IdsOf(new)
      /\ damaged' \in BOOLEAN
    BY DEF AppendEntries, SessionInv, SessionTypes, Unterminated
<1>5. leafId' \in 0..lastId'
  <2>1. Last(new) \in Range(new) /\ Last(new) \in Entries
    BY <1>1 DEF Last, Range
  <2> QED BY <2>1, <1>2, <1>4 DEF Entries
<1>6. /\ file' \in Seq(FileLine) /\ flushed' \in BOOLEAN
      /\ FileFollowsMemory' /\ CleanFile' /\ AcknowledgedIsDurable'
    BY <1>3, AppendWrites DEF Ordered, StartsWithHeader
<1>7. /\ fileExists' \in BOOLEAN /\ appendFd' \in {"closed", "current"}
      /\ MissingFileIsEmpty'
    BY WriteOutcomes
<1>8. SessionTypes'
    BY <1>1, <1>2, <1>3, <1>4, <1>5, <1>6, <1>7, MaxIdAssumption
       DEF SessionTypes, ContainsAssistant
<1>9. IndexMatchesEntries'
  <2>1. Range(all) = Range(fileEntries) \cup Range(new)
    BY <1>1, RangeOfConcat
  <2>2. hasAssistant' = ContainsAssistant(fileEntries')
    BY <2>1, <1>1, <1>4 DEF IndexMatchesEntries, ContainsAssistant
  <2>3. ASSUME failed' = {} PROVE labelsById' = LabelIndex(fileEntries')
    <3>1. new[1] \in Range(new) /\ new[1] \in Entries
        BY <1>1 DEF Range
    <3>2. ok /\ failed = {}
        BY <3>1, <2>3, <1>4 DEF IdsOf
    <3>3. labelsById = LabelIndex(fileEntries)
        BY <3>2, <1>1 DEF IndexMatchesEntries
    <3>4. CASE labelsById' = labelsById /\ \A e \in Range(new) : ~IsLabel(e)
        BY <3>3, <3>4, <1>1, <1>4, LabelIndexOfOthers
    <3>5. CASE labelsById' = ApplyLabel(labelsById, new[1]) /\ Len(new) = 1
      <4>1. new = <<new[1]>>
        BY <3>5
      <4>2. all = Append(fileEntries, new[1])
        BY <4>1, <3>1, <1>1, AppendIsConcat
      <4>3. LabelIndex(Append(fileEntries, new[1])) = ApplyLabel(LabelIndex(fileEntries), new[1])
        BY <3>1, <1>1, LabelIndexAppend
      <4> QED BY <4>2, <4>3, <3>3, <3>5, <1>4
    <3> QED BY <3>2, <3>4, <3>5
  <2> QED BY <2>2, <2>3 DEF IndexMatchesEntries
<1> QED BY <1>3, <1>4, <1>6, <1>7, <1>8, <1>9 DEF SessionInv

\* The appends of one entry.
LEMMA AppendOneInv ==
    ASSUME SessionInv, NEW ok \in BOOLEAN, NEW e \in Entries,
           AppendEntries(<<e>>, ok),
           e.id = lastId + 1, e.parent <= lastId,
           \/ UNCHANGED labelsById /\ ~IsLabel(e)
           \/ labelsById' = IF ok THEN ApplyLabel(labelsById, e) ELSE labelsById
    PROVE  SessionInv'
<1>1. <<e>> \in Seq(Entries) /\ Len(<<e>>) = 1 /\ <<e>> # <<>> /\ <<e>>[1] = e
    OBVIOUS
<1>2. Range(<<e>>) = {e}
    BY RangeOfOne
<1>3. Increasing(<<e>>)
    BY <1>1 DEF Increasing
<1>4. lastId \in Nat /\ labelsById \in Seq(Nat)
    BY DEF SessionInv, SessionTypes
<1>5. \A d \in Range(<<e>>) : lastId < d.id /\ d.id <= lastId + Len(<<e>>) /\ d.parent < d.id
    BY <1>1, <1>2, <1>4 DEF Entries
<1>6. labelsById' \in Seq(Nat)
    BY <1>4, ApplyLabelType
<1>7. ok => \/ labelsById' = labelsById /\ \A d \in Range(<<e>>) : ~IsLabel(d)
            \/ labelsById' = ApplyLabel(labelsById, <<e>>[1]) /\ Len(<<e>>) = 1
    BY <1>1, <1>2
<1> DEFINE new == <<e>>
<1> HIDE DEF new
<1> QED BY <1>1, <1>3, <1>5, <1>6, <1>7, AppendEntriesInv DEF new

LEMMA SomeIds ==
    ASSUME SessionInv
    PROVE  /\ lastId \in Nat /\ leafId \in Nat /\ leafId <= lastId
           /\ \A id \in byId : id \in Nat /\ 0 < id /\ id <= lastId
<1>1. /\ fileEntries \in Seq(Entries) /\ lastId \in 0..MaxId /\ leafId \in 0..lastId
      /\ Below(fileEntries, lastId + 1)
    BY DEF SessionInv, SessionTypes, Ordered
<1>2. \A e \in Range(fileEntries) : e \in Entries /\ e.id < lastId + 1
    BY <1>1, BelowRange DEF Range
<1> QED BY <1>1, <1>2, MaxIdAssumption DEF byId, IdsOf, Null, Entries

LEMMA AppendMessageInv ==
    ASSUME SessionInv, NEW type \in {"user", "assistant"}, NEW ok \in BOOLEAN,
           AppendMessage(type, ok)
    PROVE  SessionInv'
<1> DEFINE e == Entry(lastId + 1, leafId, type, Null)
<1>1. e \in Entries /\ e.id = lastId + 1 /\ e.parent <= lastId /\ ~IsLabel(e)
    BY SomeIds DEF Entry, Entries, Types, IsLabel, Null
<1>2. AppendEntries(<<e>>, ok) /\ UNCHANGED labelsById
    BY DEF AppendMessage
<1> HIDE DEF e
<1> QED BY <1>1, <1>2, AppendOneInv

LEMMA AppendLabelChangeInv ==
    ASSUME SessionInv, NEW target \in byId, NEW type \in {"label", "unlabel"},
           NEW ok \in BOOLEAN, AppendLabelChange(target, type, ok)
    PROVE  SessionInv'
<1> DEFINE e == Entry(lastId + 1, leafId, type, target)
<1>1. e \in Entries /\ e.id = lastId + 1 /\ e.parent <= lastId
    BY SomeIds DEF Entry, Entries, Types
<1>2. /\ AppendEntries(<<e>>, ok)
      /\ labelsById' = IF ok THEN ApplyLabel(labelsById, e) ELSE labelsById
    BY DEF AppendLabelChange
<1> HIDE DEF e
<1> QED BY <1>1, <1>2, AppendOneInv

LEMMA BranchWithSummaryInv ==
    ASSUME SessionInv, NEW from \in byId \cup {Null}, NEW ok \in BOOLEAN,
           BranchWithSummary(from, ok)
    PROVE  SessionInv'
<1> DEFINE e == Entry(lastId + 1, from, "summary", Null)
<1>1. e \in Entries /\ e.id = lastId + 1 /\ e.parent <= lastId /\ ~IsLabel(e)
    BY SomeIds DEF Entry, Entries, Types, IsLabel, Null
<1>2. AppendEntries(<<e>>, ok) /\ UNCHANGED labelsById
    BY DEF BranchWithSummary
<1> HIDE DEF e
<1> QED BY <1>1, <1>2, AppendOneInv

LEMMA AppendCustomEntriesInv ==
    ASSUME SessionInv, NEW n \in Nat \ {0}, NEW ok \in BOOLEAN,
           AppendCustomEntries(n, ok)
    PROVE  SessionInv'
<1> DEFINE E(k) == Entry(lastId + k, IF k = 1 THEN leafId ELSE lastId + k - 1, "custom", Null)
           new == [k \in 1..n |-> E(k)]
<1>1. \A k \in 1..n : /\ E(k) \in Entries /\ E(k).id = lastId + k
                      /\ E(k).parent < lastId + k /\ ~IsLabel(E(k))
    BY SomeIds DEF Entry, Entries, Types, IsLabel, Null
<1>2. AppendEntries(new, ok) /\ UNCHANGED labelsById
    BY DEF AppendCustomEntries
<1>3. labelsById \in Seq(Nat) /\ lastId \in Nat
    BY SomeIds DEF SessionInv, SessionTypes
<1> HIDE DEF E
<1>4. new \in Seq(Entries) /\ Len(new) = n /\ \A k \in 1..n : new[k] = E(k)
    BY <1>1
<1> HIDE DEF new
<1>5. Increasing(new) /\ new # <<>>
    BY <1>1, <1>3, <1>4 DEF Increasing
<1>6. \A e \in Range(new) : /\ lastId < e.id /\ e.id <= lastId + Len(new)
                            /\ e.parent < e.id /\ ~IsLabel(e)
  <2> SUFFICES ASSUME NEW e \in Range(new)
               PROVE  /\ lastId < e.id /\ e.id <= lastId + Len(new)
                      /\ e.parent < e.id /\ ~IsLabel(e)
    OBVIOUS
  <2>1. PICK k \in 1..n : e = E(k)
    BY <1>4 DEF Range
  <2> QED BY <2>1, <1>1, <1>3, <1>4
<1>7. /\ \A e \in Range(new) : lastId < e.id /\ e.id <= lastId + Len(new) /\ e.parent < e.id
      /\ labelsById' \in Seq(Nat)
      /\ ok => \/ labelsById' = labelsById /\ \A e \in Range(new) : ~IsLabel(e)
               \/ labelsById' = ApplyLabel(labelsById, new[1]) /\ Len(new) = 1
    BY <1>2, <1>3, <1>6
<1> QED BY <1>2, <1>4, <1>5, <1>7, AppendEntriesInv
-----------------------------------------------------------------------------
(***************************************************************************)
(* createBranchedSession.                                                  *)
(***************************************************************************)
LEMMA ExtractedPath ==
    ASSUME SessionInv, NEW leaf \in byId
    PROVE  LET path == PathWithoutLabels(leaf) IN
           /\ path \in Seq(Entries) /\ Increasing(path)
           /\ \A e \in Range(path) : /\ e \in Entries /\ ~IsLabel(e)
                                     /\ 0 < e.id /\ e.id <= lastId /\ e.parent < e.id
<1> DEFINE branch == GetBranch(fileEntries, leaf)
           S == {e \in Range(branch) : ~IsLabel(e)}
<1>1. /\ fileEntries \in Seq(Entries) /\ Ordered(fileEntries, lastId) /\ lastId \in 0..MaxId
    BY DEF SessionInv, SessionTypes
<1>2. leaf \in 0..MaxId
    BY <1>1, SomeIds, MaxIdAssumption
<1>3. OnPath(fileEntries, leaf, branch)
    BY <1>1, <1>2, BranchOnPath DEF Ordered
<1> HIDE DEF branch
<1>4. branch \in Seq(Entries) /\ Increasing(branch)
    BY <1>3 DEF OnPath
<1>5. \A e \in Range(branch) : e \in Entries /\ 0 < e.id /\ e.id <= lastId /\ e.parent < e.id
  <2> SUFFICES ASSUME NEW e \in Range(branch)
               PROVE  e \in Entries /\ 0 < e.id /\ e.id <= lastId /\ e.parent < e.id
    OBVIOUS
  <2>1. e \in Range(fileEntries) /\ e.id # Null /\ e \in Entries
    BY <1>3, <1>4 DEF OnPath, Range
  <2>2. e.parent < e.id /\ e.id < lastId + 1
    BY <2>1, <1>1, BelowRange DEF Ordered, ParentsFirst
  <2> QED BY <2>1, <2>2, SomeIds DEF Entries, Null
<1> HIDE DEF S
<1>6. /\ Keep(branch, S) \in Seq(Entries) /\ Increasing(Keep(branch, S))
      /\ Range(Keep(branch, S)) = Range(branch) \cap S
    BY <1>4, KeepType, KeepIncreasing, KeepSelects
<1>7. PathWithoutLabels(leaf) = Keep(branch, S)
    BY DEF PathWithoutLabels, Unlabelled, branch, S
<1>8. \A e \in S : ~IsLabel(e)
    BY DEF S
<1> QED BY <1>5, <1>6, <1>7, <1>8

LEMMA Extracted ==
    ASSUME SessionInv, NEW leaf \in byId
    PROVE  LET path == PathWithoutLabels(leaf)
               n == Len(LabelsToWrite(path))
               all == BranchedEntries(leaf)
           IN  /\ n \in Nat /\ all \in Seq(Entries) /\ Ordered(all, lastId + n)
               /\ Range(LabelIndex(all)) = Range(labelsById) \cap IdsOf(path)
<1> DEFINE path == PathWithoutLabels(leaf)
           targets == LabelsToWrite(path)
           n == Len(targets)
           final == IF path = <<>> THEN Null ELSE Last(path).id
           E(k) == Entry(lastId + k, IF k = 1 THEN final ELSE lastId + k - 1,
                         "label", targets[k])
           L == [k \in 1..n |-> E(k)]
           all == <<Header>> \o path \o L
<1>1. BranchedEntries(leaf) = all
    BY DEF BranchedEntries
<1>2. labelsById \in Seq(Nat) /\ lastId \in Nat
    BY SomeIds DEF SessionInv, SessionTypes
<1>3. /\ path \in Seq(Entries) /\ Increasing(path)
      /\ \A e \in Range(path) : /\ e \in Entries /\ ~IsLabel(e)
                                /\ 0 < e.id /\ e.id <= lastId /\ e.parent < e.id
    BY ExtractedPath
<1> HIDE DEF path
<1>4. targets \in Seq(Nat) /\ Range(targets) = Range(labelsById) \cap IdsOf(path)
    BY <1>2, KeepType, KeepSelects DEF LabelsToWrite
<1> HIDE DEF targets
<1>5. n \in Nat /\ \A k \in 1..n : targets[k] \in Nat
    BY <1>4
<1> HIDE DEF n
<1>6. final \in Nat /\ final <= lastId
  <2>1. CASE path = <<>>
    BY <2>1, <1>2 DEF Null
  <2>2. CASE path # <<>>
    <3>1. Last(path) \in Range(path)
        BY <2>2, <1>3, EmptySeq DEF Last, Range
    <3> QED BY <3>1, <2>2, <1>3 DEF Entries
  <2> QED BY <2>1, <2>2
<1> HIDE DEF final
<1>7. \A k \in 1..n : /\ E(k) \in Entries /\ E(k).id = lastId + k
                      /\ E(k).parent < E(k).id /\ E(k).type = "label"
                      /\ E(k).target = targets[k]
    BY <1>2, <1>5, <1>6 DEF Entry, Entries, Types
<1> HIDE DEF E
<1>8. L \in Seq(Entries) /\ Len(L) = n /\ \A k \in 1..n : L[k] = E(k)
    BY <1>5, <1>7
<1>9. Range(L) = {E(k) : k \in 1..n}
    BY <1>8 DEF Range
<1> HIDE DEF L
<1>10. Increasing(L)
    BY <1>2, <1>5, <1>7, <1>8 DEF Increasing
<1> DEFINE hp == <<Header>> \o path
<1>11. hp \in Seq(Entries) /\ Range(hp) = {Header} \cup Range(path)
  <2>1. <<Header>> \in Seq(Entries) /\ Range(<<Header>>) = {Header}
    BY HeaderIs, RangeOfOne
  <2> DEFINE h == <<Header>>
  <2> HIDE DEF h
  <2>2. h \in Seq(Entries) /\ Range(h) = {Header}
    BY <2>1 DEF h
  <2>3. h \o path \in Seq(Entries) /\ Range(h \o path) = Range(h) \cup Range(path)
    BY <1>3, <2>2, RangeOfConcat, ConcatProperties
  <2> QED BY <2>2, <2>3 DEF h
<1>12. Increasing(hp)
  <2>1. Increasing(<<Header>>)
    BY DEF Increasing
  <2>2. \A d \in Range(<<Header>>), e \in Range(path) : d.id < e.id
    BY <1>3, HeaderIs, RangeOfOne
  <2> QED BY <1>3, <2>1, <2>2, HeaderIs, IncreasingConcat
<1>13. hp[1] = Header /\ Len(hp) \in Nat \ {0}
    BY <1>3, HeaderIs, ConcatProperties
<1>14. all = hp \o L
    OBVIOUS
<1> HIDE DEF hp, all
<1>15. all \in Seq(Entries) /\ Range(all) = {Header} \cup Range(path) \cup Range(L)
    BY <1>8, <1>11, <1>14, RangeOfConcat, ConcatProperties
<1>16. all[1] = Header /\ all # <<>>
  <2>1. Len(L) \in Nat
    BY <1>8, <1>5
  <2>2. 1 \in 1..(Len(hp) + Len(L)) /\ 1 <= Len(hp)
    BY <1>13, <2>1
  <2>3. all[1] = hp[1]
    BY <2>2, <1>8, <1>11, <1>14, ConcatProperties
  <2>4. Len(all) = Len(hp) + Len(L)
    BY <1>8, <1>11, <1>14, ConcatProperties
  <2>5. all # <<>>
    BY <2>1, <2>4, <1>13, <1>15, EmptySeq
  <2> QED BY <2>3, <2>5, <1>13
<1>17. \A d \in Range(hp), e \in Range(L) : d.id < e.id
  <2> SUFFICES ASSUME NEW d \in Range(hp), NEW k \in 1..n PROVE d.id < E(k).id
    BY <1>9
  <2>1. d.id \in Nat /\ d.id <= lastId
    BY <1>2, <1>3, <1>11, HeaderIs DEF Entries
  <2> QED BY <2>1, <1>2, <1>5, <1>7
<1>18. Increasing(all)
    BY <1>8, <1>10, <1>11, <1>12, <1>14, <1>17, IncreasingConcat
<1>19. \A e \in Range(all) : /\ e.id < lastId + n + 1
                             /\ e.id # Null => e.parent < e.id
  <2> SUFFICES ASSUME NEW e \in Range(all)
               PROVE  e.id < lastId + n + 1 /\ (e.id # Null => e.parent < e.id)
    OBVIOUS
  <2>1. CASE e = Header
    BY <2>1, <1>2, <1>5, HeaderIs DEF Null
  <2>2. CASE e \in Range(path)
    BY <2>2, <1>2, <1>3, <1>5 DEF Entries
  <2>3. CASE e \in Range(L)
    BY <2>3, <1>2, <1>5, <1>7, <1>9
  <2> QED BY <2>1, <2>2, <2>3, <1>15
<1>20. Ordered(all, lastId + n)
    BY <1>15, <1>16, <1>18, <1>19, BelowRange DEF Ordered, ParentsFirst
<1>21. Range(LabelIndex(all)) = Range(targets)
  <2>1. \A e \in Range(all) : e.type # "unlabel"
    BY <1>3, <1>7, <1>9, <1>15, HeaderIs DEF IsLabel
  <2>2. {d \in Range(all) : d.type = "label"} = Range(L)
    BY <1>3, <1>7, <1>9, <1>15, HeaderIs DEF IsLabel
  <2>3. Range(LabelIndex(all)) = {e.target : e \in Range(L)}
    BY <2>1, <2>2, <1>15, LabelIndexSets
  <2>4. {e.target : e \in Range(L)} = {targets[k] : k \in 1..n}
    BY <1>7, <1>9
  <2>5. {targets[k] : k \in 1..n} = Range(targets)
    BY <1>4 DEF Range, n
  <2> QED BY <2>3, <2>4, <2>5
<1> QED BY <1>1, <1>4, <1>5, <1>15, <1>20, <1>21 DEF path, targets, n
\* A session of the entries s whose file is new.
LEMMA BuiltInv ==
    ASSUME SessionInv, NEW s \in Seq(Entries), BuildIndex(s),
           lastId' \in 0..MaxId, Ordered(s, lastId'), appendFd' = "closed",
           fileExists' \in BOOLEAN, flushed' \in BOOLEAN, file' \in Seq(FileLine),
           Selected(Parsed(file'), s), MissingFileIsEmpty', CleanFile',
           AcknowledgedIsDurable', damaged' \in BOOLEAN
    PROVE  SessionInv'
<1>1. /\ fileEntries' = s /\ leafId' = Last(s).id
      /\ hasAssistant' = ContainsAssistant(s) /\ labelsById' = LabelIndex(s)
    BY DEF BuildIndex
<1>2. labelsById' \in Seq(Nat)
    BY <1>1, LabelIndexType
<1>3. leafId' \in 0..lastId'
  <2>1. Last(s) \in Range(s) /\ Last(s) \in Entries
    BY EmptySeq DEF Ordered, Last, Range
  <2>2. Last(s).id < lastId' + 1
    BY <2>1, BelowRange DEF Ordered
  <2> QED BY <2>1, <2>2, <1>1, MaxIdAssumption DEF Entries
<1>4. SessionTypes'
    BY <1>1, <1>2, <1>3 DEF SessionTypes, ContainsAssistant
<1>5. FileFollowsMemory'
    BY <1>1 DEF FileFollowsMemory, Selected
<1>6. IndexMatchesEntries'
    BY <1>1 DEF IndexMatchesEntries
<1> QED BY <1>1, <1>4, <1>5, <1>6 DEF SessionInv

LEMMA CreateBranchedSessionInv ==
    ASSUME SessionInv, NEW leaf \in byId, NEW ok \in BOOLEAN,
           CreateBranchedSession(leaf, ok)
    PROVE  SessionInv'
<1> DEFINE all == BranchedEntries(leaf)
           n == Len(LabelsToWrite(PathWithoutLabels(leaf)))
<1>1. n \in Nat /\ all \in Seq(Entries) /\ Ordered(all, lastId + n)
    BY Extracted
<1> HIDE DEF all, n
<1>2. /\ lastId' = lastId + n /\ lastId' <= MaxId /\ BuildIndex(all) /\ appendFd' = "closed"
      /\ failed' = IF ok THEN {} ELSE IdsOf(fileEntries')
      /\ damaged' = (Unterminated(file') \/ (flushed' /\ file' = <<>>))
    BY DEF CreateBranchedSession, ClosesAppendFd, Damage, all, n
<1>3. lastId \in Nat /\ lastId' \in 0..MaxId /\ Ordered(all, lastId')
    BY <1>1, <1>2, SomeIds, MaxIdAssumption
<1>4. fileEntries' = all
    BY <1>2 DEF BuildIndex
<1>5. flushed \in BOOLEAN /\ (flushed' \in BOOLEAN => damaged' \in BOOLEAN)
    BY <1>2 DEF SessionInv, SessionTypes, Unterminated
<1>6. StartsWithHeader(all) /\ Increasing(all)
    BY <1>1 DEF Ordered, StartsWithHeader
<1>7. CASE file' = <<>> /\ fileExists' = FALSE /\ flushed' \in BOOLEAN
  <2>1. <<>> \in Seq(FileLine) /\ Parsed(<<>>) = <<>> /\ Lines(<<>>) = <<>>
    <3>1. Jsons(<<>>) = <<>>
        BY DEF Jsons
    <3> QED BY <3>1, KeepEmpty DEF Parsed, Lines
  <2>2. Selected(Parsed(file'), all)
    BY <2>1, <1>1, <1>7, SelectedSelf
  <2>3. CleanFile'
    BY <2>1, <1>2, <1>7 DEF CleanFile, Unterminated
  <2>4. AcknowledgedIsDurable'
    BY <1>2, <1>7 DEF AcknowledgedIsDurable
  <2> QED BY <2>1, <2>2, <2>3, <2>4, <1>1, <1>2, <1>3, <1>5, <1>7, BuiltInv
          DEF MissingFileIsEmpty
<1>8. CASE /\ ~ok /\ flushed' = flushed /\ fileExists' = TRUE
           /\ file' \in WholeLines(Lines(all)) \cup CutOff(Lines(all))
  <2>1. file' \in Seq(FileLine) /\ Selected(Parsed(file'), all)
    BY <1>1, <1>6, <1>8, PartialWrite
  <2>2. Parsed(file') # <<>> => StartsWithHeader(Parsed(file'))
    BY <1>1, <1>6, <1>8, PartialWrite DEF StartsWithHeader
  <2>3. file' # <<>> /\ ~Unterminated(file') => Parsed(file') # <<>>
    BY <1>1, <1>6, <1>8, PartialWrite
  <2>4. CleanFile'
    BY <2>2, <2>3, <1>2 DEF CleanFile
  <2>5. AcknowledgedIsDurable'
    BY <1>2, <1>8 DEF AcknowledgedIsDurable, IdsOf
  <2> QED BY <2>1, <2>4, <2>5, <1>1, <1>2, <1>3, <1>5, <1>8, BuiltInv DEF MissingFileIsEmpty
<1>9. CASE ok /\ fileExists' = TRUE /\ flushed' = TRUE /\ file' = Lines(all)
  <2>1. file' \in Seq(FileLine) /\ Parsed(file') = all /\ Len(file') = Len(all)
    BY <1>1, <1>9, ParsedLines
  <2>2. Selected(Parsed(file'), all)
    BY <2>1, <1>1, SelectedSelf
  <2>4. CleanFile'
    BY <2>1, <1>2, <1>6 DEF CleanFile, StartsWithHeader
  <2>5. AcknowledgedIsDurable'
    BY <2>1, <1>4, <1>6, LoadIs DEF AcknowledgedIsDurable
  <2> QED BY <2>1, <2>2, <2>4, <2>5, <1>1, <1>2, <1>3, <1>5, <1>9, BuiltInv
          DEF MissingFileIsEmpty
<1>10. CASE hasAssistant' /\ RewriteFile(ok)
  <2>1. CASE ok /\ fileExists' = TRUE /\ flushed' = TRUE /\ file' = Lines(fileEntries')
    BY <2>1, <1>4, <1>9
  <2>2. CASE UNCHANGED flushed /\ fileExists' = FALSE /\ file' = <<>>
    BY <2>2, <1>5, <1>7
  <2>3. CASE ~ok /\ UNCHANGED flushed /\ fileExists' = TRUE
             /\ file' \in WholeLines(Lines(fileEntries')) \cup CutOff(Lines(fileEntries'))
    BY <2>3, <1>4, <1>8
  <2> QED BY <2>1, <2>2, <2>3, <1>10 DEF RewriteFile
<1>11. CASE ok /\ flushed' = FALSE /\ fileExists' = FALSE /\ file' = <<>>
    BY <1>7, <1>11
<1> QED BY <1>10, <1>11 DEF CreateBranchedSession

-----------------------------------------------------------------------------
\* newSession, and a session file that does not exist.
LEMMA StartEmptyInv ==
    ASSUME SessionInv, StartEmpty, appendFd' = "closed", UNCHANGED lastId,
           fileExists' \in BOOLEAN, flushed' \in BOOLEAN, file' \in Seq(FileLine),
           Selected(Parsed(file'), <<Header>>), MissingFileIsEmpty', CleanFile',
           AcknowledgedIsDurable', damaged' \in BOOLEAN
    PROVE  SessionInv'
<1>1. /\ fileEntries' = <<Header>> /\ leafId' = Null /\ hasAssistant' = FALSE
      /\ labelsById' = <<>>
    BY DEF StartEmpty
<1>2. lastId' = lastId /\ lastId \in 0..MaxId /\ lastId \in Nat
    BY SomeIds DEF SessionInv, SessionTypes
<1>3. Ordered(<<Header>>, lastId)
    BY <1>2, OnlyHeader
<1>4. SessionTypes'
  <2>1. <<>> \in Seq(Nat) /\ 0 \in 0..lastId
    BY <1>2
  <2>2. fileEntries' \in Seq(Entries)
    BY <1>1, HeaderIs
  <2> QED BY <1>1, <1>2, <2>1, <2>2 DEF SessionTypes, Null
<1>5. FileFollowsMemory'
    BY <1>1 DEF FileFollowsMemory, Selected
<1>6. IndexMatchesEntries'
  <2>1. ContainsAssistant(fileEntries') = FALSE
    BY <1>1, OnlyHeader DEF ContainsAssistant
  <2>2. labelsById' = LabelIndex(fileEntries')
    BY <1>1, OnlyHeader
  <2> QED BY <2>1, <2>2, <1>1 DEF IndexMatchesEntries
<1> QED BY <1>1, <1>2, <1>3, <1>4, <1>5, <1>6 DEF SessionInv

LEMMA EmptyFile ==
    /\ <<>> \in Seq(FileLine) /\ Parsed(<<>>) = <<>> /\ Lines(<<>>) = <<>>
    /\ Selected(Parsed(<<>>), <<Header>>)
<1>1. Jsons(<<>>) = <<>>
    BY DEF Jsons
<1>2. Parsed(<<>>) = <<>> /\ Lines(<<>>) = <<>>
    BY <1>1, KeepEmpty DEF Parsed, Lines
<1>3. Selected(<<>>, <<Header>>)
    BY HeaderIs, SelectedSelf
<1> QED BY <1>2, <1>3

LEMMA NewSessionInv ==
    ASSUME SessionInv, NewSession
    PROVE  SessionInv'
<1>1. /\ StartEmpty /\ appendFd' = "closed" /\ UNCHANGED lastId
      /\ fileExists' = FALSE /\ flushed' = FALSE /\ file' = <<>> /\ damaged' = FALSE
    BY DEF NewSession, ClosesAppendFd
<1>2. CleanFile' /\ AcknowledgedIsDurable'
    BY <1>1, EmptyFile DEF CleanFile, AcknowledgedIsDurable, Unterminated
<1>3. file' \in Seq(FileLine) /\ Selected(Parsed(file'), <<Header>>)
    BY <1>1, EmptyFile
<1> QED BY <1>1, <1>2, <1>3, StartEmptyInv DEF MissingFileIsEmpty

\* What loads from the file are entries in order.
LEMMA LoadedInOrder ==
    ASSUME SessionInv, LoadEntriesFromFile(file) # <<>>
    PROVE  /\ LoadEntriesFromFile(file) = Parsed(file)
           /\ Parsed(file) \in Seq(Entries) /\ Ordered(Parsed(file), lastId)
<1> DEFINE p == Parsed(file)
<1>1. /\ fileEntries \in Seq(Entries) /\ file \in Seq(FileLine)
      /\ Ordered(fileEntries, lastId) /\ Selected(p, fileEntries)
    BY DEF SessionInv, SessionTypes, FileFollowsMemory, Selected
<1>2. p \in Seq(Entries)
    BY <1>1, ParsedIs
<1>3. LoadEntriesFromFile(file) = p /\ StartsWithHeader(p)
    BY LoadIs
<1> HIDE DEF p
<1>4. Increasing(p) /\ Range(p) \subseteq Range(fileEntries)
    BY <1>1, KeepIncreasing, KeepSelects DEF Selected, Ordered
<1>5. ParentsFirst(p)
    BY <1>1, <1>4 DEF Ordered, ParentsFirst
<1>6. Below(p, lastId + 1)
    BY <1>1, <1>2, <1>4, BelowRange DEF Ordered
<1> QED BY <1>2, <1>3, <1>4, <1>5, <1>6 DEF Ordered, StartsWithHeader, p

LEMMA ReopenInv ==
    ASSUME SessionInv, Reopen
    PROVE  SessionInv'
<1>1. /\ appendFd' = "closed" /\ lastId' = lastId /\ lastId \in 0..MaxId
      /\ file \in Seq(FileLine) /\ CleanFile /\ fileExists \in BOOLEAN
      /\ MissingFileIsEmpty
      /\ damaged' = Unterminated(file') /\ damaged' \in BOOLEAN
    BY DEF Reopen, ClosesAppendFd, SessionInv, SessionTypes, Unterminated
<1>2. CASE ~fileExists /\ StartEmpty /\ flushed' = FALSE /\ UNCHANGED <<fileExists, file>>
  <2>1. file' = <<>> /\ fileExists' = FALSE
    BY <1>1, <1>2 DEF MissingFileIsEmpty
  <2>2. CleanFile' /\ AcknowledgedIsDurable'
    BY <2>1, <1>1, <1>2, EmptyFile DEF CleanFile, AcknowledgedIsDurable
  <2>3. file' \in Seq(FileLine) /\ Selected(Parsed(file'), <<Header>>)
    BY <2>1, EmptyFile
  <2> QED BY <2>1, <2>2, <2>3, <1>1, <1>2, StartEmptyInv DEF MissingFileIsEmpty
<1>3. CASE /\ StartEmpty /\ flushed' = TRUE /\ fileExists' = TRUE /\ file' = FreshFile
  <2>1. <<Header>> \in Seq(Entries)
    BY HeaderIs
  <2>2. /\ file' \in Seq(FileLine) /\ Parsed(file') = <<Header>> /\ Len(file') = 1
        /\ file' = Lines(<<Header>>)
    BY <2>1, <1>3, ParsedLines DEF FreshFile
  <2>3. Selected(Parsed(file'), <<Header>>)
    BY <2>1, <2>2, SelectedSelf
  <2>4. StartsWithHeader(<<Header>>)
    BY DEF StartsWithHeader
  <2>5. CleanFile'
    BY <2>2, <2>4, <1>1 DEF CleanFile, StartsWithHeader
  <2>6. LoadEntriesFromFile(file') = <<Header>>
    BY <2>2, <2>4, LoadIs
  <2>7. AcknowledgedIsDurable'
    BY <2>6, <1>3 DEF AcknowledgedIsDurable, StartEmpty
  <2> QED BY <2>2, <2>3, <2>5, <2>7, <1>1, <1>3, StartEmptyInv DEF MissingFileIsEmpty
<1>4. CASE /\ LoadEntriesFromFile(file) # <<>> /\ BuildIndex(LoadEntriesFromFile(file))
           /\ fileExists /\ flushed' = TRUE /\ UNCHANGED <<fileExists, file>>
  <2> DEFINE p == Parsed(file)
  <2>1. LoadEntriesFromFile(file) = p /\ p \in Seq(Entries) /\ Ordered(p, lastId)
    BY <1>4, LoadedInOrder
  <2>2. Selected(p, p)
    BY <2>1, SelectedSelf
  <2> HIDE DEF p
  <2>3. Parsed(file') = p /\ file' = file /\ LoadEntriesFromFile(file') = p
    BY <2>1, <1>4 DEF p
  <2>4. BuildIndex(p) /\ fileEntries' = p
    BY <2>1, <1>4 DEF BuildIndex
  <2>5. AcknowledgedIsDurable'
    BY <2>3, <2>4 DEF AcknowledgedIsDurable
  <2>7. CleanFile'
    BY <2>1, <2>3, <1>1 DEF CleanFile, Ordered, StartsWithHeader
  <2> QED BY <2>1, <2>2, <2>3, <2>4, <2>5, <2>7, <1>1, <1>4, BuiltInv DEF MissingFileIsEmpty
<1> QED BY <1>2, <1>3, <1>4 DEF Reopen

LEMMA ForkFromInv ==
    ASSUME SessionInv, ForkFrom
    PROVE  SessionInv'
<1> DEFINE p == Parsed(file)
<1>1. LoadEntriesFromFile(file) # <<>>
    BY DEF ForkFrom
<1>2. LoadEntriesFromFile(file) = p /\ p \in Seq(Entries) /\ Ordered(p, lastId)
    BY <1>1, LoadedInOrder
<1> HIDE DEF p
<1>3. /\ BuildIndex(p) /\ flushed' = TRUE /\ appendFd' = "closed" /\ file' = Lines(p)
      /\ UNCHANGED <<fileExists, lastId>> /\ fileExists /\ damaged' = FALSE
    BY <1>2 DEF ForkFrom, ClosesAppendFd
<1>4. lastId \in 0..MaxId /\ fileEntries' = p
    BY <1>3 DEF SessionInv, SessionTypes, BuildIndex
<1>5. file' \in Seq(FileLine) /\ Parsed(file') = p /\ Len(file') = Len(p)
    BY <1>2, <1>3, ParsedLines
<1>6. Selected(Parsed(file'), p)
    BY <1>2, <1>5, SelectedSelf
<1>7. StartsWithHeader(p) /\ file' # <<>>
    BY <1>2, <1>5, EmptySeq DEF Ordered, StartsWithHeader
<1>a. ~Unterminated(file')
    BY <1>2, <1>3, LinesAreWhole
<1>8. CleanFile'
    BY <1>5, <1>7, <1>a DEF CleanFile, StartsWithHeader
<1>9. AcknowledgedIsDurable'
    BY <1>4, <1>5, <1>7, LoadIs DEF AcknowledgedIsDurable
<1> QED BY <1>2, <1>3, <1>4, <1>5, <1>6, <1>8, <1>9, BuiltInv DEF MissingFileIsEmpty

\* Moving the leaf and closing the descriptor touch neither entries nor file.
LEMMA NothingWrittenInv ==
    ASSUME SessionInv,
           UNCHANGED <<fileEntries, flushed, hasAssistant, labelsById, fileExists, file,
                       lastId, failed, damaged>>,
           leafId' \in 0..lastId, appendFd' \in {"closed", "current"}
    PROVE  SessionInv'
BY DEF SessionInv, SessionTypes, MissingFileIsEmpty, Ordered, FileFollowsMemory,
       IndexMatchesEntries, CleanFile, AcknowledgedIsDurable

\* Every step keeps the invariant.
LEMMA SessionStep == SessionInv /\ [Next]_vars => SessionInv'
<1> SUFFICES ASSUME SessionInv, [Next]_vars PROVE SessionInv'
    OBVIOUS
<1>1. /\ leafId \in 0..lastId /\ appendFd \in {"closed", "current"}
      /\ 0 \in 0..lastId /\ byId \subseteq 0..lastId
    BY SomeIds DEF SessionInv, SessionTypes
<1>2. CASE UNCHANGED vars
    BY <1>1, <1>2, NothingWrittenInv DEF vars, memory, disk
<1>3. CASE Next
  <2>2. ASSUME NEW ok \in BOOLEAN, NEW type \in {"user", "assistant"},
               AppendMessage(type, ok)
        PROVE  SessionInv'
    BY <2>2, AppendMessageInv
  <2>3. ASSUME NEW ok \in BOOLEAN, AppendCustomEntries(2, ok)
        PROVE  SessionInv'
    BY <2>3, AppendCustomEntriesInv
  <2>4. ASSUME NEW ok \in BOOLEAN, NEW target \in byId, NEW type \in {"label", "unlabel"},
               AppendLabelChange(target, type, ok)
        PROVE  SessionInv'
    BY <2>4, AppendLabelChangeInv
  <2>5. ASSUME NEW ok \in BOOLEAN, NEW from \in byId \cup {Null}, BranchWithSummary(from, ok)
        PROVE  SessionInv'
    BY <2>5, BranchWithSummaryInv
  <2>6. ASSUME NEW ok \in BOOLEAN, NEW leaf \in byId, CreateBranchedSession(leaf, ok)
        PROVE  SessionInv'
    BY <2>6, CreateBranchedSessionInv
  <2>7. ASSUME NEW id \in byId, Branch(id) PROVE SessionInv'
    BY <2>7, <1>1, NothingWrittenInv DEF Branch, disk
  <2>8. CASE ResetLeaf
    BY <2>8, <1>1, NothingWrittenInv DEF ResetLeaf, disk, Null
  <2>9. CASE NewSession
    BY <2>9, NewSessionInv
  <2>10. CASE Reopen
    BY <2>10, ReopenInv
  <2>11. CASE ForkFrom
    BY <2>11, ForkFromInv
  <2>12. CASE CloseAppendFd
    BY <2>12, <1>1, NothingWrittenInv DEF CloseAppendFd, memory
  <2> QED BY <1>3, <2>2, <2>3, <2>4, <2>5, <2>6, <2>7, <2>8, <2>9, <2>10, <2>11, <2>12
          DEF Next
<1> QED BY <1>2, <1>3

LEMMA SessionInvariant == Spec => []SessionInv
BY SessionInvAtStart, SessionStep, PTL DEF Spec

-----------------------------------------------------------------------------
\* Whatever appends failed before it, and whichever file the manager was
\* switched from: an entry whose append returned normally is read back, as long
\* as the file is not damaged: by a line cut off since it was opened, or by a
\* rewrite that failed before the header (_appendEntries, _persistBatch).
THEOREM AcknowledgedEntriesAreDurable == Spec => []AcknowledgedIsDurable
<1>1. SessionInv => AcknowledgedIsDurable
    BY DEF SessionInv
<1> QED BY <1>1, SessionInvariant, PTL

\* The file holds entries of memory, each once and in memory's order, whatever
\* is torn, retried, extracted or recovered (_persistBatch, _rewriteFile,
\* setSessionFile).
THEOREM FileIsSelectionOfMemory == Spec => []FileFollowsMemory
<1>1. SessionInv => FileFollowsMemory
    BY DEF SessionInv
<1> QED BY <1>1, SessionInvariant, PTL

\* The indexes kept by each append are those _buildIndex computes.
THEOREM IndexesAreKept == Spec => []IndexMatchesEntries
<1>1. SessionInv => IndexMatchesEntries
    BY DEF SessionInv
<1> QED BY <1>1, SessionInvariant, PTL

\* Whatever fails and is switched or recovered, what parses of the file comes
\* behind a session header, unless a line was cut off since the file was opened or
\* the rewrite of an extracted session failed before the header
\* (setSessionFile, _persistBatch, createBranchedSession).
THEOREM HeaderComesFirst == Spec => []NoAppendWithoutHeader
<1>1. SessionInv => NoAppendWithoutHeader
  <2> SUFFICES ASSUME SessionInv, ~damaged, Parsed(file) # <<>>
               PROVE  LoadEntriesFromFile(file) # <<>>
    BY DEF NoAppendWithoutHeader
  <2>1. StartsWithHeader(Parsed(file))
    BY DEF SessionInv, CleanFile
  <2> QED BY <2>1, LoadIs DEF StartsWithHeader
<1> QED BY <1>1, SessionInvariant, PTL

\* In the extracted session the entries of the path that had a label have one,
\* and no other entry has (createBranchedSession).
THEOREM ExtractionKeepsLabels == Spec => ExtractKeepsLabels
<1> DEFINE A == \A leaf \in byId :
                   failed' = {} /\ CreateBranchedSession(leaf, TRUE)
                       => Range(labelsById')
                             = Range(labelsById) \cap IdsOf(PathWithoutLabels(leaf))
<1>1. SessionInv => A
  <2> SUFFICES ASSUME SessionInv, NEW leaf \in byId, CreateBranchedSession(leaf, TRUE)
               PROVE  Range(labelsById')
                        = Range(labelsById) \cap IdsOf(PathWithoutLabels(leaf))
    OBVIOUS
  <2>1. labelsById' = LabelIndex(BranchedEntries(leaf))
    BY DEF CreateBranchedSession, BuildIndex
  <2> QED BY <2>1, Extracted
<1>2. Spec => [][A]_vars
    BY <1>1, SessionInvariant, PTL
<1> QED BY <1>2 DEF ExtractKeepsLabels
=============================================================================
