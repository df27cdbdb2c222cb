--------------------------- MODULE SeqFilterProofs ---------------------------
(***************************************************************************)
(* Induction over numbers and sequences, in the form that the provers can  *)
(* use: a set stands for the property.  With it, what Keep selects.        *)
(***************************************************************************)
EXTENDS SeqFilter, Functions, SequenceTheorems, WellFoundedInduction, TLAPS

-----------------------------------------------------------------------------
(***************************************************************************)
(* Induction.  The set T stands for the property.                          *)
(***************************************************************************)
Smaller == {p \in Nat \X Nat : p[1] < p[2]}

\* The order of the natural numbers is well founded.
LEMMA SmallerWellFounded == IsWellFoundedOn(Smaller, Nat)
<1>1. OpToRel(<, Nat) = Smaller
    BY DEF OpToRel, Smaller
<1> QED BY <1>1, NatLessThanWellFounded

\* A set with 0 and every successor holds every number.
LEMMA InductionOnNat ==
    ASSUME NEW T, 0 \in T, \A n \in Nat : n \in T => n + 1 \in T
    PROVE  \A n \in Nat : n \in T
<1> DEFINE B == Nat \ T
<1> SUFFICES ASSUME B # {} PROVE FALSE
    OBVIOUS
<1>1. PICK x \in B : \A y \in B : <<y, x>> \notin Smaller
  <2> HIDE DEF B
  <2>1. B \subseteq Nat
    BY DEF B
  <2> QED BY <2>1, SmallerWellFounded, WFMin
<1>2. x # 0 /\ x \in Nat
    OBVIOUS
<1>3. x - 1 \in B
    BY <1>2
<1>4. <<x - 1, x>> \in Smaller
    BY <1>2 DEF Smaller
<1> QED BY <1>1, <1>3, <1>4

\* A set of sequences that is closed under Append holds every sequence.
LEMMA InductionOnSeq ==
    ASSUME NEW X, NEW T, <<>> \in T,
           \A s \in Seq(X), x \in X : s \in T => Append(s, x) \in T
    PROVE  \A s \in Seq(X) : s \in T
<1> DEFINE N == {n \in Nat : \A s \in Seq(X) : Len(s) = n => s \in T}
<1>1. 0 \in N
  <2>1. \A s \in Seq(X) : Len(s) = 0 => s = <<>>
    BY EmptySeq
  <2> QED BY <2>1
<1>2. ASSUME NEW n \in Nat, n \in N PROVE n + 1 \in N
  <2> SUFFICES ASSUME NEW s \in Seq(X), Len(s) = n + 1 PROVE s \in T
    BY <1>2
  <2> DEFINE f == SubSeq(s, 1, n)
  <2>1. f \in Seq(X) /\ Len(f) = n /\ s[n + 1] \in X /\ s = Append(f, s[n + 1])
    OBVIOUS
  <2>2. f \in T
    BY <2>1, <1>2
  <2> HIDE DEF f
  <2> QED BY <2>1, <2>2
<1> HIDE DEF N
<1>3. \A n \in Nat : n \in N
    BY <1>1, <1>2, InductionOnNat
<1> QED BY <1>3, LenProperties DEF N

-----------------------------------------------------------------------------
(***************************************************************************)
(* Keep.                                                                   *)
(***************************************************************************)
IsKept(s, S, n, f) ==
    /\ f[0] = <<>>
    /\ \A k \in 1..n : f[k] = IF s[k] \in S THEN Append(f[k - 1], s[k]) ELSE f[k - 1]

\* The recursive function of Keep exists.
LEMMA KeptExists ==
    ASSUME NEW X, NEW s \in Seq(X), NEW S
    PROVE  \E f \in [0..Len(s) -> Seq(X)] : IsKept(s, S, Len(s), f)
<1> DEFINE T == {n \in Nat : n <= Len(s) =>
                    \E f \in [0..n -> Seq(X)] : IsKept(s, S, n, f)}
<1>1. 0 \in T
  <2>1. [k \in 0..0 |-> <<>>] \in [0..0 -> Seq(X)]
    OBVIOUS
  <2>2. IsKept(s, S, 0, [k \in 0..0 |-> <<>>])
    BY DEF IsKept
  <2> QED BY <2>1, <2>2
<1>2. ASSUME NEW n \in Nat, n \in T PROVE n + 1 \in T
  <2> SUFFICES ASSUME n + 1 <= Len(s)
               PROVE  \E f \in [0..(n + 1) -> Seq(X)] : IsKept(s, S, n + 1, f)
    OBVIOUS
  <2>1. PICK f \in [0..n -> Seq(X)] : IsKept(s, S, n, f)
    BY <1>2
  <2> DEFINE x == IF s[n + 1] \in S THEN Append(f[n], s[n + 1]) ELSE f[n]
             g == [k \in 0..(n + 1) |-> IF k = n + 1 THEN x ELSE f[k]]
  <2>2. x \in Seq(X)
    BY <2>1
  <2>3. g \in [0..(n + 1) -> Seq(X)]
    BY <2>2
  <2>4. g[0] = <<>>
    BY <2>1 DEF IsKept
  <2>5. ASSUME NEW k \in 1..(n + 1)
        PROVE  g[k] = IF s[k] \in S THEN Append(g[k - 1], s[k]) ELSE g[k - 1]
    <3>1. CASE k = n + 1
        BY <3>1
    <3>2. CASE k # n + 1
      <4>1. k \in 1..n /\ g[k] = f[k] /\ g[k - 1] = f[k - 1]
        BY <3>2
      <4> HIDE DEF g
      <4> QED BY <4>1, <2>1 DEF IsKept
    <3> QED BY <3>1, <3>2
  <2> HIDE DEF g
  <2> QED BY <2>3, <2>4, <2>5 DEF IsKept
<1> HIDE DEF T
<1>3. Len(s) \in T
    BY <1>1, <1>2, InductionOnNat, LenProperties
<1> QED BY <1>3, LenProperties DEF T

\* Keep is the last value of that function.
LEMMA KeptIs ==
    ASSUME NEW X, NEW s \in Seq(X), NEW S
    PROVE  \E f \in [0..Len(s) -> Seq(X)] :
              IsKept(s, S, Len(s), f) /\ Keep(s, S) = f[Len(s)]
<1> DEFINE kept[k \in 0..Len(s)] ==
                IF k = 0 THEN <<>>
                ELSE IF s[k] \in S THEN Append(kept[k - 1], s[k])
                ELSE kept[k - 1]
<1>1. Keep(s, S) = kept[Len(s)]
    BY DEF Keep
<1>2. PICK f \in [0..Len(s) -> Seq(X)] : IsKept(s, S, Len(s), f)
    BY KeptExists
<1>3. f = [k \in 0..Len(s) |->
              IF k = 0 THEN <<>>
              ELSE IF s[k] \in S THEN Append(f[k - 1], s[k])
              ELSE f[k - 1]]
  <2>1. f = [k \in 0..Len(s) |-> f[k]]
    OBVIOUS
  <2>2. \A k \in 0..Len(s) :
            f[k] = IF k = 0 THEN <<>>
                   ELSE IF s[k] \in S THEN Append(f[k - 1], s[k])
                   ELSE f[k - 1]
    <3>1. \A k \in 0..Len(s) : k # 0 => k \in 1..Len(s)
        BY LenProperties
    <3> QED BY <1>2, <3>1 DEF IsKept
  <2> QED BY <2>1, <2>2, Zenon
<1>4. kept = [k \in 0..Len(s) |->
              IF k = 0 THEN <<>>
              ELSE IF s[k] \in S THEN Append(kept[k - 1], s[k])
              ELSE kept[k - 1]]
    BY <1>3
<1> HIDE DEF kept
<1> DEFINE T == {n \in Nat : n <= Len(s) => kept[n] = f[n]}
<1>5. Len(s) \in Nat
    BY LenProperties
<1>6. 0 \in T
    BY <1>4, <1>3, <1>5
<1>7. ASSUME NEW n \in Nat, n \in T PROVE n + 1 \in T
  <2> SUFFICES ASSUME n + 1 <= Len(s) PROVE kept[n + 1] = f[n + 1]
    OBVIOUS
  <2>1. kept[n] = f[n] /\ n + 1 \in 0..Len(s) /\ n + 1 # 0 /\ (n + 1) - 1 = n
    BY <1>7, <1>5
  <2>2. kept[n + 1] = IF s[n + 1] \in S THEN Append(kept[n], s[n + 1]) ELSE kept[n]
    BY <1>4, <2>1
  <2>3. f[n + 1] = IF s[n + 1] \in S THEN Append(f[n], s[n + 1]) ELSE f[n]
    BY <1>2, <2>1 DEF IsKept
  <2> QED BY <2>1, <2>2, <2>3
<1>8. \A n \in Nat : n \in T
  <2> HIDE DEF T
  <2> QED BY <1>6, <1>7, InductionOnNat
<1>9. kept[Len(s)] = f[Len(s)]
    BY <1>8, <1>5
<1> QED BY <1>1, <1>2, <1>9

\* What Keep makes of the empty sequence, of a sequence, and of one element more.
LEMMA KeepEmpty ==
    ASSUME NEW S
    PROVE  Keep(<<>>, S) = <<>>
<1>1. <<>> \in Seq({}) /\ Len(<<>>) = 0
    OBVIOUS
<1>2. PICK f : IsKept(<<>>, S, 0, f) /\ Keep(<<>>, S) = f[0]
    BY <1>1, KeptIs
<1> QED BY <1>2 DEF IsKept

LEMMA KeepType ==
    ASSUME NEW X, NEW s \in Seq(X), NEW S
    PROVE  Keep(s, S) \in Seq(X)
<1>1. PICK f \in [0..Len(s) -> Seq(X)] : Keep(s, S) = f[Len(s)]
    BY KeptIs
<1>2. Len(s) \in 0..Len(s)
    BY LenProperties
<1> QED BY <1>1, <1>2

LEMMA KeepAppend ==
    ASSUME NEW X, NEW s \in Seq(X), NEW x \in X, NEW S
    PROVE  Keep(Append(s, x), S)
               = IF x \in S THEN Append(Keep(s, S), x) ELSE Keep(s, S)
<1> DEFINE t == Append(s, x)
<1>1. t \in Seq(X) /\ Len(t) = Len(s) + 1 /\ t[Len(s) + 1] = x /\ Len(s) \in Nat
  BY AppendProperties, LenProperties
<1>2. \A k \in 1..Len(s) : t[k] = s[k]
  BY AppendProperties
<1> HIDE DEF t
<1>3. PICK f \in [0..Len(s) -> Seq(X)] :
          IsKept(s, S, Len(s), f) /\ Keep(s, S) = f[Len(s)]
  BY KeptIs
<1>4. PICK g \in [0..Len(t) -> Seq(X)] :
          IsKept(t, S, Len(t), g) /\ Keep(t, S) = g[Len(t)]
  BY <1>1, KeptIs
<1> DEFINE T == {n \in Nat : n <= Len(s) => g[n] = f[n]}
<1>5. 0 \in T
  BY <1>3, <1>4 DEF IsKept
<1>6. ASSUME NEW n \in Nat, n \in T PROVE n + 1 \in T
  <2> SUFFICES ASSUME n + 1 <= Len(s) PROVE g[n + 1] = f[n + 1]
      OBVIOUS
  <2>1. g[n] = f[n] /\ n + 1 \in 1..Len(s) /\ n + 1 \in 1..Len(t) /\ (n + 1) - 1 = n
      BY <1>6, <1>1
  <2>2. f[n + 1] = IF s[n + 1] \in S THEN Append(f[n], s[n + 1]) ELSE f[n]
      BY <1>3, <2>1 DEF IsKept
  <2>3. g[n + 1] = IF t[n + 1] \in S THEN Append(g[n], t[n + 1]) ELSE g[n]
      BY <1>4, <2>1 DEF IsKept
  <2> QED BY <2>1, <2>2, <2>3, <1>2
<1>7. \A n \in Nat : n \in T
  <2> HIDE DEF T
  <2> QED BY <1>5, <1>6, InductionOnNat
<1>8. g[Len(s)] = f[Len(s)]
  BY <1>7, <1>1
<1>9. g[Len(t)] = IF x \in S THEN Append(g[Len(s)], x) ELSE g[Len(s)]
  BY <1>4, <1>1 DEF IsKept
<1> QED BY <1>3, <1>4, <1>8, <1>9 DEF t

\* Keep of a concatenation, and what it selects.
LEMMA KeepConcat ==
    ASSUME NEW X, NEW S, NEW s \in Seq(X), NEW t \in Seq(X)
    PROVE  Keep(s \o t, S) = Keep(s, S) \o Keep(t, S)
<1> DEFINE T == {u \in Seq(X) : Keep(s \o u, S) = Keep(s, S) \o Keep(u, S)}
<1>1. <<>> \in T
    BY KeepEmpty, KeepType, ConcatEmptySeq
<1>2. ASSUME NEW u \in Seq(X), NEW x \in X, u \in T PROVE Append(u, x) \in T
  <2>1. s \o Append(u, x) = Append(s \o u, x) /\ s \o u \in Seq(X)
    OBVIOUS
  <2>2. Keep(s, S) \in Seq(X) /\ Keep(u, S) \in Seq(X)
    BY KeepType
  <2>3. Keep(s, S) \o Append(Keep(u, S), x) = Append(Keep(s, S) \o Keep(u, S), x)
    BY <2>2
  <2>4. Keep(Append(u, x), S) = IF x \in S THEN Append(Keep(u, S), x) ELSE Keep(u, S)
    BY KeepAppend
  <2>5. Keep(Append(s \o u, x), S)
            = IF x \in S THEN Append(Keep(s \o u, S), x) ELSE Keep(s \o u, S)
    BY <2>1, KeepAppend
  <2>6. Keep(s \o u, S) = Keep(s, S) \o Keep(u, S)
    BY <1>2
  <2>7. Append(u, x) \in Seq(X)
    OBVIOUS
  <2> QED BY <2>1, <2>3, <2>4, <2>5, <2>6, <2>7
<1> HIDE DEF T
<1>3. t \in T
    BY <1>1, <1>2, InductionOnSeq
<1> QED BY <1>3 DEF T

LEMMA RangeOfAppend ==
    ASSUME NEW X, NEW s \in Seq(X), NEW x \in X
    PROVE  Range(Append(s, x)) = Range(s) \cup {x}
<1>1. Append(s, x) \in Seq(X) /\ Len(Append(s, x)) = Len(s) + 1 /\ Len(s) \in Nat
    OBVIOUS
<1>2. Append(s, x)[Len(s) + 1] = x
    OBVIOUS
<1>3. \A k \in 1..Len(s) : Append(s, x)[k] = s[k]
    OBVIOUS
<1>4. DOMAIN s = 1..Len(s) /\ DOMAIN Append(s, x) = 1..(Len(s) + 1)
    OBVIOUS
<1>5. \A k \in 1..(Len(s) + 1) : k = Len(s) + 1 \/ k \in 1..Len(s)
    BY <1>1
<1>6. 1..Len(s) \subseteq 1..(Len(s) + 1) /\ Len(s) + 1 \in 1..(Len(s) + 1)
    BY <1>1
<1> QED BY <1>2, <1>3, <1>4, <1>5, <1>6, Zenon DEF Range

\* The members of a sequence of one element, and of two sequences in a row.
LEMMA RangeOfOne == \A x : Range(<<x>>) = {x}
BY DEF Range

LEMMA RangeOfConcat ==
    ASSUME NEW X, NEW s \in Seq(X), NEW t \in Seq(X)
    PROVE  Range(s \o t) = Range(s) \cup Range(t)
<1> DEFINE T == {u \in Seq(X) : Range(s \o u) = Range(s) \cup Range(u)}
<1>1. <<>> \in T
    BY DEF Range
<1>2. ASSUME NEW u \in Seq(X), NEW x \in X, u \in T PROVE Append(u, x) \in T
  <2>1. s \o Append(u, x) = Append(s \o u, x) /\ s \o u \in Seq(X) /\ Append(u, x) \in Seq(X)
    OBVIOUS
  <2>2. Range(Append(s \o u, x)) = Range(s \o u) \cup {x}
    <3> HIDE DEF T
    <3> DEFINE v == s \o u
    <3>1. v \in Seq(X)
        BY <2>1
    <3> HIDE DEF v
    <3>2. Range(Append(v, x)) = Range(v) \cup {x}
        BY <3>1, RangeOfAppend
    <3> QED BY <3>2 DEF v
  <2>3. Range(Append(u, x)) = Range(u) \cup {x}
    BY RangeOfAppend
  <2> HIDE DEF T
  <2>4. Range(s \o u) = Range(s) \cup Range(u)
    BY <1>2 DEF T
  <2> QED BY <2>1, <2>2, <2>3, <2>4 DEF T
<1> HIDE DEF T
<1>3. t \in T
    BY <1>1, <1>2, InductionOnSeq
<1> QED BY <1>3 DEF T

\* Keep selects exactly the members of S, and drops nothing if there are no
\* others.
LEMMA KeepSelects ==
    ASSUME NEW X, NEW S
    PROVE  \A s \in Seq(X) : /\ Range(Keep(s, S)) = Range(s) \cap S
                             /\ Range(s) \subseteq S => Keep(s, S) = s
                             /\ Range(s) \cap S = {} => Keep(s, S) = <<>>
<1> DEFINE T == {s \in Seq(X) : /\ Range(Keep(s, S)) = Range(s) \cap S
                                /\ Range(s) \subseteq S => Keep(s, S) = s
                                /\ Range(s) \cap S = {} => Keep(s, S) = <<>>}
<1>1. <<>> \in T
    BY KeepEmpty DEF Range
<1>2. ASSUME NEW s \in Seq(X), NEW x \in X, s \in T PROVE Append(s, x) \in T
  <2>1. Keep(s, S) \in Seq(X)
    BY KeepType
  <2>2. Keep(Append(s, x), S) = IF x \in S THEN Append(Keep(s, S), x) ELSE Keep(s, S)
    BY KeepAppend
  <2>3. Range(Append(s, x)) = Range(s) \cup {x}
    BY RangeOfAppend
  <2>4. Range(Append(Keep(s, S), x)) = Range(Keep(s, S)) \cup {x}
    BY <2>1, RangeOfAppend
  <2>5. Append(s, x) \in Seq(X)
    OBVIOUS
  <2> QED BY <1>2, <2>2, <2>3, <2>4, <2>5
<1> HIDE DEF T
<1>3. \A s \in Seq(X) : s \in T
    BY <1>1, <1>2, InductionOnSeq
<1> QED BY <1>3 DEF T

\* Only the members of the sequence matter.
LEMMA KeepSame ==
    ASSUME NEW X, NEW S, NEW R
    PROVE  \A s \in Seq(X) : Range(s) \cap S = Range(s) \cap R => Keep(s, S) = Keep(s, R)
<1> DEFINE T == {s \in Seq(X) : Range(s) \cap S = Range(s) \cap R => Keep(s, S) = Keep(s, R)}
<1>1. <<>> \in T
    BY KeepEmpty
<1>2. ASSUME NEW s \in Seq(X), NEW x \in X, s \in T PROVE Append(s, x) \in T
  <2>1. Range(Append(s, x)) = Range(s) \cup {x}
    BY RangeOfAppend
  <2>2. /\ Keep(Append(s, x), S) = IF x \in S THEN Append(Keep(s, S), x) ELSE Keep(s, S)
        /\ Keep(Append(s, x), R) = IF x \in R THEN Append(Keep(s, R), x) ELSE Keep(s, R)
    BY KeepAppend
  <2>3. Append(s, x) \in Seq(X)
    OBVIOUS
  <2> QED BY <1>2, <2>1, <2>2, <2>3
<1> HIDE DEF T
<1>3. \A s \in Seq(X) : s \in T
    BY <1>1, <1>2, InductionOnSeq
<1> QED BY <1>3 DEF T

\* Selecting twice is selecting what is in both.
LEMMA KeepTwice ==
    ASSUME NEW X, NEW S, NEW R
    PROVE  \A s \in Seq(X) : Keep(Keep(s, S), R) = Keep(s, S \cap R)
<1> DEFINE T == {s \in Seq(X) : Keep(Keep(s, S), R) = Keep(s, S \cap R)}
<1>1. <<>> \in T
    BY KeepEmpty
<1>2. ASSUME NEW s \in Seq(X), NEW x \in X, s \in T PROVE Append(s, x) \in T
  <2>1. Keep(s, S) \in Seq(X) /\ Append(s, x) \in Seq(X)
    BY KeepType
  <2>2. /\ Keep(Append(s, x), S) = IF x \in S THEN Append(Keep(s, S), x) ELSE Keep(s, S)
        /\ Keep(Append(s, x), S \cap R)
             = IF x \in S \cap R THEN Append(Keep(s, S \cap R), x) ELSE Keep(s, S \cap R)
    BY KeepAppend
  <2>3. Keep(Append(Keep(s, S), x), R)
            = IF x \in R THEN Append(Keep(Keep(s, S), R), x) ELSE Keep(Keep(s, S), R)
    BY <2>1, KeepAppend
  <2>4. Keep(Keep(s, S), R) = Keep(s, S \cap R)
    BY <1>2
  <2>5. Keep(Keep(Append(s, x), S), R) = Keep(Append(s, x), S \cap R)
    <3>1. CASE x \in S
      <4>1. Keep(Append(s, x), S) = Append(Keep(s, S), x)
        BY <3>1, <2>2
      <4>2. x \in S \cap R <=> x \in R
        BY <3>1
      <4> QED BY <4>1, <4>2, <2>2, <2>3, <2>4, Zenon
    <3>2. CASE x \notin S
        BY <3>2, <2>2, <2>4
    <3> QED BY <3>1, <3>2
  <2> QED BY <2>1, <2>5
<1> HIDE DEF T
<1>3. \A s \in Seq(X) : s \in T
    BY <1>1, <1>2, InductionOnSeq
<1> QED BY <1>3 DEF T
=============================================================================
