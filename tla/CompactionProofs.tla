---------------------------- MODULE CompactionProofs ----------------------------
(***************************************************************************)
(* Proofs for Compaction, for any tree of entries, any number of           *)
(* compactions and any moves of the leaf: no message of the path is        *)
(* forgotten, and no tool result comes without its call.                   *)
(***************************************************************************)
EXTENDS Compaction, SequenceTheorems, WellFoundedInduction, TLAPS

-----------------------------------------------------------------------------
(***************************************************************************)
(* Least and greatest elements.                                            *)
(***************************************************************************)
Smaller == {p \in Nat \X Nat : p[1] < p[2]}

\* A set of numbers with a member has a least one: what stands for induction.
LEMMA LeastExists ==
    ASSUME NEW S \in SUBSET Nat, S # {}
    PROVE  \E x \in S : \A y \in S : x <= y
<1>1. IsWellFoundedOn(Smaller, Nat)
  <2>1. OpToRel(<, Nat) = Smaller
    BY DEF OpToRel, Smaller
  <2> QED BY <2>1, NatLessThanWellFounded
<1>2. PICK x \in S : \A y \in S : <<y, x>> \notin Smaller
    BY <1>1, WFMin
<1>3. ASSUME NEW y \in S PROVE x <= y
  <2>1. ~(y < x)
    BY <1>2 DEF Smaller
  <2> QED BY <2>1
<1> QED BY <1>3

\* Min of a set of entries is its first entry.
LEMMA MinIs ==
    ASSUME NEW S \in SUBSET Nat, S # {}
    PROVE  Min(S) \in S /\ \A y \in S : Min(S) <= y
<1>1. \E x \in S : \A y \in S : x <= y
    BY LeastExists
<1> QED BY <1>1 DEF Min

\* Max of a bounded set of numbers is its last.
LEMMA MaxIs ==
    ASSUME NEW n \in Nat, NEW S \in SUBSET (0..n), S # {}
    PROVE  Max(S) \in S /\ \A y \in S : Max(S) >= y
<1> DEFINE T == {k \in 0..n : n - k \in S}
<1>1. T \in SUBSET Nat /\ T # {}
  <2>1. PICK y \in S : TRUE
    OBVIOUS
  <2>2. n - y \in 0..n /\ n - (n - y) = y
    OBVIOUS
  <2>3. n - y \in T
    BY <2>2
  <2>4. T \in SUBSET Nat
    OBVIOUS
  <2> HIDE DEF T
  <2> QED BY <2>3, <2>4
<1>2. PICK k \in T : \A j \in T : k <= j
  <2> HIDE DEF T
  <2> QED BY <1>1, LeastExists
<1>3. ASSUME NEW y \in S PROVE n - k >= y
  <2>1. n - y \in 0..n /\ n - (n - y) = y
    OBVIOUS
  <2>2. n - y \in T
    BY <2>1
  <2> QED BY <2>2, <1>2
<1>4. \E x \in S : \A y \in S : x >= y
    BY <1>2, <1>3
<1> QED BY <1>4 DEF Max

-----------------------------------------------------------------------------
(***************************************************************************)
(* The path to an entry.  l is a session; Branch is getBranch of it.       *)
(***************************************************************************)
Branch(l, from) ==
    LET up[i \in 0 .. from] ==
            IF i = 0 THEN {} ELSE up[l[i].parent] \cup {i}
    IN up[from]

ParentsFirst(l) == \A i \in 1..Len(l) : l[i].parent \in 0..(i - 1)

IsTree(l, n, f) ==
    /\ f[0] = {}
    /\ \A i \in 1..n : f[i] = f[l[i].parent] \cup {i}

\* The model's getBranch is that of its session.
LEMMA BranchOfLog == \A i : getBranch(i) = Branch(log, i)
BY DEF getBranch, Branch

\* With parents first, the recursion of getBranch has a solution.
LEMMA TreeExists ==
    ASSUME NEW l, Len(l) \in Nat, ParentsFirst(l)
    PROVE  \E f \in [0..Len(l) -> SUBSET Nat] : IsTree(l, Len(l), f)
<1> DEFINE B == {n \in 0..Len(l) : ~\E f \in [0..n -> SUBSET Nat] : IsTree(l, n, f)}
<1>0. B \in SUBSET Nat
    OBVIOUS
<1> SUFFICES ASSUME B # {} PROVE FALSE
    OBVIOUS
<1>1. PICK n \in B : \A y \in B : n <= y
  <2> HIDE DEF B
  <2> QED BY <1>0, LeastExists
<1>2. CASE n = 0
  <2>1. [k \in 0..0 |-> {}] \in [0..0 -> SUBSET Nat]
    OBVIOUS
  <2>2. IsTree(l, 0, [k \in 0..0 |-> {}])
    BY DEF IsTree
  <2> QED BY <2>1, <2>2, <1>2
<1>3. CASE n # 0
  <2>0. n \in 1..Len(l) /\ n - 1 \in 0..Len(l) /\ n - 1 \notin B
    BY <1>1, <1>3
  <2>1. PICK f \in [0..(n - 1) -> SUBSET Nat] : IsTree(l, n - 1, f)
    BY <2>0
  <2> DEFINE g == [k \in 0..n |-> IF k = n THEN f[l[n].parent] \cup {n} ELSE f[k]]
  <2>2. l[n].parent \in 0..(n - 1)
    BY <2>0 DEF ParentsFirst
  <2>3. g \in [0..n -> SUBSET Nat]
    BY <2>2, <2>0
  <2>4. \A k \in 0..(n - 1) : g[k] = f[k]
    BY <2>0
  <2>5. g[n] = g[l[n].parent] \cup {n}
    BY <2>2, <2>4, <2>0
  <2> HIDE DEF g
  <2>6. g[0] = {}
    BY <2>4, <2>1, <2>0 DEF IsTree
  <2>7. ASSUME NEW k \in 1..n PROVE g[k] = g[l[k].parent] \cup {k}
    <3>1. CASE k = n
        BY <3>1, <2>5
    <3>2. CASE k # n
      <4>1. k \in 1..(n - 1) /\ k \in 0..(n - 1) /\ k \in 1..Len(l)
        BY <3>2, <2>0
      <4>2. l[k].parent \in 0..(k - 1)
        BY <4>1 DEF ParentsFirst
      <4>3. l[k].parent \in 0..(n - 1)
        BY <4>1, <4>2
      <4>4. f[k] = f[l[k].parent] \cup {k}
        BY <4>1, <2>1 DEF IsTree
      <4> QED BY <4>1, <4>3, <4>4, <2>4
    <3> QED BY <3>1, <3>2
  <2>8. IsTree(l, n, g)
    BY <2>6, <2>7 DEF IsTree
  <2> QED BY <2>3, <2>8
<1> QED BY <1>2, <1>3

\* getBranch follows that solution.
LEMMA BranchIs ==
    ASSUME NEW l, Len(l) \in Nat, ParentsFirst(l),
           NEW f \in [0..Len(l) -> SUBSET Nat], IsTree(l, Len(l), f),
           NEW n \in 0..Len(l)
    PROVE  Branch(l, n) = f[n]
<1> DEFINE up[i \in 0..n] == IF i = 0 THEN {} ELSE up[l[i].parent] \cup {i}
<1>1. Branch(l, n) = up[n]
    BY DEF Branch
<1> DEFINE g == [i \in 0..n |-> f[i]]
<1>2. \A i \in 1..n : l[i].parent \in 0..(i - 1) /\ l[i].parent \in 0..n /\ i \in 1..Len(l)
    BY DEF ParentsFirst
<1>3. \A i \in 0..n : g[i] = IF i = 0 THEN {} ELSE g[l[i].parent] \cup {i}
  <2>1. g[0] = {}
    BY DEF IsTree
  <2>2. ASSUME NEW i \in 0..n, i # 0 PROVE g[i] = g[l[i].parent] \cup {i}
    <3>1. i \in 1..n
        BY <2>2
    <3>2. f[i] = f[l[i].parent] \cup {i}
        BY <3>1, <1>2 DEF IsTree
    <3> QED BY <3>1, <3>2, <1>2
  <2> QED BY <2>1, <2>2
<1>4. g = [i \in 0..n |-> IF i = 0 THEN {} ELSE g[l[i].parent] \cup {i}]
  <2>1. g = [i \in 0..n |-> g[i]]
    OBVIOUS
  <2> HIDE DEF g
  <2> QED BY <2>1, <1>3, Zenon
<1>5. up = [i \in 0..n |-> IF i = 0 THEN {} ELSE up[l[i].parent] \cup {i}]
  <2> HIDE DEF g
  <2> QED BY <1>4
<1> HIDE DEF up
<1> DEFINE B == {i \in 0..n : up[i] # f[i]}
<1>6. B = {}
  <2> SUFFICES ASSUME B # {} PROVE FALSE
    OBVIOUS
  <2>1. B \in SUBSET Nat
    OBVIOUS
  <2>2. PICK b \in B : \A y \in B : b <= y
    <3> HIDE DEF B
    <3> QED BY <2>1, LeastExists
  <2>3. b \in 0..n /\ up[b] # f[b]
    OBVIOUS
  <2>4. b # 0
    BY <2>3, <1>5 DEF IsTree
  <2>5. b \in 1..n
    BY <2>3, <2>4
  <2>6. l[b].parent \in 0..n /\ l[b].parent \notin B
    BY <2>2, <2>5, <1>2
  <2>7. up[l[b].parent] = f[l[b].parent]
    BY <2>6
  <2>8. up[b] = up[l[b].parent] \cup {b}
    BY <1>5, <2>3, <2>4
  <2>9. f[b] = f[l[b].parent] \cup {b}
    BY <2>5, <1>2 DEF IsTree
  <2> QED BY <2>3, <2>7, <2>8, <2>9
<1>7. up[n] = f[n]
    BY <1>6
<1> QED BY <1>1, <1>7

\* getBranch of an entry is that of its parent, and the entry.
LEMMA BranchStep ==
    ASSUME NEW l, Len(l) \in Nat, ParentsFirst(l)
    PROVE  /\ Branch(l, 0) = {}
           /\ \A i \in 1..Len(l) : Branch(l, i) = Branch(l, l[i].parent) \cup {i}
<1>1. PICK f \in [0..Len(l) -> SUBSET Nat] : IsTree(l, Len(l), f)
    BY TreeExists
<1>2. \A n \in 0..Len(l) : Branch(l, n) = f[n]
    BY <1>1, BranchIs
<1>3. Branch(l, 0) = {}
    BY <1>1, <1>2 DEF IsTree
<1>4. ASSUME NEW i \in 1..Len(l)
      PROVE  Branch(l, i) = Branch(l, l[i].parent) \cup {i}
  <2>1. l[i].parent \in 0..Len(l) /\ i \in 0..Len(l)
    BY DEF ParentsFirst
  <2>2. f[i] = f[l[i].parent] \cup {i}
    BY <1>1 DEF IsTree
  <2> QED BY <2>1, <2>2, <1>2
<1> QED BY <1>3, <1>4

\* The path to an entry holds it and earlier ones.
LEMMA BranchBounds ==
    ASSUME NEW l, Len(l) \in Nat, ParentsFirst(l), NEW n \in 0..Len(l)
    PROVE  Branch(l, n) \subseteq 1..n /\ (n # 0 => n \in Branch(l, n))
<1> DEFINE B == {i \in 0..Len(l) : ~(Branch(l, i) \subseteq 1..i)}
<1>1. B = {}
  <2> SUFFICES ASSUME B # {} PROVE FALSE
    OBVIOUS
  <2>1. B \in SUBSET Nat
    OBVIOUS
  <2>2. PICK b \in B : \A y \in B : b <= y
    <3> HIDE DEF B
    <3> QED BY <2>1, LeastExists
  <2>3. b # 0
    BY BranchStep
  <2>4. b \in 1..Len(l)
    BY <2>3
  <2>5. l[b].parent \in 0..(b - 1)
    BY <2>4 DEF ParentsFirst
  <2>6. l[b].parent \notin B /\ l[b].parent \in 0..Len(l)
    BY <2>2, <2>4, <2>5
  <2>7. Branch(l, l[b].parent) \subseteq 1..l[b].parent
    BY <2>6
  <2>8. Branch(l, b) = Branch(l, l[b].parent) \cup {b}
    BY <2>4, BranchStep
  <2>9. Branch(l, b) \subseteq 1..b
    BY <2>4, <2>5, <2>7, <2>8
  <2> QED BY <2>9
<1>2. n # 0 => n \in Branch(l, n)
    BY BranchStep
<1> QED BY <1>1, <1>2

\* The path to an entry of a path is the beginning of that path.
LEMMA BranchPrefix ==
    ASSUME NEW l, Len(l) \in Nat, ParentsFirst(l), NEW n \in 0..Len(l),
           NEW k \in Branch(l, n)
    PROVE  k \in 1..n /\ Branch(l, k) = {j \in Branch(l, n) : j <= k}
<1> DEFINE B == {i \in 0..Len(l) : \E x \in Branch(l, i) :
                    Branch(l, x) # {j \in Branch(l, i) : j <= x}}
<1>1. B = {}
  <2> SUFFICES ASSUME B # {} PROVE FALSE
    OBVIOUS
  <2>1. B \in SUBSET Nat
    OBVIOUS
  <2>2. PICK b \in B : \A y \in B : b <= y
    <3> HIDE DEF B
    <3> QED BY <2>1, LeastExists
  <2>3. PICK x \in Branch(l, b) : Branch(l, x) # {j \in Branch(l, b) : j <= x}
    OBVIOUS
  <2>4. b # 0
    BY BranchStep, <2>3
  <2>5. b \in 1..Len(l)
    BY <2>4
  <2>6. l[b].parent \in 0..(b - 1) /\ l[b].parent \in 0..Len(l)
    BY <2>5 DEF ParentsFirst
  <2> DEFINE p == l[b].parent
  <2>7. Branch(l, b) = Branch(l, p) \cup {b}
    BY <2>5, BranchStep
  <2>8. Branch(l, p) \subseteq 1..p /\ Branch(l, b) \subseteq 1..b
    BY <2>5, <2>6, BranchBounds
  <2>9. CASE x = b
    BY <2>9, <2>3, <2>8, <2>5
  <2>10. CASE x # b
    <3>1. x \in Branch(l, p) /\ x < b
        BY <2>10, <2>3, <2>7, <2>8, <2>6
    <3>2. p \notin B
        BY <2>2, <2>6, <2>5
    <3>3. Branch(l, x) = {j \in Branch(l, p) : j <= x}
        BY <3>1, <3>2, <2>6
    <3>4. {j \in Branch(l, p) : j <= x} = {j \in Branch(l, b) : j <= x}
        BY <2>7, <3>1, <2>5, <2>8
    <3> QED BY <3>3, <3>4, <2>3
  <2> QED BY <2>9, <2>10
<1>2. Branch(l, n) \subseteq 1..n
    BY BranchBounds
<1> QED BY <1>1, <1>2

\* A session that begins with another one has the same paths to its entries.
LEMMA BranchSame ==
    ASSUME NEW l, Len(l) \in Nat, ParentsFirst(l),
           NEW m, Len(m) \in Nat, ParentsFirst(m), Len(l) <= Len(m),
           \A i \in 1..Len(l) : m[i] = l[i]
    PROVE  \A i \in 0..Len(l) : Branch(m, i) = Branch(l, i)
<1> DEFINE B == {i \in 0..Len(l) : Branch(m, i) # Branch(l, i)}
<1>1. B = {}
  <2> SUFFICES ASSUME B # {} PROVE FALSE
    OBVIOUS
  <2>1. B \in SUBSET Nat
    OBVIOUS
  <2>2. PICK b \in B : \A y \in B : b <= y
    <3> HIDE DEF B
    <3> QED BY <2>1, LeastExists
  <2>3. b # 0
    BY BranchStep
  <2>4. b \in 1..Len(l) /\ b \in 1..Len(m)
    BY <2>3
  <2>5. l[b].parent \in 0..(b - 1) /\ m[b] = l[b]
    BY <2>4 DEF ParentsFirst
  <2>6. l[b].parent \notin B /\ l[b].parent \in 0..Len(l)
    BY <2>2, <2>4, <2>5
  <2>7. Branch(l, b) = Branch(l, l[b].parent) \cup {b}
    BY <2>4, BranchStep
  <2>8. Branch(m, b) = Branch(m, l[b].parent) \cup {b}
    BY <2>4, <2>5, BranchStep
  <2> QED BY <2>6, <2>7, <2>8
<1> QED BY <1>1

-----------------------------------------------------------------------------
(***************************************************************************)
(* The inductive invariant, of a session l.  An entry is judged by what is *)
(* before it, so that it stays good as the session grows.                  *)
(***************************************************************************)
Plain == {"user", "assistant", "calls", "bash", "setting", "custom", "branch"}

Stored ==
    [kind : Plain, parent : Nat]
      \cup [kind : {"result"}, parent : Nat, call : Nat]
      \cup [kind : {"compaction"}, parent : Nat, from : Nat, keep : Nat,
            covers : SUBSET Nat, lost : SUBSET Nat]

AstrayIn(l, S) == \E i \in S : l[i].kind = "compaction" /\ l[i].keep \notin S
MovedIn(l, S) == \E i \in S : l[i].kind = "compaction" /\ l[i].from \notin S
MessagesIn(l, S) == {i \in S : l[i].kind \in Shows}

(* What a summary leaves out of the path to the first entry kept it covers *)
(* or has lost.                                                            *)
Covered(l, c) ==
    ~AstrayIn(l, Branch(l, c.keep))
        => MessagesIn(l, Branch(l, c.keep) \ {c.keep}) \subseteq c.covers \cup c.lost

(* Cutting the path S before k parts no result from its call. *)
CutOK(l, S, k) ==
    \A i \in S : l[i].kind = "result" /\ l[i].call \in S
                   => ~(l[i].call < k /\ k <= i)

CompactionOK(l, e, n) ==
    /\ e.from \in 1..(n - 1)
    /\ e.keep \in Branch(l, e.from)
    /\ Covered(l, e)
    /\ e.from \in Branch(l, e.parent) /\ ~MovedIn(l, Branch(l, e.parent))
          => CutOK(l, Branch(l, e.parent), e.keep)

(* The result at n answers call a: no message is between the two, and no   *)
(* compaction before the result was prepared after the call.               *)
AnswersAt(l, a, n) ==
    /\ a \in 1..(n - 1)
    /\ l[a].kind = "calls"
    /\ \A j \in (a + 1)..(n - 1) : l[j].kind \notin MessageEntries
    /\ \A j \in 1..(n - 1) : l[j].kind = "compaction" => l[j].keep < a

EntryOK(l, e, n) ==
    /\ e.parent \in 0..(n - 1)
    /\ e.kind = "result" => AnswersAt(l, e.call, n)
    /\ e.kind = "compaction" => CompactionOK(l, e, n)

LogOK(l) ==
    /\ l \in Seq(Stored)
    /\ \A i \in 1..Len(l) : EntryOK(l, l[i], i)

(* A compaction in preparation: wherever the leaf is moved among the       *)
(* entries after the one it was prepared at, its cut is good there.        *)
PreparedOK(l, p) ==
    /\ p \in [from : Nat, keep : Nat, covers : SUBSET Nat, lost : SUBSET Nat]
    /\ p.from \in 1..Len(l)
    /\ p.keep \in Branch(l, p.from)
    /\ Covered(l, p)
    /\ \A x \in 1..Len(l) :
          p.from \in Branch(l, x) /\ ~MovedIn(l, Branch(l, x))
              => CutOK(l, Branch(l, x), p.keep)

(* A call that awaits its result: no message follows it and whatever is    *)
(* being compacted was prepared before it.                                 *)
CallOK ==
    call # 0 => /\ running
                /\ AnswersAt(log, call, Len(log) + 1)
                /\ \A way \in Ways : \A p \in compacting[way] : p.keep < call

CompactionInv ==
    /\ LogOK(log)
    /\ leaf \in 0..Len(log)
    /\ branching \subseteq 1..Len(log)
    /\ compacting \in [Ways -> SUBSET [from : Nat, keep : Nat, covers : SUBSET Nat,
                                       lost : SUBSET Nat]]
    /\ \A way \in Ways : \A p \in compacting[way] : PreparedOK(log, p)
    /\ CallOK

-----------------------------------------------------------------------------
(***************************************************************************)
(* What the invariant says of one session.                                 *)
(***************************************************************************)
LEMMA LogBasics ==
    ASSUME NEW l, LogOK(l)
    PROVE  Len(l) \in Nat /\ ParentsFirst(l) /\ DOMAIN l = 1..Len(l)
<1>1. Len(l) \in Nat /\ DOMAIN l = 1..Len(l)
    BY LenProperties DEF LogOK
<1>2. ParentsFirst(l)
    BY DEF LogOK, EntryOK, ParentsFirst
<1> QED BY <1>1, <1>2

\* The first entry that a compaction keeps is before it and on its path, if
\* the entry that it was prepared at is.
LEMMA KeepBefore ==
    ASSUME NEW l, LogOK(l), NEW c \in 1..Len(l), l[c].kind = "compaction"
    PROVE  /\ l[c].from \in 1..(c - 1)
           /\ l[c].keep \in 1..(c - 1)
           /\ l[c].keep \in Branch(l, l[c].from)
<1>1. CompactionOK(l, l[c], c)
    BY DEF LogOK, EntryOK
<1>2. l[c].from \in 1..(c - 1) /\ l[c].keep \in Branch(l, l[c].from)
    BY <1>1 DEF CompactionOK
<1>3. Len(l) \in Nat /\ ParentsFirst(l) /\ l[c].from \in 0..Len(l)
    BY <1>2, LogBasics
<1>4. Branch(l, l[c].from) \subseteq 1..l[c].from
    BY <1>3, BranchBounds
<1> QED BY <1>2, <1>4

\* A path that is not astray, or on which nothing was moved, begins with
\* paths of the same kind.
LEMMA GoodPrefix ==
    ASSUME NEW l, LogOK(l), NEW n \in 0..Len(l), NEW k \in Branch(l, n)
    PROVE  /\ AstrayIn(l, Branch(l, k)) => AstrayIn(l, Branch(l, n))
           /\ MovedIn(l, Branch(l, k)) => MovedIn(l, Branch(l, n))
<1>0. Len(l) \in Nat /\ ParentsFirst(l)
    BY LogBasics
<1>1. k \in 1..n /\ Branch(l, k) = {j \in Branch(l, n) : j <= k}
    BY <1>0, BranchPrefix
<1>2. \A i \in Branch(l, k) : i \in 1..Len(l) /\ i <= k
  <2>1. Branch(l, n) \subseteq 1..n
    BY <1>0, BranchBounds
  <2> QED BY <1>0, <1>1, <2>1
<1>3. ASSUME NEW i \in Branch(l, k), l[i].kind = "compaction"
      PROVE  /\ l[i].keep \in Branch(l, n) => l[i].keep \in Branch(l, k)
             /\ l[i].from \in Branch(l, n) => l[i].from \in Branch(l, k)
  <2>1. l[i].from \in 1..(i - 1) /\ l[i].keep \in 1..(i - 1)
    BY <1>2, <1>3, KeepBefore
  <2>2. l[i].from <= k /\ l[i].keep <= k
    BY <2>1, <1>2, <1>1
  <2> QED BY <2>2, <1>1
<1>4. Branch(l, k) \subseteq Branch(l, n)
    BY <1>1
<1>5. ASSUME AstrayIn(l, Branch(l, k)) PROVE AstrayIn(l, Branch(l, n))
    BY <1>5, <1>3, <1>4 DEF AstrayIn
<1>6. ASSUME MovedIn(l, Branch(l, k)) PROVE MovedIn(l, Branch(l, n))
    BY <1>6, <1>3, <1>4 DEF MovedIn
<1> QED BY <1>5, <1>6

\* A compaction on a path where nothing was moved: its first kept entry is
\* on the path, and its cut parts no result before it from its call.
LEMMA CutOnPath ==
    ASSUME NEW l, LogOK(l), NEW n \in 0..Len(l), NEW c \in Branch(l, n),
           l[c].kind = "compaction", ~MovedIn(l, Branch(l, n))
    PROVE  /\ l[c].keep \in Branch(l, n)
           /\ \A i \in Branch(l, n) :
                 l[i].kind = "result" /\ l[i].call \in Branch(l, n) /\ i <= c
                    => ~(l[i].call < l[c].keep /\ l[c].keep <= i)
<1>0. Len(l) \in Nat /\ ParentsFirst(l)
    BY LogBasics
<1>1. /\ c \in 1..n /\ c \in 1..Len(l)
      /\ Branch(l, c) = {j \in Branch(l, n) : j <= c}
    BY <1>0, BranchPrefix
<1>2. l[c].from \in Branch(l, n)
    BY DEF MovedIn
<1>3. l[c].from \in 1..(c - 1) /\ l[c].keep \in Branch(l, l[c].from)
    BY <1>1, KeepBefore
<1>4. Branch(l, l[c].from) \subseteq Branch(l, n)
    BY <1>0, <1>2, BranchPrefix
<1>5. l[c].keep \in Branch(l, n)
    BY <1>3, <1>4
<1>6. Branch(l, c) = Branch(l, l[c].parent) \cup {c} /\ l[c].parent \in 0..(c - 1)
    BY <1>0, <1>1, BranchStep DEF ParentsFirst
<1>7. l[c].from \in Branch(l, l[c].parent)
    BY <1>1, <1>2, <1>3, <1>6
<1>8. ~MovedIn(l, Branch(l, l[c].parent))
  <2>1. ~MovedIn(l, Branch(l, c))
    BY GoodPrefix
  <2>2. CASE l[c].parent = 0
    BY <2>2, <1>7, <1>0, BranchStep
  <2>3. CASE l[c].parent # 0
    <3>1. l[c].parent \in Branch(l, c)
      <4>1. l[c].parent \in 0..Len(l)
        BY <1>1, <1>6, <1>0
      <4> QED BY <4>1, <2>3, <1>0, <1>6, BranchBounds
    <3>2. c \in 0..Len(l)
        BY <1>1
    <3> QED BY <3>1, <3>2, <2>1, GoodPrefix
  <2> QED BY <2>2, <2>3
<1>9. CutOK(l, Branch(l, l[c].parent), l[c].keep)
  <2>1. CompactionOK(l, l[c], c)
    BY <1>1 DEF LogOK, EntryOK
  <2> QED BY <2>1, <1>7, <1>8 DEF CompactionOK
<1>10. ASSUME NEW i \in Branch(l, n), l[i].kind = "result", l[i].call \in Branch(l, n),
              i <= c
       PROVE  ~(l[i].call < l[c].keep /\ l[c].keep <= i)
  <2>1. i # c /\ i \in Branch(l, c)
    BY <1>10, <1>1
  <2>2. i \in 1..n /\ i \in 1..Len(l)
    BY <1>0, BranchPrefix
  <2>3. l[i].call \in 1..(i - 1)
    BY <2>2, <1>10 DEF LogOK, EntryOK, AnswersAt
  <2>4. l[i].call \in Branch(l, c) /\ l[i].call # c
    BY <2>3, <1>10, <1>1, <2>2
  <2>5. i \in Branch(l, l[c].parent) /\ l[i].call \in Branch(l, l[c].parent)
    BY <2>1, <2>4, <1>6
  <2> QED BY <2>5, <1>10, <1>9 DEF CutOK
<1> QED BY <1>5, <1>10

-----------------------------------------------------------------------------
(***************************************************************************)
(* The session grows by an entry.                                          *)
(***************************************************************************)
GrownBy(l, e, m) ==
    /\ m \in Seq(Stored)
    /\ Len(m) = Len(l) + 1
    /\ \A i \in 1..Len(l) : m[i] = l[i]
    /\ m[Len(l) + 1] = e
    /\ ParentsFirst(m)
    /\ \A i \in 0..Len(l) : Branch(m, i) = Branch(l, i)
    /\ Branch(m, Len(l) + 1) = Branch(l, e.parent) \cup {Len(l) + 1}

\* An appended entry changes no path but its own.
LEMMA Grown ==
    ASSUME NEW l, LogOK(l), NEW e \in Stored, e.parent \in 0..Len(l),
           NEW m, m = Append(l, e)
    PROVE  GrownBy(l, e, m)
<1>0. Len(l) \in Nat /\ ParentsFirst(l)
    BY LogBasics
<1>1. /\ m \in Seq(Stored) /\ Len(m) = Len(l) + 1
      /\ \A i \in 1..Len(l) : m[i] = l[i]
      /\ m[Len(l) + 1] = e
    BY AppendProperties DEF LogOK
<1>2. ParentsFirst(m)
  <2> SUFFICES ASSUME NEW i \in 1..Len(m) PROVE m[i].parent \in 0..(i - 1)
    BY DEF ParentsFirst
  <2>1. CASE i = Len(l) + 1
    BY <2>1, <1>1, <1>0
  <2>2. CASE i # Len(l) + 1
    <3>1. i \in 1..Len(l)
        BY <2>2, <1>1, <1>0
    <3> QED BY <3>1, <1>1, <1>0 DEF ParentsFirst
  <2> QED BY <2>1, <2>2
<1>3. \A i \in 0..Len(l) : Branch(m, i) = Branch(l, i)
  <2>1. Len(m) \in Nat /\ Len(l) <= Len(m)
    BY <1>0, <1>1
  <2> QED BY <2>1, <1>0, <1>1, <1>2, BranchSame
<1>4. Branch(m, Len(l) + 1) = Branch(m, e.parent) \cup {Len(l) + 1}
  <2>1. Len(m) \in Nat /\ Len(l) + 1 \in 1..Len(m)
    BY <1>0, <1>1
  <2>2. Branch(m, Len(l) + 1) = Branch(m, m[Len(l) + 1].parent) \cup {Len(l) + 1}
    BY <2>1, <1>2, BranchStep
  <2> QED BY <2>2, <1>1
<1>5. Branch(m, e.parent) = Branch(l, e.parent)
    BY <1>3
<1> QED BY <1>1, <1>2, <1>3, <1>4, <1>5 DEF GrownBy

\* What is said of entries that were there is said of them still.
LEMMA SameSaid ==
    ASSUME NEW l, NEW m, NEW S, \A i \in S : m[i] = l[i]
    PROVE  /\ AstrayIn(m, S) = AstrayIn(l, S)
           /\ MovedIn(m, S) = MovedIn(l, S)
           /\ MessagesIn(m, S) = MessagesIn(l, S)
<1>1. AstrayIn(m, S) = AstrayIn(l, S)
    BY DEF AstrayIn
<1>2. MovedIn(m, S) = MovedIn(l, S)
    BY DEF MovedIn
<1>3. MessagesIn(m, S) = MessagesIn(l, S)
    BY DEF MessagesIn
<1> QED BY <1>1, <1>2, <1>3

\* A cut that is good of a path is good of it in a session with the same entries.
LEMMA SameCut ==
    ASSUME NEW l, NEW m, NEW S, \A i \in S : m[i] = l[i], NEW k, CutOK(l, S, k)
    PROVE  CutOK(m, S, k)
BY DEF CutOK

\* A compaction, prepared or written, that was good of the session before is
\* good of the longer one.
LEMMA CompactionStays ==
    ASSUME NEW l, LogOK(l), NEW e \in Stored, e.parent \in 0..Len(l),
           NEW m, m = Append(l, e), NEW c, NEW n \in 1..(Len(l) + 1),
           c.parent \in 0..(n - 1), CompactionOK(l, c, n)
    PROVE  CompactionOK(m, c, n)
<1>0. Len(l) \in Nat /\ ParentsFirst(l)
    BY LogBasics
<1>1. /\ m \in Seq(Stored)
      /\ Len(m) = Len(l) + 1
      /\ \A i \in 1..Len(l) : m[i] = l[i]
      /\ m[Len(l) + 1] = e
      /\ ParentsFirst(m)
      /\ \A i \in 0..Len(l) : Branch(m, i) = Branch(l, i)
      /\ Branch(m, Len(l) + 1) = Branch(l, e.parent) \cup {Len(l) + 1}
  <2>1. GrownBy(l, e, m)
    BY Grown
  <2> QED BY <2>1 DEF GrownBy
<1>2. \A x \in 0..Len(l) : \A i \in Branch(l, x) : i \in 1..Len(l) /\ m[i] = l[i]
  <2>1. ASSUME NEW x \in 0..Len(l) PROVE Branch(l, x) \subseteq 1..x
    BY <1>0, BranchBounds
  <2> QED BY <2>1, <1>0, <1>1
<1>3. /\ c.from \in 1..(n - 1) /\ c.from \in 0..Len(l) /\ c.parent \in 0..Len(l)
      /\ c.keep \in Branch(l, c.from)
    BY <1>0 DEF CompactionOK
<1>4. c.keep \in 0..Len(l)
    BY <1>2, <1>3
<1>5. Covered(m, c)
  <2>1. Covered(l, c)
    BY DEF CompactionOK
  <2>2. AstrayIn(m, Branch(l, c.keep)) = AstrayIn(l, Branch(l, c.keep))
    BY <1>2, <1>4, SameSaid
  <2>3. MessagesIn(m, Branch(l, c.keep) \ {c.keep})
            = MessagesIn(l, Branch(l, c.keep) \ {c.keep})
    BY <1>2, <1>4, SameSaid
  <2> QED BY <2>1, <2>2, <2>3, <1>1, <1>4 DEF Covered
<1>6. /\ MovedIn(m, Branch(l, c.parent)) = MovedIn(l, Branch(l, c.parent))
      /\ CutOK(l, Branch(l, c.parent), c.keep) => CutOK(m, Branch(l, c.parent), c.keep)
  <2>1. \A i \in Branch(l, c.parent) : m[i] = l[i]
    BY <1>2, <1>3
  <2>2. MovedIn(m, Branch(l, c.parent)) = MovedIn(l, Branch(l, c.parent))
    BY <2>1, SameSaid
  <2>3. ASSUME CutOK(l, Branch(l, c.parent), c.keep)
        PROVE  CutOK(m, Branch(l, c.parent), c.keep)
    BY <2>1, <2>3, SameCut
  <2> QED BY <2>2, <2>3
<1>7. Branch(m, c.parent) = Branch(l, c.parent) /\ Branch(m, c.from) = Branch(l, c.from)
    BY <1>1, <1>3
<1> QED BY <1>3, <1>5, <1>6, <1>7 DEF CompactionOK

\* An entry that was good of the session before is good of the longer one.
LEMMA EntryStays ==
    ASSUME NEW l, LogOK(l), NEW e \in Stored, e.parent \in 0..Len(l),
           NEW m, m = Append(l, e), NEW d, NEW n \in 1..(Len(l) + 1), EntryOK(l, d, n)
    PROVE  EntryOK(m, d, n)
<1>0. Len(l) \in Nat
    BY LogBasics
<1>1. d.parent \in 0..(n - 1)
    BY DEF EntryOK
<1>2. ASSUME d.kind = "compaction" PROVE CompactionOK(m, d, n)
    BY <1>1, <1>2, CompactionStays DEF EntryOK
<1>3. ASSUME d.kind = "result" PROVE AnswersAt(m, d.call, n)
  <2>1. AnswersAt(l, d.call, n)
    BY <1>3 DEF EntryOK
  <2>2. \A i \in 1..(n - 1) : m[i] = l[i]
    <3>1. GrownBy(l, e, m)
        BY Grown
    <3> QED BY <1>0, <3>1 DEF GrownBy
  <2>3. d.call \in 1..(n - 1) /\ \A j \in (d.call + 1)..(n - 1) : j \in 1..(n - 1)
    BY <2>1 DEF AnswersAt
  <2> QED BY <2>1, <2>2, <2>3 DEF AnswersAt
<1> QED BY <1>1, <1>2, <1>3 DEF EntryOK

\* A session with one more good entry is good.
LEMMA LogGrows ==
    ASSUME NEW l, LogOK(l), NEW e \in Stored, EntryOK(l, e, Len(l) + 1),
           NEW m, m = Append(l, e)
    PROVE  LogOK(m)
<1>0. Len(l) \in Nat /\ e.parent \in 0..Len(l)
    BY LogBasics DEF EntryOK
<1>1. /\ m \in Seq(Stored)
      /\ Len(m) = Len(l) + 1
      /\ \A i \in 1..Len(l) : m[i] = l[i]
      /\ m[Len(l) + 1] = e
      /\ ParentsFirst(m)
      /\ \A i \in 0..Len(l) : Branch(m, i) = Branch(l, i)
      /\ Branch(m, Len(l) + 1) = Branch(l, e.parent) \cup {Len(l) + 1}
  <2>1. GrownBy(l, e, m)
    BY <1>0, Grown
  <2> QED BY <2>1 DEF GrownBy
<1>2. ASSUME NEW i \in 1..Len(m) PROVE EntryOK(m, m[i], i)
  <2>1. CASE i = Len(l) + 1
    <3>1. i \in 1..(Len(l) + 1) /\ m[i] = e /\ EntryOK(l, e, i)
        BY <2>1, <1>0, <1>1
    <3>2. EntryOK(m, e, i)
        BY <3>1, <1>0, EntryStays
    <3> QED BY <3>1, <3>2
  <2>2. CASE i # Len(l) + 1
    <3>1. i \in 1..Len(l) /\ i \in 1..(Len(l) + 1)
        BY <2>2, <1>0, <1>1
    <3>2. EntryOK(l, m[i], i)
        BY <3>1, <1>1 DEF LogOK
    <3> QED BY <3>1, <3>2, <1>0, EntryStays
  <2> QED BY <2>1, <2>2
<1> QED BY <1>1, <1>2 DEF LogOK

\* A compaction in preparation stays good when an entry is written, if that
\* is no result of a call before its cut.
LEMMA PreparedStays ==
    ASSUME NEW l, LogOK(l), NEW e \in Stored, EntryOK(l, e, Len(l) + 1),
           NEW m, m = Append(l, e), NEW p, PreparedOK(l, p),
           e.kind = "result" => p.keep < e.call
    PROVE  PreparedOK(m, p)
<1>0. Len(l) \in Nat /\ ParentsFirst(l) /\ e.parent \in 0..Len(l)
    BY LogBasics DEF EntryOK
<1>1. /\ m \in Seq(Stored)
      /\ Len(m) = Len(l) + 1
      /\ \A i \in 1..Len(l) : m[i] = l[i]
      /\ m[Len(l) + 1] = e
      /\ ParentsFirst(m)
      /\ \A i \in 0..Len(l) : Branch(m, i) = Branch(l, i)
      /\ Branch(m, Len(l) + 1) = Branch(l, e.parent) \cup {Len(l) + 1}
  <2>1. GrownBy(l, e, m)
    BY <1>0, Grown
  <2> QED BY <2>1 DEF GrownBy
<1>2. \A x \in 0..Len(l) : Branch(l, x) \subseteq 1..Len(l)
  <2>1. ASSUME NEW x \in 0..Len(l) PROVE Branch(l, x) \subseteq 1..x
    BY <1>0, BranchBounds
  <2> QED BY <2>1, <1>0
<1>3. /\ p \in [from : Nat, keep : Nat, covers : SUBSET Nat, lost : SUBSET Nat]
      /\ p.from \in 1..Len(l) /\ p.from \in 0..Len(l) /\ p.from \in 1..Len(m)
      /\ p.keep \in Branch(l, p.from)
      /\ Covered(l, p)
    BY <1>0, <1>1 DEF PreparedOK
<1>4. p.keep \in 0..Len(l)
    BY <1>2, <1>3
<1>5. Covered(m, p)
  <2>1. \A i \in Branch(l, p.keep) : m[i] = l[i]
    BY <1>1, <1>2, <1>4
  <2>2. AstrayIn(m, Branch(l, p.keep)) = AstrayIn(l, Branch(l, p.keep))
    BY <2>1, SameSaid
  <2>3. MessagesIn(m, Branch(l, p.keep) \ {p.keep})
            = MessagesIn(l, Branch(l, p.keep) \ {p.keep})
    BY <2>1, SameSaid
  <2> QED BY <2>2, <2>3, <1>1, <1>3, <1>4 DEF Covered
<1>6. ASSUME NEW x \in 1..Len(l), p.from \in Branch(l, x), ~MovedIn(m, Branch(l, x))
      PROVE  CutOK(l, Branch(l, x), p.keep) /\ CutOK(m, Branch(l, x), p.keep)
  <2>1. \A i \in Branch(l, x) : m[i] = l[i]
    BY <1>1, <1>2
  <2>2. MovedIn(m, Branch(l, x)) = MovedIn(l, Branch(l, x))
    BY <2>1, SameSaid
  <2>3. CutOK(l, Branch(l, x), p.keep)
    BY <1>6, <2>2 DEF PreparedOK
  <2>4. CutOK(m, Branch(l, x), p.keep)
    BY <2>1, <2>3, SameCut
  <2> QED BY <2>3, <2>4
<1>7. ASSUME NEW x \in 1..Len(m), p.from \in Branch(m, x), ~MovedIn(m, Branch(m, x))
      PROVE  CutOK(m, Branch(m, x), p.keep)
  <2>1. CASE x \in 1..Len(l)
    <3>1. Branch(m, x) = Branch(l, x)
        BY <2>1, <1>1
    <3> QED BY <2>1, <3>1, <1>7, <1>6
  <2>2. CASE x = Len(l) + 1
    <3> DEFINE q == e.parent
    <3>1. Branch(m, x) = Branch(l, q) \cup {x}
        BY <2>2, <1>1
    <3>2. p.from \in Branch(l, q) /\ q # 0 /\ q \in 1..Len(l)
      <4>1. p.from # x
        BY <1>3, <2>2, <1>0
      <4>2. p.from \in Branch(l, q)
        BY <4>1, <3>1, <1>7
      <4>3. q # 0
        BY <4>2, <1>0, BranchStep
      <4> QED BY <4>2, <4>3, <1>0
    <3>3. ~MovedIn(m, Branch(l, q))
      <4> SUFFICES ASSUME NEW i \in Branch(l, q), m[i].kind = "compaction",
                          m[i].from \notin Branch(l, q)
                   PROVE  FALSE
        BY DEF MovedIn
      <4>1. i \in 1..Len(l) /\ l[i].kind = "compaction" /\ m[i].from = l[i].from
        BY <1>1, <1>2, <3>2
      <4>2. l[i].from \in 1..(i - 1)
        BY <4>1, KeepBefore
      <4>3. m[i].from # x
        BY <4>1, <4>2, <2>2, <1>0
      <4>4. m[i].from \notin Branch(m, x) /\ i \in Branch(m, x)
        BY <4>3, <3>1
      <4> QED BY <4>4, <1>7 DEF MovedIn
    <3>4. CutOK(m, Branch(l, q), p.keep)
        BY <3>2, <3>3, <1>6
    <3>5. ASSUME NEW i \in Branch(m, x), m[i].kind = "result", m[i].call \in Branch(m, x),
                 m[i].call < p.keep, p.keep <= i
          PROVE  FALSE
      <4>1. CASE i = x
        <5>1. m[i] = e /\ p.keep < e.call
            BY <4>1, <2>2, <1>1, <3>5
        <5>2. e.call \in Nat /\ p.keep \in Nat
            BY <5>1, <3>5, <1>3, <1>0 DEF EntryOK, AnswersAt
        <5> QED BY <5>1, <5>2, <3>5
      <4>2. CASE i # x
        <5>1. i \in Branch(l, q) /\ i \in 1..Len(l) /\ m[i] = l[i]
            BY <4>2, <3>1, <3>2, <1>1, <1>2
        <5>2. l[i].call \in 1..(i - 1)
            BY <5>1, <3>5 DEF LogOK, EntryOK, AnswersAt
        <5>3. m[i].call # x
            BY <5>1, <5>2, <2>2, <1>0
        <5>4. m[i].call \in Branch(l, q)
            BY <5>3, <3>5, <3>1
        <5> QED BY <5>1, <5>4, <3>4, <3>5 DEF CutOK
      <4> QED BY <4>1, <4>2
    <3> HIDE DEF q
    <3> QED BY <3>5 DEF CutOK
  <2>3. x \in 1..Len(l) \/ x = Len(l) + 1
    BY <1>0, <1>1
  <2> QED BY <2>1, <2>2, <2>3
<1>8. p.keep \in Branch(m, p.from)
    BY <1>1, <1>3
<1> QED BY <1>3, <1>5, <1>7, <1>8 DEF PreparedOK

-----------------------------------------------------------------------------
(***************************************************************************)
(* The cut.                                                                *)
(***************************************************************************)
\* getLatestCompactionEntry.
LEMMA LatestIs ==
    ASSUME NEW n \in Nat, NEW path \in SUBSET (1..n)
    PROVE  \/ /\ Latest(path) = 0
              /\ \A i \in path : Kind(i) # "compaction"
           \/ /\ Latest(path) # 0 /\ Latest(path) \in path
              /\ Kind(Latest(path)) = "compaction"
              /\ \A i \in path : Kind(i) = "compaction" => i <= Latest(path)
<1> DEFINE S == {0} \cup {i \in path : Kind(i) = "compaction"}
<1>1. S \in SUBSET (0..n) /\ S # {}
  <2>1. 0 \in S /\ \A i \in S : i \in 0..n
    OBVIOUS
  <2> HIDE DEF S
  <2> QED BY <2>1
<1>2. Max(S) \in S /\ \A y \in S : Max(S) >= y
  <2> HIDE DEF S
  <2> QED BY <1>1, MaxIs
<1>3. Latest(path) = Max(S)
    BY DEF Latest
<1>4. CASE Latest(path) = 0
  <2>1. ASSUME NEW i \in path, Kind(i) = "compaction" PROVE FALSE
    <3>1. i \in S /\ i \in 1..n
        BY <2>1
    <3>2. 0 >= i
        BY <3>1, <1>2, <1>3, <1>4
    <3> QED BY <3>1, <3>2
  <2> QED BY <2>1, <1>4
<1>5. CASE Latest(path) # 0
  <2>1. Latest(path) \in path /\ Kind(Latest(path)) = "compaction"
    BY <1>2, <1>3, <1>5
  <2>2. ASSUME NEW i \in path, Kind(i) = "compaction" PROVE i <= Latest(path)
    <3>1. i \in S /\ i \in 1..n /\ Latest(path) \in 1..n
        BY <2>1, <2>2
    <3>2. Latest(path) >= i
        BY <3>1, <1>2, <1>3
    <3> QED BY <3>1, <3>2
  <2> QED BY <2>1, <2>2, <1>5
<1> QED BY <1>4, <1>5

\* Where findCutPoint begins to keep: at a cut point, the first at or after
\* the message that spent the budget, or at entries before it that are no
\* messages.
LEMMA CutAtIs ==
    ASSUME NEW n \in Nat, NEW range \in SUBSET (1..n), CutPoints(range) # {},
           NEW spent \in Nat
    PROVE  \E cut \in CutPoints(range) :
              /\ \/ \A c \in CutPoints(range) : cut <= c
                 \/ /\ spent # 0 /\ cut >= spent
                    /\ \A c \in CutPoints(range) : c >= spent => cut <= c
              /\ CutAt(range, spent) \in range
              /\ CutAt(range, spent) <= cut
              /\ \A j \in range : CutAt(range, spent) <= j /\ j < cut
                    => Kind(j) \notin MessageEntries
<1> DEFINE after == {c \in CutPoints(range) : c >= spent}
           from == IF spent = 0 \/ after = {} THEN CutPoints(range) ELSE after
           cut == Min(from)
           back == {i \in range : /\ i <= cut
                                  /\ \A j \in range : i <= j /\ j < cut =>
                                        Kind(j) \notin MessageEntries \cup {"compaction"}}
<1>1. CutPoints(range) \subseteq range
    BY DEF CutPoints, Messages
<1>2. from \in SUBSET Nat /\ from # {}
  <2>1. range \subseteq Nat /\ CutPoints(range) \subseteq Nat
    <3>1. range \subseteq Nat
        OBVIOUS
    <3> QED BY <3>1, <1>1
  <2>2. after \in SUBSET Nat
    BY <2>1
  <2> HIDE DEF after
  <2> QED BY <2>1, <2>2
<1>3. cut \in from /\ \A c \in from : cut <= c
  <2> HIDE DEF from
  <2> QED BY <1>2, MinIs
<1>4. cut \in CutPoints(range)
    BY <1>3
<1>5. \/ \A c \in CutPoints(range) : cut <= c
      \/ /\ spent # 0 /\ cut >= spent
         /\ \A c \in CutPoints(range) : c >= spent => cut <= c
    BY <1>3
<1>6. CutAt(range, spent) = Min(back)
    BY DEF CutAt
<1> HIDE DEF cut, from, after
<1>7. cut \in range /\ cut \in Nat
  <2>1. cut \in range
    BY <1>4, <1>1
  <2> QED BY <2>1
<1>8. back \in SUBSET Nat /\ cut \in back
  <2>1. back \subseteq range /\ range \subseteq Nat
    OBVIOUS
  <2>2. cut <= cut /\ \A j \in range : ~(cut <= j /\ j < cut)
    BY <1>7
  <2>3. cut \in back
    BY <2>2, <1>7
  <2> HIDE DEF back
  <2> QED BY <2>1, <2>3
<1>9. Min(back) \in back
  <2> HIDE DEF back
  <2> QED BY <1>8, MinIs
<1>10. /\ CutAt(range, spent) \in range
       /\ CutAt(range, spent) <= cut
       /\ \A j \in range : CutAt(range, spent) <= j /\ j < cut
             => Kind(j) \notin MessageEntries
    BY <1>9, <1>6
<1> QED BY <1>4, <1>5, <1>10

\* findCutPoint keeps from an entry of its range, and a turn that it splits
\* begins in the range, not after that entry.
LEMMA CutPointIs ==
    ASSUME NEW n \in Nat, NEW range \in SUBSET (1..n), range # {}, NEW spent \in Nat
    PROVE  LET c == findCutPoint(range, spent) IN
           /\ c.keep \in range
           /\ c.turn = 0 \/ (c.turn \in range /\ c.turn <= c.keep)
<1> DEFINE c == findCutPoint(range, spent)
<1>1. CASE CutPoints(range) = {}
  <2>1. c = [keep |-> Min(range), turn |-> 0]
    BY <1>1 DEF findCutPoint
  <2>2. range \in SUBSET Nat
    OBVIOUS
  <2> QED BY <2>1, <2>2, MinIs
<1>2. CASE CutPoints(range) # {}
  <2> DEFINE keep == CutAt(range, spent)
             T == {0} \cup {i \in range : i <= keep /\ Kind(i) \in UserRole}
  <2>1. keep \in range
    BY <1>2, CutAtIs
  <2>2. c = [keep |-> keep, turn |-> IF Kind(keep) = "user" THEN 0 ELSE Max(T)]
    BY <1>2 DEF findCutPoint
  <2>3. T \in SUBSET (0..n) /\ T # {}
    <3>1. 0 \in T /\ \A i \in T : i \in 0..n
        OBVIOUS
    <3> HIDE DEF T
    <3> QED BY <3>1
  <2>4. Max(T) \in T
    <3> HIDE DEF T
    <3> QED BY <2>3, MaxIs
  <2>5. Max(T) = 0 \/ (Max(T) \in range /\ Max(T) <= keep)
    BY <2>4
  <2> HIDE DEF keep, T
  <2> QED BY <2>1, <2>2, <2>5
<1> QED BY <1>1, <1>2

\* findCutPoint does not begin to keep between a call of its range and the
\* result, if no message of the range is between the two.
LEMMA CutApart ==
    ASSUME NEW n \in Nat, NEW range \in SUBSET (1..n),
           NEW spent \in {0} \cup {i \in range : Kind(i) \in MessageEntries},
           NEW a \in range, Kind(a) = "calls",
           NEW i \in Nat, Kind(i) = "result",
           \A j \in range : a < j /\ j < i => Kind(j) \notin MessageEntries,
           i \in range \/ \A j \in range : j < i
    PROVE  ~(a < findCutPoint(range, spent).keep /\ findCutPoint(range, spent).keep <= i)
<1>0. spent \in Nat /\ a \in Nat
    OBVIOUS
<1>1. a \in CutPoints(range)
    BY DEF CutPoints, Messages, Shows, MessageEntries
<1>2. PICK cut \in CutPoints(range) :
              /\ \/ \A c \in CutPoints(range) : cut <= c
                 \/ /\ spent # 0 /\ cut >= spent
                    /\ \A c \in CutPoints(range) : c >= spent => cut <= c
              /\ CutAt(range, spent) \in range
              /\ CutAt(range, spent) <= cut
              /\ \A j \in range : CutAt(range, spent) <= j /\ j < cut
                    => Kind(j) \notin MessageEntries
    BY <1>0, <1>1, CutAtIs
<1> DEFINE keep == CutAt(range, spent)
<1>3. findCutPoint(range, spent).keep = keep
    BY <1>1 DEF findCutPoint
<1>4. keep \in Nat /\ keep \in range /\ cut \in range /\ cut \in Nat /\ Kind(cut) # "result"
  <2>1. cut \in range /\ Kind(cut) # "result"
    BY DEF CutPoints, Messages
  <2>2. keep \in range /\ range \subseteq Nat
    BY <1>2
  <2> HIDE DEF keep
  <2> QED BY <2>1, <2>2
<1> SUFFICES ASSUME a < keep, keep <= i PROVE FALSE
    BY <1>3
<1>5. ~(cut <= a)
    BY <1>2, <1>4, <1>0
<1>6. spent # 0 /\ cut >= spent /\ ~(a >= spent)
    BY <1>1, <1>2, <1>5
<1>7. spent \in range /\ Kind(spent) \in MessageEntries /\ a < spent
    BY <1>6, <1>0
<1>8. ~(spent < i)
    BY <1>7
<1>9. cut # i
    BY <1>4
<1>10. i < cut
    BY <1>6, <1>8, <1>9, <1>4, <1>0
<1>11. i \in range
    BY <1>10, <1>4
<1>12. Kind(i) \notin MessageEntries
    BY <1>11, <1>10, <1>2
<1> QED BY <1>12 DEF MessageEntries

\* The paths of the model are those of the session.
LEMMA PathIs ==
    ASSUME CompactionInv
    PROVE  /\ Path = Branch(log, leaf)
           /\ Len(log) \in Nat /\ leaf \in 0..Len(log)
           /\ Path \in SUBSET (1..Len(log)) /\ Path \subseteq 1..leaf
           /\ leaf # 0 => leaf \in Path
<1>1. Path = Branch(log, leaf)
    BY BranchOfLog DEF Path
<1>2. Len(log) \in Nat /\ ParentsFirst(log) /\ leaf \in 0..Len(log)
    BY LogBasics DEF CompactionInv
<1>3. Branch(log, leaf) \subseteq 1..leaf /\ (leaf # 0 => leaf \in Branch(log, leaf))
    BY <1>2, BranchBounds
<1> QED BY <1>1, <1>2, <1>3

\* prepareCompaction has something to look at when the leaf is no compaction.
LEMMA RangeIs ==
    ASSUME CompactionInv, leaf # 0, Kind(leaf) # "compaction"
    PROVE  /\ FromBoundary(Path) \subseteq Path
           /\ FromBoundary(Path) # {}
           /\ \A i \in FromBoundary(Path), j \in Path :
                 i <= j => j \in FromBoundary(Path)
<1> DEFINE last == Latest(Path)
<1>1. FromBoundary(Path) = IF last = 0 THEN Path
            ELSE IF log[last].keep \in Path THEN {i \in Path : i >= log[last].keep}
            ELSE {i \in Path : i > last}
    BY DEF FromBoundary
<1>2. /\ Len(log) \in Nat /\ leaf \in 1..Len(log)
      /\ Path \in SUBSET (1..Len(log)) /\ Path \subseteq 1..leaf /\ leaf \in Path
    BY PathIs
<1>3. CASE last = 0
    BY <1>1, <1>2, <1>3
<1>4. CASE last # 0
  <2>1. last \in Path /\ Kind(last) = "compaction"
    BY <1>2, <1>4, LatestIs
  <2>2. last \in 1..Len(log) /\ last < leaf
    <3> HIDE DEF last
    <3>1. last # leaf
        BY <2>1
    <3>2. last \in 1..leaf
        BY <2>1, <1>2
    <3> QED BY <3>1, <3>2, <1>2
  <2> HIDE DEF last
  <2>3. CASE log[last].keep \in Path
    <3>1. FromBoundary(Path) = {i \in Path : i >= log[last].keep}
        BY <1>1, <1>4, <2>3
    <3> DEFINE k == log[last].keep
    <3>2. k \in 1..leaf
        BY <2>3, <1>2
    <3> HIDE DEF k
    <3>3. FromBoundary(Path) = {i \in Path : i >= k}
        BY <3>1 DEF k
    <3>4. leaf \in FromBoundary(Path)
        BY <3>2, <3>3, <1>2
    <3>5. \A i \in Path : i \in Nat
        BY <1>2
    <3>6. \A i \in FromBoundary(Path), j \in Path : i <= j => j \in FromBoundary(Path)
        BY <3>2, <3>3, <3>5
    <3> QED BY <3>3, <3>4, <3>6
  <2>4. CASE log[last].keep \notin Path
    <3>1. FromBoundary(Path) = {i \in Path : i > last}
        BY <1>1, <1>4, <2>4
    <3>2. leaf \in FromBoundary(Path)
        BY <3>1, <2>2, <1>2
    <3>3. \A i \in Path : i \in Nat
        BY <1>2
    <3>4. \A i \in FromBoundary(Path), j \in Path : i <= j => j \in FromBoundary(Path)
        BY <3>1, <3>3, <2>2
    <3> QED BY <3>1, <3>2, <3>4
  <2> QED BY <2>3, <2>4
<1> QED BY <1>3, <1>4

-----------------------------------------------------------------------------
(***************************************************************************)
(* Preparation.                                                            *)
(***************************************************************************)
\* Of what went into the summaries nothing is neither covered nor lost.
LEMMA SummaryIs ==
    ASSUME NEW history, NEW prefix, NEW previous, NEW lost
    PROVE  LET made == Summary(history, prefix, previous) IN
           /\ made \subseteq history \cup prefix \cup previous
           /\ history \cup prefix \cup previous \cup lost
                \subseteq made \cup ((previous \ made) \cup lost)
BY DEF Summary

\* prepareCompaction and compact: the summary of everything on the path
\* before the first entry kept, and what was lost of it.
LEMMA PreparedIs ==
    ASSUME CompactionInv, leaf # 0, Kind(leaf) # "compaction", NEW spent \in Nat
    PROVE  LET p == Prepared(Path, spent)
               last == Latest(Path)
           IN /\ p \in [from : Nat, keep : Nat, covers : SUBSET Nat, lost : SUBSET Nat]
              /\ p.from = leaf
              /\ p.keep = findCutPoint(FromBoundary(Path), spent).keep
              /\ p.keep \in FromBoundary(Path)
              /\ Messages({i \in FromBoundary(Path) : i < p.keep}) \subseteq p.covers \cup p.lost
              /\ last # 0 => log[last].covers \cup log[last].lost \subseteq p.covers \cup p.lost
<1> DEFINE last == Latest(Path)
           range == FromBoundary(Path)
           cut == findCutPoint(range, spent)
           end == IF cut.turn = 0 THEN cut.keep ELSE cut.turn
           history == Messages({i \in range : i < end})
           prefix == Messages({i \in range : end <= i /\ i < cut.keep})
           previous == IF last = 0 THEN {} ELSE log[last].covers
           before == IF last = 0 THEN {} ELSE log[last].lost
           made == Summary(history, prefix, previous)
           p == Prepared(Path, spent)
<1>1. p = [from |-> leaf, keep |-> cut.keep, covers |-> made,
           lost |-> (previous \ made) \cup before]
    BY DEF Prepared
<1>2. /\ Len(log) \in Nat /\ leaf \in 0..Len(log) /\ LogOK(log)
      /\ Path \in SUBSET (1..Len(log))
    BY PathIs DEF CompactionInv
<1>3. range \in SUBSET (1..Len(log)) /\ range # {}
  <2>1. range \subseteq Path /\ range # {}
    BY RangeIs
  <2> QED BY <2>1, <1>2
<1>4. /\ cut.keep \in range
      /\ cut.turn = 0 \/ (cut.turn \in range /\ cut.turn <= cut.keep)
    BY <1>2, <1>3, CutPointIs
<1>5. previous \in SUBSET Nat /\ before \in SUBSET Nat
  <2>1. CASE last = 0
    BY <2>1
  <2>2. CASE last # 0
    <3>1. last \in Path /\ Kind(last) = "compaction"
        BY <1>2, <2>2, LatestIs
    <3>2. last \in 1..Len(log)
        BY <3>1, <1>2
    <3> HIDE DEF last
    <3>3. log[last] \in Stored
        BY <3>2, <1>2, ElementOfSeq DEF LogOK
    <3>4. log[last].covers \in SUBSET Nat /\ log[last].lost \in SUBSET Nat
        BY <3>1, <3>3 DEF Kind, Stored, Plain
    <3> QED BY <3>4
  <2> QED BY <2>1, <2>2
<1>6. cut.keep \in Nat /\ end \in Nat /\ end <= cut.keep
  <2>1. range \subseteq Nat
    BY <1>3
  <2> HIDE DEF cut, range
  <2>2. cut.keep \in Nat
    BY <1>4, <2>1
  <2>3. CASE cut.turn = 0
    BY <2>2, <2>3
  <2>4. CASE cut.turn # 0
    <3>1. cut.turn \in Nat /\ cut.turn <= cut.keep
        BY <1>4, <2>1, <2>4
    <3> QED BY <2>2, <2>4, <3>1
  <2> QED BY <2>3, <2>4
<1> HIDE DEF cut, end, range, last
<1>7. history \in SUBSET Nat /\ prefix \in SUBSET Nat
  <2>1. history \subseteq range /\ prefix \subseteq range /\ range \subseteq Nat
    BY <1>3 DEF Messages
  <2> QED BY <2>1
<1>8. Messages({i \in range : i < cut.keep}) \subseteq history \cup prefix
  <2>1. \A i \in range : i \in Nat
    BY <1>3
  <2> QED BY <2>1, <1>6 DEF Messages
<1> HIDE DEF history, prefix, previous, before
<1>9. /\ made \subseteq history \cup prefix \cup previous
      /\ history \cup prefix \cup previous \cup before
           \subseteq made \cup ((previous \ made) \cup before)
    BY SummaryIs
<1> HIDE DEF made, p
<1>10. p \in [from : Nat, keep : Nat, covers : SUBSET Nat, lost : SUBSET Nat]
  <2>1. made \in SUBSET Nat /\ (previous \ made) \cup before \in SUBSET Nat
    BY <1>5, <1>7, <1>9
  <2> QED BY <2>1, <1>1, <1>2, <1>6
<1>11. p.covers \cup p.lost = made \cup ((previous \ made) \cup before)
    BY <1>1
<1>12. Messages({i \in range : i < p.keep}) \subseteq p.covers \cup p.lost
  <2>1. p.keep = cut.keep
    BY <1>1
  <2> QED BY <2>1, <1>8, <1>9, <1>11
<1>13. last # 0 => log[last].covers \cup log[last].lost \subseteq p.covers \cup p.lost
    BY <1>9, <1>11 DEF previous, before
<1>14. p.from = leaf /\ p.keep = cut.keep
    BY <1>1
<1> QED BY <1>4, <1>10, <1>12, <1>13, <1>14 DEF p, cut, range, last

\* The summary that is prepared covers what is before its cut.
LEMMA PreparedCovers ==
    ASSUME CompactionInv, leaf # 0, Kind(leaf) # "compaction", NEW spent \in Nat
    PROVE  Covered(log, Prepared(Path, spent))
<1>1. PICK p : p = Prepared(Path, spent)
    OBVIOUS
<1>2. PICK last : last = Latest(Path)
    OBVIOUS
<1>3. PICK range : range = FromBoundary(Path)
    OBVIOUS
<1>4. /\ p.keep \in range
      /\ Messages({i \in range : i < p.keep}) \subseteq p.covers \cup p.lost
      /\ last # 0 => log[last].covers \cup log[last].lost \subseteq p.covers \cup p.lost
    BY <1>1, <1>2, <1>3, PreparedIs
<1>5. /\ Len(log) \in Nat /\ leaf \in 0..Len(log) /\ LogOK(log) /\ ParentsFirst(log)
      /\ Path \in SUBSET (1..Len(log)) /\ Path = Branch(log, leaf)
    BY PathIs, LogBasics DEF CompactionInv
<1>6. range \subseteq Path
    BY <1>3, RangeIs
<1>7. p.keep \in Path /\ p.keep \in 1..Len(log)
    BY <1>4, <1>5, <1>6
<1>8. Branch(log, p.keep) = {j \in Path : j <= p.keep}
    BY <1>5, <1>7, BranchPrefix
<1> SUFFICES ASSUME ~AstrayIn(log, Branch(log, p.keep)),
                    NEW i \in Branch(log, p.keep), i # p.keep, Kind(i) \in Shows
             PROVE  i \in p.covers \cup p.lost
  <2>1. Covered(log, p)
    BY DEF Covered, MessagesIn, Kind
  <2> QED BY <2>1, <1>1
<1>9. i \in Path /\ i \in 1..Len(log) /\ i < p.keep
    BY <1>5, <1>7, <1>8
<1>10. ASSUME i \in range PROVE i \in p.covers \cup p.lost
  <2>1. i \in Messages({j \in range : j < p.keep})
    BY <1>9, <1>10 DEF Messages
  <2> QED BY <2>1, <1>4
<1>11. range = IF last = 0 THEN Path
            ELSE IF log[last].keep \in Path THEN {j \in Path : j >= log[last].keep}
            ELSE {j \in Path : j > last}
    BY <1>2, <1>3 DEF FromBoundary
<1>12. CASE last = 0
    BY <1>9, <1>10, <1>11, <1>12
<1>13. CASE last # 0
  <2>1. last \in Path /\ last \in 1..Len(log) /\ log[last].kind = "compaction"
    <3>1. last \in Path /\ Kind(last) = "compaction"
        BY <1>2, <1>5, <1>13, LatestIs
    <3> QED BY <3>1, <1>5 DEF Kind
  <2> DEFINE k == log[last].keep
  <2>2. k \in 1..(last - 1)
    BY <2>1, <1>5, KeepBefore
  <2>3. CASE k \notin Path
    <3>1. p.keep > last
        BY <1>4, <1>11, <1>13, <2>3
    <3>2. last \in Branch(log, p.keep) /\ k \notin Branch(log, p.keep)
        BY <3>1, <2>1, <2>3, <1>7, <1>8
    <3> QED BY <3>2, <2>1 DEF AstrayIn
  <2>4. CASE k \in Path
    <3>1. range = {j \in Path : j >= k}
        BY <1>11, <1>13, <2>4
    <3>2. k <= p.keep
        BY <3>1, <1>4, <2>2, <1>7
    <3>3. k \in Branch(log, p.keep)
        BY <3>2, <2>4, <1>8
    <3>4. Branch(log, k) = {j \in Path : j <= k}
        BY <2>4, <1>5, BranchPrefix
    <3>5. ~AstrayIn(log, Branch(log, k))
      <4>1. p.keep \in 0..Len(log)
        BY <1>7
      <4> QED BY <4>1, <3>3, <1>5, GoodPrefix
    <3>6. CASE i >= k
      <4>1. i \in range
        BY <3>1, <3>6, <1>9
      <4> QED BY <4>1, <1>10
    <3>7. CASE ~(i >= k)
      <4>1. i \in Branch(log, k) \ {k}
        BY <3>4, <3>7, <1>9, <2>2
      <4>2. i \in MessagesIn(log, Branch(log, k) \ {k})
        BY <4>1 DEF MessagesIn, Kind
      <4>3. Covered(log, log[last])
        BY <2>1, <1>5 DEF LogOK, EntryOK, CompactionOK
      <4>4. i \in log[last].covers \cup log[last].lost
        BY <4>2, <4>3, <3>5 DEF Covered
      <4> QED BY <4>4, <1>4, <1>13
    <3> QED BY <3>6, <3>7
  <2> QED BY <2>3, <2>4
<1> QED BY <1>12, <1>13

\* Wherever on this branch it is written, the cut that is prepared parts no
\* result from its call.
LEMMA PreparedCuts ==
    ASSUME CompactionInv, leaf # 0, Kind(leaf) # "compaction",
           NEW spent \in {0} \cup {i \in FromBoundary(Path) : Kind(i) \in MessageEntries},
           NEW x \in 1..Len(log), leaf \in Branch(log, x), ~MovedIn(log, Branch(log, x))
    PROVE  CutOK(log, Branch(log, x), Prepared(Path, spent).keep)
<1>1. PICK k : k = Prepared(Path, spent).keep
    OBVIOUS
<1>2. PICK last : last = Latest(Path)
    OBVIOUS
<1>3. PICK range : range = FromBoundary(Path)
    OBVIOUS
<1>5. /\ Len(log) \in Nat /\ leaf \in 0..Len(log) /\ LogOK(log) /\ ParentsFirst(log)
      /\ Path \in SUBSET (1..Len(log)) /\ Path = Branch(log, leaf)
      /\ Path \subseteq 1..leaf
    BY PathIs, LogBasics DEF CompactionInv
<1>6. /\ range \subseteq Path
      /\ range \in SUBSET (1..Len(log))
      /\ \A i \in range, j \in Path : i <= j => j \in range
  <2>1. range \subseteq Path /\ \A i \in range, j \in Path : i <= j => j \in range
    BY <1>3, RangeIs
  <2> QED BY <2>1, <1>5
<1>4. /\ k = findCutPoint(range, spent).keep
      /\ k \in range
  <2>1. spent \in Nat
    BY <1>3, <1>6
  <2> QED BY <2>1, <1>1, <1>3, PreparedIs
<1>7. k \in Path /\ k \in 1..Len(log) /\ k <= leaf
    BY <1>4, <1>5, <1>6
<1> DEFINE S == Branch(log, x)
<1>8. /\ Path = {j \in S : j <= leaf}
      /\ S \subseteq 1..Len(log)
  <2>1. x \in 0..Len(log)
    OBVIOUS
  <2>2. Branch(log, x) \subseteq 1..x
    BY <2>1, <1>5, BranchBounds
  <2> QED BY <2>1, <2>2, <1>5, BranchPrefix
<1> SUFFICES ASSUME NEW i \in S, log[i].kind = "result", log[i].call \in S,
                    log[i].call < k, k <= i
             PROVE  FALSE
    BY <1>1 DEF CutOK
<1>9. PICK a : a = log[i].call
    OBVIOUS
<1>10. i \in 1..Len(log) /\ AnswersAt(log, a, i)
    BY <1>5, <1>8, <1>9 DEF LogOK, EntryOK
<1>11. /\ a \in 1..(i - 1)
       /\ log[a].kind = "calls"
       /\ \A j \in (a + 1)..(i - 1) : log[j].kind \notin MessageEntries
       /\ \A j \in 1..(i - 1) : log[j].kind = "compaction" => log[j].keep < a
    BY <1>10 DEF AnswersAt
<1>12. a \in Path
    BY <1>7, <1>8, <1>9, <1>11, <1>5
<1>13. a \in range
  <2>1. range = IF last = 0 THEN Path
            ELSE IF log[last].keep \in Path THEN {j \in Path : j >= log[last].keep}
            ELSE {j \in Path : j > last}
    BY <1>2, <1>3 DEF FromBoundary
  <2>2. CASE last = 0
    BY <2>1, <2>2, <1>12
  <2>3. CASE last # 0
    <3>1. last \in Path /\ last \in 1..Len(log) /\ log[last].kind = "compaction"
      <4>1. last \in Path /\ Kind(last) = "compaction"
        BY <1>2, <1>5, <2>3, LatestIs
      <4> QED BY <4>1, <1>5 DEF Kind
    <3> DEFINE b == log[last].keep
    <3>2. b \in 1..(last - 1)
        BY <3>1, <1>5, KeepBefore
    <3>3. last \in S
        BY <3>1, <1>8
    <3>4. /\ b \in S
          /\ \A j \in S : log[j].kind = "result" /\ log[j].call \in S /\ j <= last
                             => ~(log[j].call < b /\ b <= j)
      <4>1. x \in 0..Len(log)
        OBVIOUS
      <4> QED BY <4>1, <3>1, <3>3, <1>5, CutOnPath
    <3> HIDE DEF b
    <3>5. b \in Path
        BY <3>1, <3>2, <3>4, <1>5, <1>8
    <3>6. range = {j \in Path : j >= b}
        BY <2>1, <2>3, <3>5 DEF b
    <3>7. b <= k
        BY <3>6, <1>4
    <3>8. CASE i <= last
      <4>1. ~(a < b /\ b <= i)
        BY <3>4, <3>8, <1>9
      <4>2. b <= i
        BY <3>2, <3>7, <1>7, <1>10
      <4>3. a >= b
        BY <4>1, <4>2, <3>2, <1>11
      <4> QED BY <4>3, <3>6, <1>12
    <3>9. CASE ~(i <= last)
      <4>1. last \in 1..(i - 1)
        BY <3>1, <3>9, <1>10
      <4>2. b < a
        BY <4>1, <3>1, <1>11 DEF b
      <4> QED BY <4>2, <3>2, <3>6, <1>11, <1>12
    <3> QED BY <3>8, <3>9
  <2> QED BY <2>2, <2>3
<1>14. i \in range \/ \A j \in range : j < i
  <2>1. CASE i <= leaf
    <3>1. i \in Path
        BY <2>1, <1>8
    <3> QED BY <3>1, <1>4, <1>6
  <2>2. CASE ~(i <= leaf)
    <3>1. \A j \in range : j \in 1..leaf
        BY <1>5, <1>6
    <3> QED BY <3>1, <2>2, <1>5, <1>10
  <2> QED BY <2>1, <2>2
<1>15. \A j \in range : a < j /\ j < i => Kind(j) \notin MessageEntries
  <2>1. ASSUME NEW j \in range, a < j, j < i PROVE Kind(j) \notin MessageEntries
    <3>1. j \in (a + 1)..(i - 1)
        BY <2>1, <1>6, <1>10, <1>11
    <3> QED BY <3>1, <1>11 DEF Kind
  <2> QED BY <2>1
<1>16. ~(a < k /\ k <= i)
  <2>1. /\ i \in Nat /\ Kind(i) = "result" /\ Kind(a) = "calls"
        /\ spent \in {0} \cup {j \in range : Kind(j) \in MessageEntries}
    BY <1>3, <1>10, <1>11 DEF Kind
  <2> QED BY <2>1, <1>4, <1>5, <1>6, <1>13, <1>14, <1>15, CutApart
<1> QED BY <1>9, <1>16

\* What prepareCompaction prepares has all that the invariant asks of it.
LEMMA PreparedGood ==
    ASSUME CompactionInv, leaf # 0, Kind(leaf) # "compaction",
           NEW spent \in {0} \cup {i \in FromBoundary(Path) : Kind(i) \in MessageEntries}
    PROVE  PreparedOK(log, Prepared(Path, spent))
<1>1. PICK p : p = Prepared(Path, spent)
    OBVIOUS
<1>2. /\ Len(log) \in Nat /\ leaf \in 1..Len(log)
      /\ Path \in SUBSET (1..Len(log)) /\ Path = Branch(log, leaf)
    BY PathIs
<1>3. FromBoundary(Path) \subseteq Path /\ spent \in Nat
    BY <1>2, RangeIs
<1>4. /\ p \in [from : Nat, keep : Nat, covers : SUBSET Nat, lost : SUBSET Nat]
      /\ p.from = leaf
      /\ p.keep \in FromBoundary(Path)
    BY <1>1, <1>3, PreparedIs
<1>5. Covered(log, p)
    BY <1>1, <1>3, PreparedCovers
<1>6. ASSUME NEW x \in 1..Len(log), p.from \in Branch(log, x), ~MovedIn(log, Branch(log, x))
      PROVE  CutOK(log, Branch(log, x), p.keep)
    BY <1>1, <1>4, <1>6, PreparedCuts
<1>7. PreparedOK(log, p)
    BY <1>2, <1>3, <1>4, <1>5, <1>6 DEF PreparedOK
<1> QED BY <1>1, <1>7

-----------------------------------------------------------------------------
(***************************************************************************)
(* The steps.                                                              *)
(***************************************************************************)
\* A step that writes e and leaves the compactions in preparation alone, but
\* for those that end, keeps what is said of the session.
LEMMA AppendKeeps ==
    ASSUME CompactionInv, NEW e \in Stored, EntryOK(log, e, Len(log) + 1),
           log' = Append(log, e), leaf' = Len(log) + 1,
           branching' \subseteq branching,
           compacting' \in [Ways -> SUBSET [from : Nat, keep : Nat, covers : SUBSET Nat,
                                            lost : SUBSET Nat]],
           \A way \in Ways : compacting'[way] \subseteq compacting[way],
           e.kind = "result" =>
               \A way \in Ways : \A p \in compacting[way] : p.keep < e.call
    PROVE  /\ LogOK(log')
           /\ Len(log') = Len(log) + 1
           /\ \A i \in 1..Len(log) : log'[i] = log[i]
           /\ log'[Len(log) + 1] = e
           /\ leaf' \in 0..Len(log')
           /\ branching' \subseteq 1..Len(log')
           /\ \A way \in Ways : \A p \in compacting'[way] : PreparedOK(log', p)
<1>0. LogOK(log) /\ Len(log) \in Nat /\ e.parent \in 0..Len(log)
    BY LogBasics DEF CompactionInv, EntryOK
<1>1. GrownBy(log, e, log')
    BY <1>0, Grown
<1>2. /\ Len(log') = Len(log) + 1
      /\ \A i \in 1..Len(log) : log'[i] = log[i]
      /\ log'[Len(log) + 1] = e
    BY <1>1 DEF GrownBy
<1>3. LogOK(log')
    BY <1>0, LogGrows
<1>4. leaf' \in 0..Len(log') /\ branching' \subseteq 1..Len(log')
  <2>1. branching \subseteq 1..Len(log)
    BY DEF CompactionInv
  <2> QED BY <2>1, <1>0, <1>2
<1>5. ASSUME NEW way \in Ways, NEW p \in compacting'[way] PROVE PreparedOK(log', p)
  <2>1. p \in compacting[way]
    BY <1>5
  <2>2. PreparedOK(log, p) /\ (e.kind = "result" => p.keep < e.call)
    BY <2>1 DEF CompactionInv
  <2> QED BY <2>2, <1>0, PreparedStays
<1> QED BY <1>2, <1>3, <1>4, <1>5

\* A call that awaits its result goes on to do so when an entry that is no
\* message is written.
LEMMA CallStays ==
    ASSUME CompactionInv, call # 0, NEW e, e.kind \notin MessageEntries,
           e.kind = "compaction" => e.keep < call,
           Len(log') = Len(log) + 1,
           \A i \in 1..Len(log) : log'[i] = log[i],
           log'[Len(log) + 1] = e
    PROVE  AnswersAt(log', call, Len(log') + 1)
<1>0. Len(log) \in Nat
    BY LogBasics DEF CompactionInv
<1>1. AnswersAt(log, call, Len(log) + 1)
    BY DEF CompactionInv, CallOK
<1>2. /\ call \in 1..Len(log)
      /\ log[call].kind = "calls"
      /\ \A j \in (call + 1)..Len(log) : log[j].kind \notin MessageEntries
      /\ \A j \in 1..Len(log) : log[j].kind = "compaction" => log[j].keep < call
    BY <1>0, <1>1 DEF AnswersAt
<1>3. ASSUME NEW j \in (call + 1)..(Len(log) + 1) PROVE log'[j].kind \notin MessageEntries
  <2>1. CASE j = Len(log) + 1
    BY <2>1
  <2>2. CASE j # Len(log) + 1
    <3>1. j \in (call + 1)..Len(log) /\ j \in 1..Len(log)
        BY <2>2, <1>0, <1>2
    <3> QED BY <3>1, <1>2
  <2> QED BY <2>1, <2>2
<1>4. ASSUME NEW j \in 1..(Len(log) + 1), log'[j].kind = "compaction"
      PROVE  log'[j].keep < call
  <2>1. CASE j = Len(log) + 1
    BY <2>1, <1>4
  <2>2. CASE j # Len(log) + 1
    <3>1. j \in 1..Len(log)
        BY <2>2, <1>0
    <3> QED BY <3>1, <1>2, <1>4
  <2> QED BY <2>1, <2>2
<1>5. call \in 1..(Len(log) + 1) /\ log'[call].kind = "calls"
    BY <1>0, <1>2
<1>6. (Len(log') + 1) - 1 = Len(log) + 1
    BY <1>0
<1> QED BY <1>3, <1>4, <1>5, <1>6 DEF AnswersAt

\* An entry of the conversation other than a result and a compaction.
LEMMA PlainEntry ==
    ASSUME CompactionInv, NEW kind \in Plain, NEW q \in 0..Len(log)
    PROVE  LET e == [kind |-> kind, parent |-> q] IN
           /\ e \in Stored /\ EntryOK(log, e, Len(log) + 1)
           /\ e.kind = kind
<1> DEFINE e == [kind |-> kind, parent |-> q]
<1>0. Len(log) \in Nat
    BY LogBasics DEF CompactionInv
<1>1. e \in Stored
  <2>1. e \in [kind : Plain, parent : Nat]
    BY <1>0
  <2> QED BY <2>1 DEF Stored
<1>2. EntryOK(log, e, Len(log) + 1)
  <2>1. e.kind # "result" /\ e.kind # "compaction" /\ e.parent = q
    BY DEF Plain
  <2> HIDE DEF e
  <2> QED BY <2>1, <1>0 DEF EntryOK
<1> QED BY <1>1, <1>2

\* What a step that writes an entry of a plain kind does to the invariant.
LEMMA PlainKeeps ==
    ASSUME CompactionInv, NEW kind \in Plain, NEW q \in 0..Len(log),
           log' = Append(log, [kind |-> kind, parent |-> q]), leaf' = Len(log) + 1,
           branching' \subseteq branching, compacting' = compacting,
           CallOK'
    PROVE  CompactionInv'
<1>1. PICK e : e = [kind |-> kind, parent |-> q]
    OBVIOUS
<1>2. e \in Stored /\ EntryOK(log, e, Len(log) + 1) /\ e.kind = kind
    BY <1>1, PlainEntry
<1>3. e.kind # "result"
    BY <1>2 DEF Plain
<1>4. compacting \in [Ways -> SUBSET [from : Nat, keep : Nat, covers : SUBSET Nat,
                                      lost : SUBSET Nat]]
    BY DEF CompactionInv
<1>5. /\ LogOK(log')
      /\ leaf' \in 0..Len(log')
      /\ branching' \subseteq 1..Len(log')
      /\ \A way \in Ways : \A p \in compacting'[way] : PreparedOK(log', p)
    BY <1>1, <1>2, <1>3, <1>4, AppendKeeps
<1> QED BY <1>4, <1>5 DEF CompactionInv

\* After such a step no call is awaited, or the same one as before it.
LEMMA PlainCall ==
    ASSUME CompactionInv, NEW kind \in Plain, NEW q \in 0..Len(log),
           log' = Append(log, [kind |-> kind, parent |-> q]), leaf' = Len(log) + 1,
           branching' \subseteq branching, compacting' = compacting,
           \/ call' = 0
           \/ call' = call /\ running' = running /\ kind \notin MessageEntries
    PROVE  CompactionInv'
<1>1. PICK e : e = [kind |-> kind, parent |-> q]
    OBVIOUS
<1>2. e \in Stored /\ EntryOK(log, e, Len(log) + 1) /\ e.kind = kind
    BY <1>1, PlainEntry
<1>3. e.kind # "result" /\ e.kind # "compaction"
    BY <1>2 DEF Plain
<1>4. compacting \in [Ways -> SUBSET [from : Nat, keep : Nat, covers : SUBSET Nat,
                                      lost : SUBSET Nat]]
    BY DEF CompactionInv
<1>5. /\ Len(log') = Len(log) + 1
      /\ \A i \in 1..Len(log) : log'[i] = log[i]
      /\ log'[Len(log) + 1] = e
    BY <1>1, <1>2, <1>3, <1>4, AppendKeeps
<1>6. CASE call' = 0
  <2>1. CallOK'
    BY <1>6 DEF CallOK
  <2> QED BY <2>1, PlainKeeps
<1>7. CASE call' # 0
  <2>1. call' = call /\ running' = running /\ kind \notin MessageEntries /\ call # 0
    BY <1>7
  <2>2. AnswersAt(log', call, Len(log') + 1)
    BY <2>1, <1>2, <1>3, <1>5, CallStays
  <2>3. running /\ \A way \in Ways : \A p \in compacting[way] : p.keep < call
    BY <2>1 DEF CompactionInv, CallOK
  <2>4. CallOK'
    BY <2>1, <2>2, <2>3 DEF CallOK
  <2> QED BY <2>4, PlainKeeps
<1> QED BY <1>6, <1>7

\* The session starts empty.
LEMMA CompactionInit == Init => CompactionInv
<1> SUFFICES ASSUME Init PROVE CompactionInv
    OBVIOUS
<1>1. log = << >> /\ Len(log) = 0 /\ leaf = 0 /\ call = 0 /\ branching = {}
    BY DEF Init
<1>2. LogOK(log)
    BY <1>1 DEF LogOK
<1>3. compacting = [way \in Ways |-> {}]
    BY DEF Init
<1>4. compacting \in [Ways -> SUBSET [from : Nat, keep : Nat, covers : SUBSET Nat,
                                      lost : SUBSET Nat]]
    BY <1>3
<1>5. \A way \in Ways : compacting[way] = {}
    BY <1>3
<1>6. CallOK
    BY <1>1 DEF CallOK
<1> QED BY <1>1, <1>2, <1>4, <1>5, <1>6 DEF CompactionInv

\* Every step keeps the invariant.
LEMMA CompactionStep == CompactionInv /\ [Next]_vars => CompactionInv'
<1> SUFFICES ASSUME CompactionInv, [Next]_vars PROVE CompactionInv'
    OBVIOUS
<1>0. /\ LogOK(log) /\ Len(log) \in Nat /\ ParentsFirst(log) /\ leaf \in 0..Len(log)
      /\ branching \subseteq 1..Len(log)
      /\ compacting \in [Ways -> SUBSET [from : Nat, keep : Nat, covers : SUBSET Nat,
                                         lost : SUBSET Nat]]
      /\ \A way \in Ways : \A p \in compacting[way] : PreparedOK(log, p)
      /\ CallOK
    BY LogBasics DEF CompactionInv
<1>1. ASSUME NEW kind \in {"user", "custom"}, Say(kind) PROVE CompactionInv'
  <2>1. kind \in Plain
    BY DEF Plain
  <2>2. /\ log' = Append(log, [kind |-> kind, parent |-> leaf]) /\ leaf' = Len(log) + 1
        /\ branching' \subseteq branching /\ compacting' = compacting /\ call' = 0
    BY <1>1 DEF Say, Append1, Entry
  <2> QED BY <2>1, <2>2, <1>0, PlainCall
<1>2. CASE Answer
  <2>1. "assistant" \in Plain
    BY DEF Plain
  <2>2. /\ log' = Append(log, [kind |-> "assistant", parent |-> leaf])
        /\ leaf' = Len(log) + 1
        /\ branching' \subseteq branching /\ compacting' = compacting /\ call' = 0
    BY <1>2 DEF Answer, Answers, Append1, Entry
  <2> QED BY <2>1, <2>2, <1>0, PlainCall
<1>3. CASE CallTool
  <2>1. "calls" \in Plain
    BY DEF Plain
  <2>2. /\ log' = Append(log, [kind |-> "calls", parent |-> leaf])
        /\ leaf' = Len(log) + 1 /\ call' = Len(log) + 1 /\ running'
        /\ branching' = branching /\ compacting' = compacting
    BY <1>3 DEF CallTool, Append1, Entry
  <2>3. PICK e : e = [kind |-> "calls", parent |-> leaf]
    OBVIOUS
  <2>4. e \in Stored /\ EntryOK(log, e, Len(log) + 1) /\ e.kind = "calls"
    BY <2>1, <2>3, <1>0, PlainEntry
  <2>5. /\ Len(log') = Len(log) + 1
        /\ \A i \in 1..Len(log) : log'[i] = log[i]
        /\ log'[Len(log) + 1] = e
        /\ LogOK(log')
    BY <2>2, <2>3, <2>4, <1>0, AppendKeeps
  <2>6. AnswersAt(log', call', Len(log') + 1)
    <3>1. (Len(log') + 1) - 1 = Len(log) + 1 /\ call' \in 1..(Len(log) + 1)
        BY <2>2, <2>5, <1>0
    <3>2. log'[call'].kind = "calls"
        BY <2>2, <2>4, <2>5
    <3>3. \A j \in (call' + 1)..(Len(log) + 1) : FALSE
        BY <2>2, <1>0
    <3>4. ASSUME NEW j \in 1..(Len(log) + 1), log'[j].kind = "compaction"
          PROVE  log'[j].keep < call'
      <4>1. j \in 1..Len(log')
        BY <2>5, <1>0
      <4>2. log'[j].keep \in 1..(j - 1)
        BY <4>1, <3>4, <2>5, KeepBefore
      <4> QED BY <4>2, <2>2, <1>0
    <3> QED BY <3>1, <3>2, <3>3, <3>4 DEF AnswersAt
  <2>7. ASSUME NEW way \in Ways, NEW p \in compacting[way] PROVE p.keep < call'
    <3>1. p.from \in 1..Len(log) /\ p.keep \in Branch(log, p.from)
        BY <1>0 DEF PreparedOK
    <3>2. Branch(log, p.from) \subseteq 1..p.from
      <4>1. p.from \in 0..Len(log)
        BY <3>1, <1>0
      <4> QED BY <4>1, <1>0, BranchBounds
    <3> QED BY <3>1, <3>2, <2>2, <1>0
  <2>8. CallOK'
    BY <2>2, <2>6, <2>7 DEF CallOK
  <2> QED BY <2>1, <2>2, <2>8, <1>0, PlainKeeps
<1>4. CASE ToolResult
  <2>1. PICK e : e = [kind |-> "result", parent |-> leaf, call |-> call]
    OBVIOUS
  <2>2. /\ call # 0 /\ log' = Append(log, e) /\ leaf' = Len(log) + 1 /\ call' = 0
        /\ branching' = branching /\ compacting' = compacting
    BY <1>4, <2>1 DEF ToolResult, Append1
  <2>3. /\ AnswersAt(log, call, Len(log) + 1)
        /\ \A way \in Ways : \A p \in compacting[way] : p.keep < call
    BY <2>2, <1>0 DEF CallOK
  <2>4. e.kind = "result" /\ e.parent = leaf /\ e.call = call
    BY <2>1
  <2>5. e \in Stored
    <3>1. call \in Nat
        BY <2>3, <1>0 DEF AnswersAt
    <3>2. e \in [kind : {"result"}, parent : Nat, call : Nat]
        BY <2>1, <3>1, <1>0
    <3> QED BY <3>2 DEF Stored
  <2>6. EntryOK(log, e, Len(log) + 1)
    BY <2>3, <2>4, <1>0 DEF EntryOK
  <2>7. /\ LogOK(log')
        /\ leaf' \in 0..Len(log')
        /\ branching' \subseteq 1..Len(log')
        /\ \A way \in Ways : \A p \in compacting'[way] : PreparedOK(log', p)
    BY <2>2, <2>3, <2>4, <2>5, <2>6, <1>0, AppendKeeps
  <2>8. CallOK'
    BY <2>2 DEF CallOK
  <2> QED BY <2>2, <2>7, <2>8, <1>0 DEF CompactionInv
<1>5. CASE Bash
  <2>1. "bash" \in Plain
    BY DEF Plain
  <2>2. /\ log' = Append(log, [kind |-> "bash", parent |-> leaf])
        /\ leaf' = Len(log) + 1 /\ call' = call /\ ~running
        /\ branching' \subseteq branching /\ compacting' = compacting
    BY <1>5 DEF Bash, Append1, Entry
  <2>3. call' = 0
    BY <2>2, <1>0 DEF CallOK
  <2> QED BY <2>1, <2>2, <2>3, <1>0, PlainCall
<1>6. CASE Set
  <2>1. "setting" \in Plain /\ "setting" \notin MessageEntries
    BY DEF Plain, MessageEntries
  <2>2. /\ log' = Append(log, [kind |-> "setting", parent |-> leaf])
        /\ leaf' = Len(log) + 1 /\ call' = call /\ running' = running
        /\ branching' \subseteq branching /\ compacting' = compacting
    BY <1>6 DEF Set, Append1, Entry
  <2> QED BY <2>1, <2>2, <1>0, PlainCall
<1>7. ASSUME NEW way \in Ways, NEW spent \in 0..Len(log), CompactStarts(way, spent)
      PROVE  CompactionInv'
  <2>1. PICK p : p = Prepared(Path, spent)
    OBVIOUS
  <2>2. /\ log' = log /\ leaf' = leaf /\ branching' = branching
        /\ compacting' = [compacting EXCEPT ![way] = {p}]
        /\ leaf # 0 /\ Kind(leaf) # "compaction"
        /\ spent \in {0} \cup {i \in FromBoundary(Path) : Kind(i) \in MessageEntries}
        /\ way = "auto" => ~running
        /\ call' = IF way = "auto" THEN call ELSE 0
    BY <1>7, <2>1 DEF CompactStarts
  <2>3. PreparedOK(log, p)
    BY <2>1, <2>2, PreparedGood
  <2>4. p \in [from : Nat, keep : Nat, covers : SUBSET Nat, lost : SUBSET Nat]
    BY <2>3 DEF PreparedOK
  <2>5. compacting' \in [Ways -> SUBSET [from : Nat, keep : Nat, covers : SUBSET Nat,
                                         lost : SUBSET Nat]]
    BY <2>2, <2>4, <1>0
  <2>6. \A w \in Ways : \A r \in compacting'[w] : PreparedOK(log', r)
    BY <2>2, <2>3, <1>0
  <2>7. call' = 0
    BY <2>2, <1>0 DEF CallOK
  <2>8. CallOK'
    BY <2>7 DEF CallOK
  <2> QED BY <2>2, <2>5, <2>6, <2>8, <1>0 DEF CompactionInv
<1>8. ASSUME NEW way \in Ways, CompactEnds(way) PROVE CompactionInv'
  <2>1. PICK p \in compacting[way] :
            /\ Append1([kind |-> "compaction", parent |-> leaf, from |-> p.from,
                        keep |-> p.keep, covers |-> p.covers, lost |-> p.lost])
            /\ compacting' = [compacting EXCEPT ![way] = {}]
            /\ UNCHANGED <<running, call, branching, asides>>
    BY <1>8 DEF CompactEnds
  <2>2. PICK e : e = [kind |-> "compaction", parent |-> leaf, from |-> p.from,
                      keep |-> p.keep, covers |-> p.covers, lost |-> p.lost]
    OBVIOUS
  <2>3. /\ log' = Append(log, e) /\ leaf' = Len(log) + 1
        /\ call' = call /\ running' = running /\ branching' = branching
        /\ compacting' = [compacting EXCEPT ![way] = {}]
    BY <2>1, <2>2 DEF Append1
  <2>4. PreparedOK(log, p)
    BY <1>0
  <2>5. /\ e.kind = "compaction" /\ e.parent = leaf /\ e.from = p.from
        /\ e.keep = p.keep /\ e.covers = p.covers /\ e.lost = p.lost
    BY <2>2
  <2>6. e \in Stored
    <3>1. p \in [from : Nat, keep : Nat, covers : SUBSET Nat, lost : SUBSET Nat]
        BY <2>4 DEF PreparedOK
    <3>2. e \in [kind : {"compaction"}, parent : Nat, from : Nat, keep : Nat,
                 covers : SUBSET Nat, lost : SUBSET Nat]
        BY <2>2, <3>1, <1>0
    <3> QED BY <3>2 DEF Stored
  <2>7. CompactionOK(log, e, Len(log) + 1)
    <3>1. e.from \in 1..((Len(log) + 1) - 1) /\ e.keep \in Branch(log, e.from)
        BY <2>4, <2>5, <1>0 DEF PreparedOK
    <3>2. Covered(log, e)
        BY <2>4, <2>5 DEF PreparedOK, Covered
    <3>3. ASSUME e.from \in Branch(log, e.parent), ~MovedIn(log, Branch(log, e.parent))
          PROVE  CutOK(log, Branch(log, e.parent), e.keep)
      <4>1. leaf # 0
        BY <3>3, <2>5, <1>0, BranchStep
      <4>2. leaf \in 1..Len(log)
        BY <4>1, <1>0
      <4> QED BY <4>2, <3>3, <2>4, <2>5 DEF PreparedOK
    <3> QED BY <3>1, <3>2, <3>3 DEF CompactionOK
  <2>8. EntryOK(log, e, Len(log) + 1)
    BY <2>5, <2>7, <1>0 DEF EntryOK
  <2>9. /\ compacting' \in [Ways -> SUBSET [from : Nat, keep : Nat, covers : SUBSET Nat,
                                            lost : SUBSET Nat]]
        /\ \A w \in Ways : compacting'[w] \subseteq compacting[w]
    BY <2>3, <1>0
  <2>10. /\ LogOK(log')
         /\ Len(log') = Len(log) + 1
         /\ \A i \in 1..Len(log) : log'[i] = log[i]
         /\ log'[Len(log) + 1] = e
         /\ leaf' \in 0..Len(log')
         /\ branching' \subseteq 1..Len(log')
         /\ \A w \in Ways : \A r \in compacting'[w] : PreparedOK(log', r)
    BY <2>3, <2>5, <2>6, <2>8, <2>9, AppendKeeps
  <2>11. ASSUME call # 0
         PROVE  /\ running /\ AnswersAt(log', call, Len(log') + 1)
                /\ \A w \in Ways : \A r \in compacting'[w] : r.keep < call
    <3>1. running /\ \A w \in Ways : \A r \in compacting[w] : r.keep < call
        BY <2>11, <1>0 DEF CallOK
    <3>2. e.kind \notin MessageEntries /\ e.keep < call
        BY <3>1, <2>5 DEF MessageEntries
    <3>3. AnswersAt(log', call, Len(log') + 1)
        BY <2>10, <2>11, <3>2, CallStays
    <3> QED BY <3>1, <3>3, <2>9
  <2>12. CallOK'
    BY <2>3, <2>11 DEF CallOK
  <2> QED BY <2>9, <2>10, <2>12 DEF CompactionInv
<1>9. ASSUME NEW way \in Ways, CompactFails(way) PROVE CompactionInv'
  <2>1. /\ log' = log /\ leaf' = leaf /\ branching' = branching
        /\ call' = call /\ running' = running
        /\ compacting' = [compacting EXCEPT ![way] = {}]
    BY <1>9 DEF CompactFails
  <2>2. /\ compacting' \in [Ways -> SUBSET [from : Nat, keep : Nat, covers : SUBSET Nat,
                                            lost : SUBSET Nat]]
        /\ \A w \in Ways : compacting'[w] \subseteq compacting[w]
    BY <2>1, <1>0
  <2>3. CallOK'
    BY <2>1, <2>2, <1>0 DEF CallOK
  <2> QED BY <2>1, <2>2, <2>3, <1>0 DEF CompactionInv
<1>10. ASSUME NEW target \in 1..Len(log) PROVE NewLeaf(target) \in 0..Len(log)
  <2>1. log[target].parent \in 0..(target - 1)
    BY <1>0 DEF ParentsFirst
  <2> QED BY <2>1, <1>0 DEF NewLeaf
<1>11. ASSUME NEW target \in Entries, Navigate(target) PROVE CompactionInv'
  <2>1. /\ log' = log /\ leaf' = NewLeaf(target) /\ branching' = branching
        /\ call' = call /\ running' = running /\ compacting' = compacting
    BY <1>11 DEF Navigate
  <2>2. leaf' \in 0..Len(log)
    BY <2>1, <1>10 DEF Entries
  <2>3. CallOK'
    BY <2>1, <1>0 DEF CallOK
  <2> QED BY <2>1, <2>2, <2>3, <1>0 DEF CompactionInv
<1>12. ASSUME NEW target \in Entries, SummariseStarts(target) PROVE CompactionInv'
  <2>1. /\ log' = log /\ leaf' = leaf /\ branching' = {target}
        /\ call' = call /\ running' = running /\ compacting' = compacting
    BY <1>12 DEF SummariseStarts
  <2>2. branching' \subseteq 1..Len(log)
    BY <2>1 DEF Entries
  <2>3. CallOK'
    BY <2>1, <1>0 DEF CallOK
  <2> QED BY <2>1, <2>2, <2>3, <1>0 DEF CompactionInv
<1>13. CASE SummariseEnds
  <2>1. PICK target \in branching :
            /\ Append1([kind |-> "branch", parent |-> NewLeaf(target)])
            /\ branching' = {}
            /\ UNCHANGED <<running, call, compacting, asides>>
    BY <1>13 DEF SummariseEnds
  <2>2. PICK q : q = NewLeaf(target)
    OBVIOUS
  <2>3. q \in 0..Len(log)
    BY <2>2, <1>0, <1>10
  <2>4. /\ log' = Append(log, [kind |-> "branch", parent |-> q])
        /\ leaf' = Len(log) + 1 /\ call' = call /\ running' = running
        /\ branching' \subseteq branching /\ compacting' = compacting
    BY <2>1, <2>2 DEF Append1
  <2>5. "branch" \in Plain /\ "branch" \notin MessageEntries
    BY DEF Plain, MessageEntries
  <2> QED BY <2>3, <2>4, <2>5, PlainCall
<1>14. CASE SummariseFails
  <2>1. /\ log' = log /\ leaf' = leaf /\ branching' = {}
        /\ call' = call /\ running' = running /\ compacting' = compacting
    BY <1>14 DEF SummariseFails
  <2>2. CallOK'
    BY <2>1, <1>0 DEF CallOK
  <2> QED BY <2>1, <2>2, <1>0 DEF CompactionInv
<1>15. CASE UNCHANGED vars
  <2>1. /\ log' = log /\ leaf' = leaf /\ branching' = branching
        /\ call' = call /\ running' = running /\ compacting' = compacting
    BY <1>15 DEF vars
  <2>2. CallOK'
    BY <2>1, <1>0 DEF CallOK
  <2> QED BY <2>1, <2>2, <1>0 DEF CompactionInv
<1> QED BY <1>1, <1>2, <1>3, <1>4, <1>5, <1>6, <1>7, <1>8, <1>9, <1>11, <1>12,
           <1>13, <1>14, <1>15 DEF Next

\* The invariant holds throughout.
THEOREM CompactionInvHolds == Spec => []CompactionInv
BY CompactionInit, CompactionStep, PTL DEF Spec

-----------------------------------------------------------------------------
(***************************************************************************)
(* What the invariant is for.                                              *)
(***************************************************************************)
LEMMA InvForgetsNothing == CompactionInv => NothingForgotten
<1> SUFFICES ASSUME CompactionInv, ~Astray, NEW i \in Messages(Path)
             PROVE  LET last == Latest(Path)
                        summarised == IF last = 0 THEN {}
                                      ELSE log[last].covers \cup log[last].lost
                    IN i \in Context(Path) \cup summarised
    BY DEF NothingForgotten
<1>1. PICK last : last = Latest(Path)
    OBVIOUS
<1>2. /\ Len(log) \in Nat /\ leaf \in 0..Len(log) /\ LogOK(log) /\ ParentsFirst(log)
      /\ Path \in SUBSET (1..Len(log)) /\ Path = Branch(log, leaf)
    BY PathIs, LogBasics DEF CompactionInv
<1>3. Context(Path) = Messages(IF last = 0 THEN Path
                               ELSE {j \in Path : \/ j > last
                                                  \/ log[last].keep \in Path
                                                     /\ j \in log[last].keep .. last})
    BY <1>1 DEF Context
<1>4. i \in Path /\ i \in 1..Len(log) /\ Kind(i) \in Shows
    BY <1>2 DEF Messages
<1>5. CASE last = 0
  <2>1. i \in Context(Path)
    BY <1>3, <1>5
  <2> QED BY <2>1
<1>6. CASE last # 0
  <2>1. last \in Path /\ last \in 1..Len(log) /\ log[last].kind = "compaction"
    <3>1. last \in Path /\ Kind(last) = "compaction"
        BY <1>1, <1>2, <1>6, LatestIs
    <3> QED BY <3>1, <1>2 DEF Kind
  <2> DEFINE k == log[last].keep
  <2>2. k \in Path
    BY <2>1 DEF Astray, Kind
  <2>3. k \in 1..(last - 1)
    BY <2>1, <1>2, KeepBefore
  <2>4. CASE i >= k
    <3>1. i > last \/ i \in k .. last
        BY <2>4, <2>1, <2>3, <1>4
    <3>2. i \in Context(Path)
        BY <3>1, <2>2, <1>3, <1>4, <1>6 DEF Messages
    <3> QED BY <3>2
  <2>5. CASE ~(i >= k)
    <3>1. Branch(log, k) = {j \in Path : j <= k}
        BY <2>2, <1>2, BranchPrefix
    <3>2. i \in Branch(log, k) \ {k}
        BY <3>1, <2>3, <2>5, <1>4
    <3>3. ~AstrayIn(log, Branch(log, k))
      <4>1. ~AstrayIn(log, Path)
        BY DEF Astray, AstrayIn, Kind
      <4> QED BY <4>1, <2>2, <1>2, GoodPrefix
    <3>4. Covered(log, log[last])
        BY <2>1, <1>2 DEF LogOK, EntryOK, CompactionOK
    <3>5. i \in MessagesIn(log, Branch(log, k) \ {k})
        BY <3>2, <1>4 DEF MessagesIn, Kind
    <3>6. i \in log[last].covers \cup log[last].lost
        BY <3>3, <3>4, <3>5 DEF Covered
    <3> QED BY <3>6, <1>1, <1>6
  <2> QED BY <2>4, <2>5
<1> QED BY <1>5, <1>6

\* The invariant gives the property about results and their calls.
LEMMA InvKeepsCalls == CompactionInv => ResultsKeepTheirCall
<1> SUFFICES ASSUME CompactionInv, ~Moved, NEW i \in Context(Path), Kind(i) = "result",
                    log[i].call \notin Entries \ Path
             PROVE  log[i].call \in Context(Path)
    BY DEF ResultsKeepTheirCall
<1>1. PICK last : last = Latest(Path)
    OBVIOUS
<1>2. /\ Len(log) \in Nat /\ leaf \in 0..Len(log) /\ LogOK(log) /\ ParentsFirst(log)
      /\ Path \in SUBSET (1..Len(log)) /\ Path = Branch(log, leaf)
    BY PathIs, LogBasics DEF CompactionInv
<1>3. Context(Path) = Messages(IF last = 0 THEN Path
                               ELSE {j \in Path : \/ j > last
                                                  \/ log[last].keep \in Path
                                                     /\ j \in log[last].keep .. last})
    BY <1>1 DEF Context
<1>4. i \in Path /\ i \in 1..Len(log) /\ log[i].kind = "result"
  <2>1. i \in Path
    BY <1>3 DEF Messages
  <2> QED BY <2>1, <1>2 DEF Kind
<1>5. PICK a : a = log[i].call
    OBVIOUS
<1>6. /\ a \in 1..(i - 1)
      /\ log[a].kind = "calls"
      /\ \A j \in 1..(i - 1) : log[j].kind = "compaction" => log[j].keep < a
    BY <1>2, <1>4, <1>5 DEF LogOK, EntryOK, AnswersAt
<1>7. a \in Path /\ Kind(a) \in Shows
  <2>1. a \in Entries
    BY <1>2, <1>4, <1>6 DEF Entries
  <2> QED BY <2>1, <1>5, <1>6 DEF Kind, Shows, MessageEntries
<1>8. CASE last = 0
    BY <1>3, <1>5, <1>7, <1>8 DEF Messages
<1>9. CASE last # 0
  <2>1. last \in Path /\ last \in 1..Len(log) /\ log[last].kind = "compaction"
    <3>1. last \in Path /\ Kind(last) = "compaction"
        BY <1>1, <1>2, <1>9, LatestIs
    <3> QED BY <3>1, <1>2 DEF Kind
  <2> DEFINE k == log[last].keep
  <2>2. k \in 1..(last - 1)
    BY <2>1, <1>2, KeepBefore
  <2>3. /\ k \in Path
        /\ \A j \in Path : log[j].kind = "result" /\ log[j].call \in Path /\ j <= last
                              => ~(log[j].call < k /\ k <= j)
    <3>1. ~MovedIn(log, Path)
        BY DEF Moved, MovedIn, Kind
    <3> QED BY <3>1, <2>1, <1>2, CutOnPath
  <2>4. a > last \/ a \in k .. last
    <3>1. CASE i > last
      <4>1. last \in 1..(i - 1)
        BY <3>1, <2>1, <1>4
      <4>2. k < a
        BY <4>1, <2>1, <1>6
      <4> QED BY <4>2, <2>1, <2>2, <1>6
    <3>2. CASE ~(i > last)
      <4>1. i \in k .. last
        BY <3>2, <2>1, <1>3, <1>9 DEF Messages
      <4>2. ~(a < k /\ k <= i)
        BY <4>1, <2>1, <2>2, <2>3, <1>4, <1>5, <1>7
      <4> QED BY <4>1, <4>2, <2>1, <2>2, <1>6, <1>4
    <3> QED BY <3>1, <3>2
  <2>5. a \in Context(Path)
    BY <2>3, <2>4, <1>3, <1>7, <1>9 DEF Messages
  <2> QED BY <2>5, <1>5
<1> QED BY <1>8, <1>9

\* Every message on the path is in the context or went into the latest
\* summary, or was dropped where a split turn had no history (lost), unless a
\* compaction went astray: buildSessionContext after prepareCompaction, compact
\* and appendCompaction, with navigateTree at any time.
THEOREM CompactionForgetsNothing == Spec => []NothingForgotten
BY CompactionInvHolds, InvForgetsNothing, PTL

\* A tool result in the context has its call there, if that is on the path and
\* no compaction of the path was prepared on another one: findCutPoint never
\* cuts between the two, even when compactions, settings and branch summaries
\* are written while the tool runs.
THEOREM CompactionKeepsCalls == Spec => []ResultsKeepTheirCall
BY CompactionInvHolds, InvKeepsCalls, PTL

=============================================================================
