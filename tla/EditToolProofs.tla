---------------------------- MODULE EditToolProofs ----------------------------
(***************************************************************************)
(* Proofs about what the edit tools do to files.                           *)
(*                                                                         *)
(* EditHistory: for any number of files, texts, spellings, prompts and     *)
(* calls, no two calls are about to write the same file, and both undo and *)
(* revert give back the disk as it was before a prompt.                    *)
(*                                                                         *)
(* FileMutationQueue: for any number of calls, any paths and any links     *)
(* between them, chains are live, and operations of one key run one at a   *)
(* time and in the order of the calls.                                     *)
(***************************************************************************)
EXTENDS EditHistory, FileMutationQueue, SeqFilterProofs, FiniteSetTheorems

-----------------------------------------------------------------------------
(***************************************************************************)
(* The guard.  A call that may still write owns its file; `rm`, which owns *)
(* nothing, is in hand alone and lets no call join it.                     *)
(***************************************************************************)
MayWrite == {"safety", "capture", "hook", "ready"}

ActiveOK ==
    /\ made \in Nat
    /\ owner \in [Files -> Nat]
    /\ DOMAIN active \subseteq 1..made
    /\ \A i \in DOMAIN active :
          /\ DOMAIN active[i] = {"call", "pc", "prompt", "before", "snap"}
          /\ active[i].call \in Calls

OwnersHold ==
    \A i \in DOMAIN active :
        active[i].pc \in MayWrite /\ Mutates(active[i].call)
            => owner[FileOf(active[i].call)] = i

RemoveIsAlone ==
    \A i \in DOMAIN active :
        active[i].call.tool = "rm" => DOMAIN active = {i} /\ phase # "open"

GuardInv == ActiveOK /\ OwnersHold /\ RemoveIsAlone

-----------------------------------------------------------------------------
(***************************************************************************)
(* Undo, as long as nothing has raced with it.                             *)
(***************************************************************************)
Contents == Texts \cup {Absent}
Disks == [Files -> Contents]

BatchesOK(bs) ==
    /\ DOMAIN bs \subseteq 1..prompt
    /\ \A p \in DOMAIN bs :
          /\ DOMAIN bs[p] \subseteq Files
          /\ \A f \in DOMAIN bs[p] : bs[p][f] \in Contents

HistoryOK ==
    /\ files \in Disks
    /\ prompt \in Nat
    /\ start \in [1..prompt -> Disks \cup {<< >>}]
    /\ BatchesOK(batches) /\ BatchesOK(saved)

(* Calls and an undo exclude each other, a session that is down has        *)
(* neither, and calls are of a numbered prompt.                            *)
Exclusive ==
    /\ DOMAIN active # {} => undo = << >> /\ prompt # 0
    /\ ~up => DOMAIN active = {} /\ undo = << >> /\ ~running
    /\ running => prompt # 0

(* Unless its last write failed, the session file has the pre-images that  *)
(* memory has; only batches with no pre-image may differ.                  *)
Images(bs, p) == IF p \in DOMAIN bs THEN bs[p] ELSE << >>
SavedInTime ==
    /\ ~up => ~unsaved
    /\ up /\ ~unsaved => \A p \in 1..prompt : Images(batches, p) = Images(saved, p)

(* Before a call can write, its file has a pre-image for the prompt it was *)
(* looked at in; prompts numbered since then have no disk of their own.    *)
CapturedInTime ==
    \A i \in DOMAIN active :
        LET f == FileOf(active[i].call)
            n == active[i].prompt
        IN
        /\ active[i].pc \in {"capture", "hook", "ready"} =>
              /\ n \in DOMAIN batches
              /\ \A p \in 1..prompt : p > n => start[p] = << >>
        /\ active[i].pc = "capture" =>
              \A p \in DOMAIN batches : p >= n => f \notin DOMAIN batches[p]
        /\ active[i].pc \in {"hook", "ready"} => f \in DOMAIN batches[n]

(* The batches that hold a pre-image of f from prompt m on, and what an    *)
(* undo to m would make of f.                                              *)
Touched(bs, m, f) == {p \in DOMAIN bs : p >= m /\ f \in DOMAIN bs[p]}
Before(bs, m, f) ==
    IF Touched(bs, m, f) = {} THEN files[f] ELSE bs[Least(Touched(bs, m, f))][f]

(* What an undo goes by, now or once the session is resumed.               *)
Promised == IF up THEN batches ELSE saved

Reaches(bs) ==
    \A m \in 1..prompt :
        start[m] # << >> => \A f \in Files : Before(bs, m, f) = start[m][f]

(* An undo in progress has put back what it has no longer to do.           *)
UndoOK ==
    undo # << >> =>
        /\ DOMAIN undo = {"from", "todo", "keep"}
        /\ undo.from \in 1..prompt
        /\ undo.keep = Cardinality({p \in DOMAIN batches : p < undo.from})
        /\ \A f \in DOMAIN undo.todo :
              /\ f \in Files /\ Touched(batches, undo.from, f) # {}
              /\ undo.todo[f] = batches[Least(Touched(batches, undo.from, f))][f]
        /\ \A f \in Files \ DOMAIN undo.todo :
              files[f] = Before(batches, undo.from, f)
        /\ \A m \in 1..prompt : m > undo.from => start[m] = << >>

UndoWorks ==
    /\ HistoryOK
    /\ Exclusive
    /\ SavedInTime
    /\ CapturedInTime
    /\ UndoOK
    /\ Reaches(Promised)

UndoInv == ~raced => UndoWorks

EditInv == GuardInv /\ UndoInv

-----------------------------------------------------------------------------
(***************************************************************************)
(* The guard holds.                                                        *)
(***************************************************************************)

(* Calls go, or move on to a place where they may write no more than       *)
(* before, and at most a call that no longer may write is released.        *)
LEMMA GuardKeeps ==
    ASSUME GuardInv, NEW i,
           DOMAIN active' \subseteq DOMAIN active,
           \A j \in DOMAIN active' :
               /\ DOMAIN active'[j] = {"call", "pc", "prompt", "before", "snap"}
               /\ active'[j].call = active[j].call
               /\ active'[j].pc \in MayWrite => active[j].pc \in MayWrite,
           \/ owner' = owner
           \/ /\ Release(i)
              /\ i \in DOMAIN active' => active'[i].pc \notin MayWrite,
           made' = made,
           phase' = phase \/ phase' # "open"
    PROVE  GuardInv'
<1>1. ActiveOK'
  <2>1. owner' \in [Files -> Nat]
    BY DEF GuardInv, ActiveOK, Release
  <2> QED BY <2>1 DEF GuardInv, ActiveOK
<1>2. OwnersHold'
  <2> SUFFICES ASSUME NEW j \in DOMAIN active', active'[j].pc \in MayWrite,
                      Mutates(active'[j].call)
               PROVE  owner'[FileOf(active'[j].call)] = j
    BY DEF OwnersHold, MayWrite, Mutates, FileOf
  <2>1. /\ j \in DOMAIN active /\ active'[j].call = active[j].call
        /\ owner[FileOf(active[j].call)] = j
    BY DEF GuardInv, OwnersHold
  <2>2. FileOf(active[j].call) \in Files
    BY <2>1 DEF GuardInv, ActiveOK, Calls, Call, Names, FileOf
  <2> QED BY <2>1, <2>2 DEF Release, GuardInv, ActiveOK
<1>3. RemoveIsAlone'
  BY DEF GuardInv, RemoveIsAlone
<1> QED BY <1>1, <1>2, <1>3 DEF GuardInv

LEMMA GuardStart ==
    ASSUME GuardInv, NEW c \in Calls, Start(c)
    PROVE  GuardInv'
<1> USE DEF GuardInv, ActiveOK, Start, Arrives
<1>1. /\ DOMAIN active' = DOMAIN active \cup {made + 1}
      /\ active'[made + 1] = InHand(c)
      /\ \A j \in DOMAIN active : active'[j] = active[j] /\ j # made + 1
  BY DEF With
<1>2. FileOf(c) \in Files /\ c.tool \in {"write", "edit", "rm"}
  BY DEF Calls, Call, Names, FileOf
<1>3. ActiveOK'
  <2>1. owner' \in [Files -> Nat]
    BY <1>2
  <2> QED BY <1>1, <2>1 DEF InHand
<1>4. OwnersHold'
  <2> SUFFICES ASSUME NEW j \in DOMAIN active', active'[j].pc \in MayWrite,
                      Mutates(active'[j].call)
               PROVE  owner'[FileOf(active'[j].call)] = j
    BY DEF OwnersHold, MayWrite, Mutates, FileOf
  <2>1. CASE j = made + 1
    BY <2>1, <1>1, <1>2 DEF InHand
  <2>2. CASE j \in DOMAIN active
    <3>1. owner[FileOf(active[j].call)] = j /\ active'[j] = active[j] /\ j # 0
      BY <2>2, <1>1 DEF OwnersHold
    <3>2. FileOf(active[j].call) \in Files
      BY <2>2 DEF Calls, Call, Names, FileOf
    <3> QED BY <3>1, <3>2 DEF Busy
  <2> QED BY <2>1, <2>2, <1>1
<1>5. RemoveIsAlone'
  <2> SUFFICES ASSUME NEW j \in DOMAIN active', active'[j].call.tool = "rm"
               PROVE  DOMAIN active' = {j} /\ phase' # "open"
    BY DEF RemoveIsAlone
  <2>1. CASE j = made + 1
    <3>1. c.tool = "rm"
      BY <2>1, <1>1 DEF InHand
    <3>2. active = << >> /\ phase' = "alone"
      BY <3>1 DEF Joins, Mutates
    <3> QED BY <3>2, <1>1, <2>1
  <2>2. CASE j \in DOMAIN active
    <3>1. phase # "open"
      BY <2>2, <1>1 DEF RemoveIsAlone
    <3>2. active # << >>
      BY <2>2
    <3> QED BY <3>1, <3>2 DEF Joins
  <2> QED BY <2>1, <2>2, <1>1
<1> QED BY <1>3, <1>4, <1>5

LEMMA GuardInit == Init => GuardInv
BY DEF Init, GuardInv, ActiveOK, OwnersHold, RemoveIsAlone

LEMMA GuardStep ==
    ASSUME GuardInv, [Next]_vars
    PROVE  GuardInv'
<1> USE DEF GuardInv
<1>1. CASE NewPrompt
  BY <1>1 DEF NewPrompt, Numbered, ActiveOK, OwnersHold, RemoveIsAlone
<1>2. ASSUME NEW c \in Calls, RefusedBusy(c)
      PROVE  GuardInv'
  <2>1. phase' = phase \/ active = << >>
    BY <1>2 DEF RefusedBusy, Arrives, Joins
  <2>2. UNCHANGED <<active, owner>> /\ made' = made + 1
    BY <1>2 DEF RefusedBusy, Arrives
  <2>3. ActiveOK'
    BY <2>2 DEF ActiveOK
  <2>4. OwnersHold'
    BY <2>2 DEF OwnersHold
  <2>5. RemoveIsAlone'
    <3>1. CASE phase' = phase
      BY <3>1, <2>2 DEF RemoveIsAlone
    <3>2. CASE active = << >>
      BY <3>2, <2>2 DEF RemoveIsAlone
    <3> QED BY <2>1, <3>1, <3>2
  <2> QED BY <2>3, <2>4, <2>5
<1>3. ASSUME NEW i \in Numbers,
             \/ Unsafe(i) \/ RefusedRepeat(i) \/ RefusedRunning(i)
             \/ RefusedPutBack(i)
      PROVE  GuardInv'
  <2>1. Drop(i) /\ Release(i) /\ UNCHANGED <<made, phase>>
    BY <1>3 DEF Unsafe, RefusedRepeat, RefusedRunning, RefusedPutBack, Looked, Refused
  <2> QED
    BY <2>1, GuardKeeps DEF Drop, Without, ActiveOK
<1>4. ASSUME NEW i \in Numbers, Looks(i) \/ Capture(i) \/ CaptureFails(i)
      PROVE  GuardInv'
  <2>1. /\ i \in DOMAIN active /\ active[i].pc \in MayWrite
        /\ UNCHANGED <<owner, made, phase>>
    BY <1>4 DEF Looks, Looked, Capture, CaptureFails, guards, MayWrite
  <2>2. CASE Looks(i)
    BY <2>1, <2>2, GuardKeeps DEF Looks, ActiveOK
  <2>3. CASE Drop(i)
    BY <2>1, <2>3, GuardKeeps DEF Drop, Without, ActiveOK
  <2>4. CASE \E place : To(i, place)
    <3>1. PICK place : To(i, place)
      BY <2>4
    <3> QED BY <2>1, <3>1, GuardKeeps DEF To, ActiveOK
  <2> QED BY <1>4, <2>2, <2>3, <2>4 DEF Capture, CaptureFails
<1>5. ASSUME NEW i \in Numbers, Hook(i)
      PROVE  GuardInv'
  <2>1. CASE To(i, "ready") /\ UNCHANGED owner
    BY <1>5, <2>1, GuardKeeps DEF Hook, To, ActiveOK, MayWrite
  <2>2. CASE Drop(i) /\ (Release(i) \/ UNCHANGED owner)
    BY <1>5, <2>2, GuardKeeps DEF Hook, Drop, Without, ActiveOK
  <2> QED BY <1>5, <2>1, <2>2 DEF Hook
<1>6. ASSUME NEW i \in Numbers, Succeeds(i) \/ Fails(i)
      PROVE  GuardInv'
  <2>1. Release(i) /\ i \in DOMAIN active /\ UNCHANGED <<made, phase>>
    BY <1>6 DEF Succeeds, Fails, Ended
  <2>2. CASE Drop(i)
    BY <2>1, <2>2, GuardKeeps DEF Drop, Without, ActiveOK
  <2>3. CASE active' = [active EXCEPT ![i].pc = "load", ![i].prompt = prompt,
                            ![i].before = batches[prompt][FileOf(active[i].call)]]
    BY <2>1, <2>3, GuardKeeps DEF ActiveOK, MayWrite
  <2> QED BY <1>6, <2>2, <2>3 DEF Succeeds, Fails
<1>7. ASSUME NEW i \in Numbers, RecordLoads(i) \/ RecordOpens(i) \/ RecordSaves(i)
      PROVE  GuardInv'
  <2>1. i \in DOMAIN active /\ UNCHANGED <<owner, made, phase>>
    BY <1>7 DEF RecordLoads, RecordOpens, RecordSaves, guards
  <2>2. CASE RecordLoads(i)
    BY <2>1, <2>2, GuardKeeps DEF RecordLoads, ActiveOK, MayWrite
  <2>3. CASE RecordOpens(i)
    BY <2>1, <2>3, GuardKeeps DEF RecordOpens, To, ActiveOK, MayWrite
  <2>4. CASE RecordSaves(i)
    BY <2>1, <2>4, GuardKeeps DEF RecordSaves, Drop, Without, ActiveOK
  <2> QED BY <1>7, <2>2, <2>3, <2>4
<1>8. CASE Crash
  BY <1>8 DEF Crash, ActiveOK, OwnersHold, RemoveIsAlone
<1>9. ASSUME UNCHANGED <<active, owner, made>>, phase' = phase \/ phase' # "open"
      PROVE  GuardInv'
  BY <1>9 DEF ActiveOK, OwnersHold, RemoveIsAlone
<1>10. CASE RunGroup
  BY <1>9, <1>10 DEF RunGroup, guards
<1>11. CASE \E m \in Prompts : UndoStarts(m) \/ Revert(m)
  BY <1>9, <1>11 DEF UndoStarts, Revert, guards
<1>12. CASE (\E f \in Files : UndoRestores(f)) \/ UndoEnds \/ KeepAll
  BY <1>9, <1>12 DEF UndoRestores, UndoEnds, KeepAll, guards
<1>13. CASE Abort \/ Resume
  BY <1>9, <1>13 DEF Abort, Resume, guards
<1>14. CASE UNCHANGED vars
  BY <1>9, <1>14 DEF vars, guards
<1>15. CASE PromptOverlaps
  BY <1>9, <1>15 DEF PromptOverlaps, Numbered
<1> QED
  BY <1>1, <1>2, <1>3, <1>4, <1>5, <1>6, <1>7, <1>8, <1>10, <1>11, <1>12, <1>13,
     <1>14, <1>15, GuardStart DEF Next

LEMMA GuardKeepsWritersApart == GuardInv => OneWriterPerFile
<1> SUFFICES ASSUME GuardInv,
                    NEW i \in DOMAIN active, NEW j \in DOMAIN active, i # j,
                    active[i].pc \in MayWrite, active[j].pc \in MayWrite
             PROVE  FileOf(active[i].call) # FileOf(active[j].call)
  BY DEF OneWriterPerFile, MayWrite
<1>1. active[i].call.tool # "rm" /\ active[j].call.tool # "rm"
  BY DEF GuardInv, RemoveIsAlone
<1>2. Mutates(active[i].call) /\ Mutates(active[j].call)
  BY <1>1 DEF GuardInv, ActiveOK, Calls, Call, Mutates
<1> QED BY <1>2 DEF GuardInv, OwnersHold

(* OneWriterPerFile, for any files, spellings and number of calls: through *)
(* refusals, aborts, failed reads, undos and crashes no two calls that may *)
(* still write are for the same file (_fileMutationBusy, afterToolCall).   *)
THEOREM WritersKeptApart == Spec => []OneWriterPerFile
<1>1. Spec => []GuardInv
  BY GuardInit, GuardStep, PTL DEF Spec
<1> QED BY <1>1, GuardKeepsWritersApart, PTL

-----------------------------------------------------------------------------
(***************************************************************************)
(* The operators behind an undo.                                           *)
(***************************************************************************)

LEMMA NatHasLeast ==
    ASSUME NEW T \in SUBSET Nat, T # {}
    PROVE  \E x \in T : \A y \in T : x <= y
<1>1. IsWellFoundedOn(OpToRel(<, Nat), Nat)
  BY NatLessThanWellFounded, Zenon
<1>2. \E x \in T : \A y \in T : ~ (<<y, x>> \in OpToRel(<, Nat))
  BY <1>1, WFMin, Zenon
<1>3. \E x \in T : \A y \in T : ~ (y \in Nat /\ x \in Nat /\ y < x)
  BY <1>2, Zenon DEF OpToRel
<1> QED BY <1>3

LEMMA LeastIs ==
    ASSUME NEW T \in SUBSET Nat, T # {}
    PROVE  Least(T) \in T /\ \A q \in T : Least(T) <= q
BY NatHasLeast DEF Least

LEMMA LeastOnly ==
    ASSUME NEW T \in SUBSET Nat, NEW x \in T, \A q \in T : x <= q
    PROVE  Least(T) = x
<1>1. Least(T) \in T /\ Least(T) <= x
  BY LeastIs
<1>2. x <= Least(T) /\ x \in Nat /\ Least(T) \in Nat
  BY <1>1
<1> QED BY <1>1, <1>2

LEMMA TouchedAreNumbers ==
    ASSUME NEW n \in Nat, NEW bs, DOMAIN bs \subseteq 1..n, NEW m, NEW f
    PROVE  Touched(bs, m, f) \in SUBSET Nat
BY DEF Touched

(* Batches with the same pre-images undo the same.                         *)
LEMMA SameImages ==
    ASSUME NEW n \in Nat, NEW bs, NEW cs,
           DOMAIN bs \subseteq 1..n, DOMAIN cs \subseteq 1..n,
           \A p \in 1..n : Images(bs, p) = Images(cs, p),
           NEW m, NEW f
    PROVE  /\ Touched(bs, m, f) = Touched(cs, m, f)
           /\ \A p \in Touched(bs, m, f) : bs[p][f] = cs[p][f]
<1>1. ASSUME NEW p \in DOMAIN bs, f \in DOMAIN bs[p]
      PROVE  p \in DOMAIN cs /\ cs[p] = bs[p]
  <2>1. Images(bs, p) = bs[p] /\ Images(cs, p) = bs[p]
    BY <1>1 DEF Images
  <2>2. bs[p] # << >>
    BY <1>1
  <2> QED BY <2>1, <2>2 DEF Images
<1>2. ASSUME NEW p \in DOMAIN cs, f \in DOMAIN cs[p]
      PROVE  p \in DOMAIN bs /\ cs[p] = bs[p]
  <2>1. Images(cs, p) = cs[p] /\ Images(bs, p) = cs[p]
    BY <1>2 DEF Images
  <2>2. cs[p] # << >>
    BY <1>2
  <2> QED BY <2>1, <2>2 DEF Images
<1> QED BY <1>1, <1>2 DEF Touched

LEMMA SameBefore ==
    ASSUME HistoryOK, SavedInTime, up, ~unsaved, NEW m, NEW f
    PROVE  /\ Touched(batches, m, f) = Touched(saved, m, f)
           /\ Before(batches, m, f) = Before(saved, m, f)
<1>0. /\ prompt \in Nat
      /\ DOMAIN batches \subseteq 1..prompt /\ DOMAIN saved \subseteq 1..prompt
      /\ \A p \in 1..prompt : Images(batches, p) = Images(saved, p)
  BY DEF HistoryOK, BatchesOK, SavedInTime
<1>1. /\ Touched(batches, m, f) = Touched(saved, m, f)
      /\ \A p \in Touched(batches, m, f) : batches[p][f] = saved[p][f]
  BY <1>0, SameImages
<1>2. Touched(batches, m, f) # {} =>
        Least(Touched(batches, m, f)) \in Touched(batches, m, f)
  BY TouchedAreNumbers, LeastIs DEF HistoryOK, BatchesOK
<1> QED BY <1>1, <1>2 DEF Before

(* What the undo puts back, file by file.                                  *)
LEMMA RestoresBefore ==
    ASSUME HistoryOK, NEW bs, BatchesOK(bs), NEW m
    PROVE  /\ \A f \in DOMAIN EarliestPreImages(bs, m) :
                 /\ f \in Files /\ Touched(bs, m, f) # {}
                 /\ EarliestPreImages(bs, m)[f] = bs[Least(Touched(bs, m, f))][f]
           /\ \A f \in Files \ DOMAIN EarliestPreImages(bs, m) :
                 Touched(bs, m, f) = {}
<1> DEFINE later == {p \in DOMAIN bs : p >= m}
<1>1. DOMAIN EarliestPreImages(bs, m) = UNION {DOMAIN bs[p] : p \in later}
  BY DEF EarliestPreImages
<1>2. ASSUME NEW f
      PROVE  {p \in later : f \in DOMAIN bs[p]} = Touched(bs, m, f)
  BY DEF Touched
<1>3. ASSUME NEW f \in DOMAIN EarliestPreImages(bs, m)
      PROVE  /\ f \in Files /\ Touched(bs, m, f) # {}
             /\ EarliestPreImages(bs, m)[f] = bs[Least(Touched(bs, m, f))][f]
  <2>1. PICK p \in later : f \in DOMAIN bs[p]
    BY <1>1
  <2>2. f \in Files /\ p \in Touched(bs, m, f)
    BY <2>1 DEF BatchesOK, Touched
  <2>3. EarliestPreImages(bs, m)[f] = bs[Least({q \in later : f \in DOMAIN bs[q]})][f]
    BY <1>1 DEF EarliestPreImages
  <2> QED BY <2>2, <2>3, <1>2
<1>4. ASSUME NEW f \in Files \ DOMAIN EarliestPreImages(bs, m)
      PROVE  Touched(bs, m, f) = {}
  BY <1>1 DEF Touched
<1> QED BY <1>3, <1>4

LEMMA ReachesStart ==
    ASSUME HistoryOK, NEW bs, BatchesOK(bs), Reaches(bs),
           NEW m \in 1..prompt, start[m] # << >>
    PROVE  Restored(EarliestPreImages(bs, m)) = start[m]
<1>1. ASSUME NEW f \in Files
      PROVE  Restored(EarliestPreImages(bs, m))[f] = start[m][f]
  <2>1. Restored(EarliestPreImages(bs, m))[f] = Before(bs, m, f)
    BY RestoresBefore DEF Restored, Before
  <2> QED BY <2>1 DEF Reaches
<1>2. start[m] \in Disks
  BY DEF HistoryOK
<1>3. start[m] = [f \in Files |-> start[m][f]]
  BY <1>2 DEF Disks
<1>4. Restored(EarliestPreImages(bs, m))
        = [f \in Files |-> Restored(EarliestPreImages(bs, m))[f]]
  BY DEF Restored
<1> QED BY <1>1, <1>3, <1>4

LEMMA UndoInvReaches == UndoInv => UndoReachesStart
<1> SUFFICES ASSUME UndoInv, ~raced, NEW m \in 1..prompt, start[m] # << >>
             PROVE  /\ up => Restored(EarliestPreImages(batches, m)) = start[m]
                    /\ ~unsaved => Restored(EarliestPreImages(saved, m)) = start[m]
  BY DEF UndoReachesStart
<1> USE DEF UndoInv, UndoWorks
<1>1. up => Reaches(batches)
  BY DEF Promised
<1>2. ~unsaved => Reaches(saved)
  <2>1. CASE up /\ ~unsaved
    BY <2>1, <1>1, SameBefore DEF Reaches
  <2>2. CASE ~up
    BY <2>2 DEF Promised
  <2> QED BY <2>1, <2>2
<1> QED BY <1>1, <1>2, ReachesStart DEF HistoryOK

-----------------------------------------------------------------------------
(***************************************************************************)
(* Each step keeps the promise of an undo.                                 *)
(***************************************************************************)

(* Calls come, go and move on; nothing that an undo looks at changes.      *)
LEMMA CallsMoveOn ==
    ASSUME UndoWorks,
           UNCHANGED <<files, prompt, start, batches, saved, undo, up, unsaved>>,
           DOMAIN active' # {} => up /\ undo = << >> /\ prompt # 0,
           running' => running,
           \A j \in DOMAIN active' :
               \/ active'[j].pc \in {"safety", "load", "open", "save"}
               \/ /\ j \in DOMAIN active
                  /\ active'[j].call = active[j].call
                  /\ active'[j].prompt = active[j].prompt
                  /\ \/ active'[j].pc = active[j].pc
                     \/ active[j].pc = "hook" /\ active'[j].pc = "ready"
    PROVE  UndoWorks'
<1> USE DEF UndoWorks
<1>1. HistoryOK'
  BY DEF HistoryOK, BatchesOK
<1>2. Exclusive'
  BY DEF Exclusive
<1>3. SavedInTime'
  BY DEF SavedInTime
<1>4. CapturedInTime'
  BY DEF CapturedInTime, FileOf
<1>5. UndoOK'
  BY DEF UndoOK, Before
<1>6. Reaches(Promised)'
  BY DEF Reaches, Before, Promised
<1> QED BY <1>1, <1>2, <1>3, <1>4, <1>5, <1>6

(* A function on 1..n is a sequence, and Append adds to it.                *)
LEMMA AppendToFunction ==
    ASSUME NEW n \in Nat, NEW S, NEW f \in [1..n -> S], NEW x \in S
    PROVE  /\ Append(f, x) \in [1..(n + 1) -> S]
           /\ Append(f, x)[n + 1] = x
           /\ \A p \in 1..n : Append(f, x)[p] = f[p]
<1>1. f \in Seq(S) /\ Len(f) = n
  OBVIOUS
<1>2. Append(f, x) \in Seq(S) /\ Len(Append(f, x)) = n + 1
  BY <1>1
<1>3. Append(f, x) \in [1..(n + 1) -> S]
  BY <1>2, LenProperties
<1>4. /\ Append(f, x)[n + 1] = x
      /\ \A p \in 1..n : Append(f, x)[p] = f[p]
  BY <1>1
<1> QED BY <1>3, <1>4

LEMMA UndoNewPrompt ==
    ASSUME UndoWorks, NewPrompt, ~raced'
    PROVE  UndoWorks'
<1> USE DEF UndoWorks
<1>0. undo = << >>
  BY DEF NewPrompt, Numbered
<1>1. /\ DOMAIN active = {} /\ undo = << >> /\ up
      /\ prompt' = prompt + 1 /\ start' = Append(start, files)
      /\ UNCHANGED <<files, up, active, batches, saved, undo, unsaved>>
  BY <1>0 DEF NewPrompt, Numbered, checkpoints
<1>2. /\ prompt \in Nat /\ files \in Disks \cup {<< >>}
      /\ start \in [1..prompt -> Disks \cup {<< >>}]
  BY DEF HistoryOK
<1>3. /\ start' \in [1..(prompt + 1) -> Disks \cup {<< >>}]
      /\ start'[prompt + 1] = files
      /\ \A p \in 1..prompt : start'[p] = start[p]
  <2> DEFINE S == Disks \cup {<< >>}
  <2>1. prompt \in Nat /\ files \in S /\ start \in [1..prompt -> S]
    BY <1>2
  <2> HIDE DEF S
  <2>2. /\ Append(start, files) \in [1..(prompt + 1) -> S]
        /\ Append(start, files)[prompt + 1] = files
        /\ \A p \in 1..prompt : Append(start, files)[p] = start[p]
    BY ONLY <2>1, AppendToFunction
  <2> QED BY <1>1, <2>2 DEF S
<1>4. HistoryOK'
  BY <1>1, <1>3 DEF HistoryOK, BatchesOK
<1>5. Exclusive'
  BY <1>1, <1>2 DEF Exclusive
<1>6. SavedInTime'
  BY <1>1, <1>2 DEF SavedInTime, Images, HistoryOK, BatchesOK
<1>7. CapturedInTime' /\ UndoOK'
  BY <1>1 DEF CapturedInTime, UndoOK
<1>8. Reaches(Promised)'
  <2> SUFFICES ASSUME NEW m \in 1..(prompt + 1), start'[m] # << >>, NEW f \in Files
               PROVE  Before(batches, m, f) = start'[m][f]
    BY <1>1 DEF Reaches, Before, Promised
  <2>1. CASE m \in 1..prompt
    BY <2>1, <1>1, <1>3 DEF Reaches, Promised
  <2>2. CASE m = prompt + 1
    <3>1. Touched(batches, m, f) = {}
      BY <2>2, <1>2 DEF Touched, HistoryOK, BatchesOK
    <3> QED BY <3>1, <2>2, <1>3 DEF Before
  <2> QED BY <2>1, <2>2, <1>2
<1> QED BY <1>4, <1>5, <1>6, <1>7, <1>8

(* A prompt that is numbered in the middle of calls has no disk of its own.*)
LEMMA UndoPromptOverlaps ==
    ASSUME UndoWorks, PromptOverlaps, ~raced'
    PROVE  UndoWorks'
<1> USE DEF UndoWorks
<1>0. undo = << >>
  BY DEF PromptOverlaps, Numbered
<1>1. /\ undo = << >> /\ up
      /\ prompt' = prompt + 1 /\ start' = Append(start, << >>)
      /\ UNCHANGED <<files, up, running, active, batches, saved, undo, unsaved>>
  BY <1>0 DEF PromptOverlaps, Numbered, checkpoints
<1>2. /\ prompt \in Nat /\ start \in [1..prompt -> Disks \cup {<< >>}]
  BY DEF HistoryOK
<1>3. /\ start' \in [1..(prompt + 1) -> Disks \cup {<< >>}]
      /\ start'[prompt + 1] = << >>
      /\ \A p \in 1..prompt : start'[p] = start[p]
  <2> DEFINE S == Disks \cup {<< >>}
  <2>1. prompt \in Nat /\ << >> \in S /\ start \in [1..prompt -> S]
    BY <1>2
  <2> HIDE DEF S
  <2>2. /\ Append(start, << >>) \in [1..(prompt + 1) -> S]
        /\ Append(start, << >>)[prompt + 1] = << >>
        /\ \A p \in 1..prompt : Append(start, << >>)[p] = start[p]
    BY ONLY <2>1, AppendToFunction
  <2> QED BY <1>1, <2>2 DEF S
<1>4. HistoryOK'
  BY <1>1, <1>3 DEF HistoryOK, BatchesOK
<1>5. Exclusive'
  BY <1>1, <1>2 DEF Exclusive
<1>6. SavedInTime'
  BY <1>1, <1>2 DEF SavedInTime, Images, HistoryOK, BatchesOK
<1>7. CapturedInTime'
  <2>1. \A p \in 1..prompt' : p \in 1..prompt \/ start'[p] = << >>
    BY <1>1, <1>2, <1>3
  <2> QED BY <2>1, <1>1, <1>3 DEF CapturedInTime, FileOf
<1>8. UndoOK'
  BY <1>1 DEF UndoOK
<1>9. Reaches(Promised)'
  <2> SUFFICES ASSUME NEW m \in 1..(prompt + 1), start'[m] # << >>, NEW f \in Files
               PROVE  Before(batches, m, f) = start'[m][f]
    BY <1>1 DEF Reaches, Before, Promised
  <2>1. m \in 1..prompt
    BY <1>2, <1>3
  <2> QED BY <2>1, <1>1, <1>3 DEF Reaches, Promised
<1> QED BY <1>4, <1>5, <1>6, <1>7, <1>8, <1>9

(* The batch of the prompt is made, empty.                                 *)
LEMMA UndoLooks ==
    ASSUME ActiveOK, UndoWorks, NEW i, Looks(i)
    PROVE  UndoWorks'
<1> USE DEF UndoWorks
<1>1. /\ i \in DOMAIN active /\ batches' = BatchFor(batches)
      /\ UNCHANGED <<files, up, running, prompt, start, saved, undo, unsaved>>
  BY DEF Looks, Looked, history
<1>2. up /\ undo = << >> /\ prompt \in Nat /\ prompt # 0
  BY <1>1 DEF Exclusive, HistoryOK
<1>3. /\ DOMAIN active' = DOMAIN active
      /\ \A j \in DOMAIN active : active'[j].call = active[j].call
      /\ \A j \in DOMAIN active : j # i =>
            active'[j].pc = active[j].pc /\ active'[j].prompt = active[j].prompt
      /\ active'[i].pc = IF HasPreImage(FileOf(active[i].call)) THEN "hook" ELSE "capture"
      /\ active'[i].prompt = prompt
  BY <1>1 DEF Looks, ActiveOK
<1>4. /\ DOMAIN batches' = DOMAIN batches \cup {prompt}
      /\ \A p \in DOMAIN batches : batches'[p] = batches[p]
      /\ prompt \notin DOMAIN batches => batches'[prompt] = << >>
  BY <1>1 DEF BatchFor, With
<1>5. HistoryOK'
  <2>1. BatchesOK(batches)'
    BY <1>1, <1>2, <1>4 DEF HistoryOK, BatchesOK
  <2> QED BY <2>1, <1>1 DEF HistoryOK, BatchesOK
<1>6. Exclusive'
  BY <1>1, <1>2 DEF Exclusive
<1>7. SavedInTime'
  <2>1. \A p \in 1..prompt : Images(batches', p) = Images(batches, p)
    BY <1>4 DEF Images
  <2> QED BY <2>1, <1>1, <1>2 DEF SavedInTime
<1>8. CapturedInTime'
  <2> SUFFICES ASSUME NEW j \in DOMAIN active
               PROVE  LET f == FileOf(active[j].call)
                          n == active'[j].prompt
                      IN
                      /\ active'[j].pc \in {"capture", "hook", "ready"} =>
                            /\ n \in DOMAIN batches'
                            /\ \A p \in 1..prompt : p > n => start[p] = << >>
                      /\ active'[j].pc = "capture" =>
                            \A p \in DOMAIN batches' : p >= n => f \notin DOMAIN batches'[p]
                      /\ active'[j].pc \in {"hook", "ready"} => f \in DOMAIN batches'[n]
    BY <1>1, <1>3 DEF CapturedInTime, FileOf
  <2>0. DOMAIN batches' \subseteq 1..prompt /\ DOMAIN batches \subseteq 1..prompt
    BY <1>1, <1>5 DEF HistoryOK, BatchesOK
  <2>1. CASE j = i
    <3>1. \A p \in DOMAIN batches' : p >= prompt => p = prompt
      BY <2>0, <1>2
    <3>2. \A p \in 1..prompt : ~(p > prompt)
      BY <1>2
    <3>3. ~HasPreImage(FileOf(active[i].call))
            => FileOf(active[i].call) \notin DOMAIN batches'[prompt]
      BY <1>4 DEF HasPreImage
    <3>4. HasPreImage(FileOf(active[i].call))
            => FileOf(active[i].call) \in DOMAIN batches'[prompt]
      BY <1>4 DEF HasPreImage
    <3> QED BY <2>1, <3>1, <3>2, <3>3, <3>4, <1>3, <1>4
  <2>2. CASE j # i
    BY <2>2, <1>3, <1>4 DEF CapturedInTime
  <2> QED BY <2>1, <2>2
<1>9. UndoOK'
  BY <1>1, <1>2 DEF UndoOK
<1>10. Reaches(Promised)'
  <2> SUFFICES ASSUME NEW m \in 1..prompt, start[m] # << >>, NEW f \in Files
               PROVE  Before(batches, m, f)' = start[m][f]
    BY <1>1, <1>2 DEF Reaches, Promised
  <2>1. Before(batches, m, f) = start[m][f]
    BY <1>2 DEF Reaches, Promised
  <2>2. /\ Touched(batches', m, f) = Touched(batches, m, f)
        /\ \A p \in Touched(batches, m, f) : batches'[p] = batches[p]
    BY <1>4 DEF Touched
  <2>3. Touched(batches, m, f) # {} =>
          Least(Touched(batches, m, f)) \in Touched(batches, m, f)
    BY TouchedAreNumbers, LeastIs DEF HistoryOK, BatchesOK
  <2> QED BY <2>1, <2>2, <2>3, <1>1 DEF Before
<1> QED BY <1>5, <1>6, <1>7, <1>8, <1>9, <1>10

(* A pre-image is added to the batch of the prompt before the file is      *)
(* changed, unless the file has one there: what an undo puts back stays.   *)
LEMMA UndoCaptures ==
    ASSUME GuardInv, UndoWorks, NEW i, Capture(i)
    PROVE  UndoWorks'
<1> USE DEF UndoWorks
<1> DEFINE f == FileOf(active[i].call)
           k == active[i].prompt
<1>1. /\ i \in DOMAIN active /\ active[i].pc = "capture"
      /\ UNCHANGED <<files, up, running, prompt, start, undo>>
      /\ saved' = batches' \/ saved' = saved
      /\ ~unsaved' => saved' = batches'
  BY DEF Capture, SaveCheckpoints
<1>2. /\ up /\ undo = << >> /\ prompt \in Nat /\ prompt # 0
      /\ k \in DOMAIN batches
      /\ \A p \in DOMAIN batches : p >= k => f \notin DOMAIN batches[p]
      /\ \A p \in 1..prompt : p > k => start[p] = << >>
      /\ f \in Files /\ files[f] \in Contents
      /\ BatchesOK(batches)
  <2>1. f \in Files
    BY <1>1 DEF GuardInv, ActiveOK, Calls, Call, Names, FileOf
  <2> QED BY <1>1, <2>1 DEF Exclusive, HistoryOK, CapturedInTime, Disks
<1>12. f \notin DOMAIN batches[k]
  <2>1. k \in Nat
    BY <1>2 DEF BatchesOK
  <2> QED BY <2>1, <1>2
<1>3. /\ DOMAIN active' \subseteq DOMAIN active
      /\ \A j \in DOMAIN active' :
            /\ active'[j].call = active[j].call
            /\ active'[j].prompt = active[j].prompt
            /\ j # i => active'[j].pc = active[j].pc
      /\ i \in DOMAIN active' => active'[i].pc = "hook"
  <2>1. CASE To(i, "hook")
    BY <2>1, <1>1 DEF To, GuardInv, ActiveOK
  <2>2. CASE Drop(i)
    BY <2>2 DEF Drop, Without
  <2> QED BY <2>1, <2>2 DEF Capture
<1>4. /\ DOMAIN batches' = DOMAIN batches
      /\ \A p \in DOMAIN batches : p # k => batches'[p] = batches[p]
      /\ batches'[k] = With(batches[k], f, files[f])
  BY <1>2 DEF Capture
<1>5. /\ DOMAIN batches'[k] = DOMAIN batches[k] \cup {f}
      /\ batches'[k][f] = files[f]
      /\ \A g \in DOMAIN batches[k] : batches'[k][g] = batches[k][g]
  BY <1>4, <1>12 DEF With
<1> HIDE DEF f, k
<1>6. HistoryOK'
  <2>1. BatchesOK(batches)'
    BY <1>1, <1>2, <1>4, <1>5 DEF BatchesOK
  <2>2. BatchesOK(saved)'
    BY <2>1, <1>1 DEF HistoryOK, BatchesOK
  <2> QED BY <2>1, <2>2, <1>1 DEF HistoryOK
<1>7. Exclusive'
  BY <1>1, <1>2, <1>3 DEF Exclusive
<1>8. SavedInTime'
  BY <1>1, <1>2 DEF SavedInTime
<1>9. CapturedInTime'
  <2> SUFFICES ASSUME NEW j \in DOMAIN active'
               PROVE  LET g == FileOf(active[j].call)
                          n == active[j].prompt
                      IN
                      /\ active'[j].pc \in {"capture", "hook", "ready"} =>
                            /\ n \in DOMAIN batches'
                            /\ \A p \in 1..prompt : p > n => start[p] = << >>
                      /\ active'[j].pc = "capture" =>
                            \A p \in DOMAIN batches' : p >= n => g \notin DOMAIN batches'[p]
                      /\ active'[j].pc \in {"hook", "ready"} => g \in DOMAIN batches'[n]
    BY <1>1, <1>3 DEF CapturedInTime, FileOf
  <2>1. CASE j = i
    BY <2>1, <1>2, <1>3, <1>4, <1>5 DEF f, k
  <2>2. CASE j # i
    <3>1. active[j].pc = "capture" => FileOf(active[j].call) # f
      BY <2>2, <1>1, <1>3, GuardKeepsWritersApart DEF OneWriterPerFile, f
    <3>2. j \in DOMAIN active /\ active'[j].pc = active[j].pc
      BY <2>2, <1>3
    <3> QED BY <3>1, <3>2, <1>4, <1>5 DEF CapturedInTime
  <2> QED BY <2>1, <2>2
<1>10. UndoOK'
  BY <1>1, <1>2 DEF UndoOK
<1>11. Reaches(Promised)'
  <2> SUFFICES ASSUME NEW m \in 1..prompt, start[m] # << >>, NEW g \in Files
               PROVE  Before(batches, m, g)' = start[m][g]
    BY <1>1, <1>2 DEF Reaches, Promised
  <2> DEFINE T == Touched(batches, m, g)
             U == Touched(batches', m, g)
  <2>1. Before(batches, m, g) = start[m][g]
    BY <1>2 DEF Reaches, Promised
  <2>2. T \in SUBSET (1..prompt) /\ U \in SUBSET (1..prompt)
    BY <1>2, <1>4 DEF Touched, BatchesOK
  <2>3. /\ k \in Nat /\ k \in 1..prompt /\ m <= k
        /\ prompt \in Nat /\ T \in SUBSET Nat /\ U \in SUBSET Nat
    BY <2>2, <1>2 DEF BatchesOK
  <2>4. CASE g # f
    <3>1. U = T
      BY <2>4, <1>4, <1>5 DEF Touched
    <3>2. \A p \in T : batches'[p][g] = batches[p][g]
      BY <2>4, <1>4, <1>5 DEF Touched
    <3>3. T # {} => Least(T) \in T
      BY <2>3, LeastIs
    <3> QED BY <3>1, <3>2, <3>3, <2>1, <1>1 DEF Before
  <2>5. CASE g = f
    <3>1. U = T \cup {k} /\ \A p \in T : p < k
      <4>1. U = T \cup {k}
        BY <2>5, <2>3, <1>2, <1>4, <1>5 DEF Touched
      <4>2. ASSUME NEW p \in T PROVE p < k
        <5>1. p \in DOMAIN batches /\ g \in DOMAIN batches[p]
          BY <4>2 DEF Touched
        <5>2. ~(p >= k) /\ p \in Nat
          BY <5>1, <2>5, <1>2, <4>2, <2>3
        <5> QED BY <5>2, <2>3
      <4> QED BY <4>1, <4>2
    <3>2. CASE T = {}
      <4>1. Least(U) = k
        BY <3>1, <3>2, <2>3, LeastOnly
      <4> QED BY <4>1, <3>1, <3>2, <2>1, <2>5, <1>1, <1>5 DEF Before
    <3>3. CASE T # {}
      <4>1. Least(T) \in T /\ \A q \in T : Least(T) <= q
        BY <3>3, <2>3, LeastIs
      <4>2. Least(T) \in U /\ \A q \in U : Least(T) <= q
        <5>1. Least(T) < k /\ Least(T) \in Nat
          BY <4>1, <3>1, <2>3
        <5> QED BY <5>1, <4>1, <3>1, <2>3
      <4>3. Least(U) = Least(T)
        BY <4>2, <2>3, LeastOnly
      <4>4. batches'[Least(T)][g] = batches[Least(T)][g]
        <5>1. Least(T) # k /\ Least(T) \in DOMAIN batches
          BY <4>1, <3>1, <2>3 DEF Touched
        <5> QED BY <5>1, <1>4
      <4> QED BY <4>3, <4>4, <3>1, <3>3, <2>1, <1>1 DEF Before
    <3> QED BY <3>2, <3>3
  <2> QED BY <2>4, <2>5
<1> QED BY <1>6, <1>7, <1>8, <1>9, <1>10, <1>11

(* A tool changes a file that has a pre-image for the prompt.              *)
LEMMA UndoToolRuns ==
    ASSUME GuardInv, UndoWorks, NEW i, Succeeds(i) \/ Fails(i)
    PROVE  UndoWorks'
<1> USE DEF UndoWorks
<1> DEFINE f == FileOf(active[i].call)
           k == active[i].prompt
<1>1. /\ i \in DOMAIN active /\ active[i].pc = "ready"
      /\ UNCHANGED <<up, running, prompt, start, batches, saved, undo, unsaved>>
  BY DEF Succeeds, Fails, Ended, checkpoints
<1>2. /\ up /\ undo = << >> /\ prompt \in Nat /\ prompt # 0
      /\ k \in DOMAIN batches /\ f \in DOMAIN batches[k] /\ k \in Nat
      /\ \A p \in 1..prompt : p > k => start[p] = << >>
  BY <1>1 DEF Exclusive, HistoryOK, BatchesOK, CapturedInTime
<1>3. files' = files \/ files' = [files EXCEPT ![f] = active[i].call.new]
  BY DEF Succeeds, Fails
<1>4. active[i].call.new \in Contents
  BY <1>1 DEF GuardInv, ActiveOK, Calls, Call, Contents
<1>5. files' \in Disks /\ \A g \in Files : g # f => files'[g] = files[g]
  BY <1>3, <1>4 DEF HistoryOK, Disks
<1>6. /\ DOMAIN active' \subseteq DOMAIN active
      /\ \A j \in DOMAIN active' :
            \/ active'[j] = active[j]
            \/ active'[j].pc = "load"
  <2>1. CASE Drop(i)
    BY <2>1 DEF Drop, Without
  <2>2. CASE active' = [active EXCEPT ![i].pc = "load", ![i].prompt = prompt,
                                      ![i].before = batches[prompt][f]]
    BY <2>2, <1>1 DEF GuardInv, ActiveOK
  <2> QED BY <2>1, <2>2 DEF Succeeds, Fails
<1> HIDE DEF f, k
<1>7. HistoryOK'
  BY <1>1, <1>5 DEF HistoryOK, BatchesOK
<1>8. Exclusive'
  BY <1>1, <1>2 DEF Exclusive
<1>9. SavedInTime'
  BY <1>1 DEF SavedInTime
<1>10. CapturedInTime'
  BY <1>1, <1>6 DEF CapturedInTime, FileOf
<1>11. UndoOK'
  BY <1>1, <1>2 DEF UndoOK
<1>12. Reaches(Promised)'
  <2> SUFFICES ASSUME NEW m \in 1..prompt, start[m] # << >>, NEW g \in Files
               PROVE  Before(batches, m, g)' = start[m][g]
    BY <1>1, <1>2 DEF Reaches, Promised
  <2>1. Before(batches, m, g) = start[m][g]
    BY <1>2 DEF Reaches, Promised
  <2>2. CASE g = f
    <3>1. m <= k
      BY <1>2
    <3>2. k \in Touched(batches, m, g)
      BY <3>1, <2>2, <1>2 DEF Touched
    <3> QED BY <3>2, <2>1, <1>1 DEF Before
  <2>3. CASE g # f
    BY <2>3, <2>1, <1>1, <1>5 DEF Before
  <2> QED BY <2>2, <2>3
<1> QED BY <1>7, <1>8, <1>9, <1>10, <1>11, <1>12

LEMMA UndoBegins ==
    ASSUME UndoWorks, NEW m, UndoStarts(m), ~raced'
    PROVE  UndoWorks'
<1> USE DEF UndoWorks
<1>1. /\ up /\ m \in DOMAIN batches
      /\ UNCHANGED <<files, up, running, prompt, active, batches, saved, unsaved>>
      /\ undo' = [from |-> m, todo |-> EarliestPreImages(batches, m),
                  keep |-> Cardinality({p \in DOMAIN batches : p < m})]
      /\ start' = [p \in DOMAIN start |-> IF p > m THEN << >> ELSE start[p]]
  BY DEF UndoStarts, Forget
<1>2. DOMAIN active = {}
  <2>1. active = << >>
    BY DEF UndoStarts
  <2> QED BY <2>1
<1>3. prompt \in Nat /\ m \in 1..prompt /\ BatchesOK(batches)
  BY <1>1 DEF HistoryOK, BatchesOK
<1>4. HistoryOK'
  BY <1>1 DEF HistoryOK, BatchesOK
<1>5. Exclusive' /\ SavedInTime' /\ CapturedInTime'
  BY <1>1, <1>2 DEF Exclusive, SavedInTime, CapturedInTime
<1>6. UndoOK'
  <2> DEFINE todo == EarliestPreImages(batches, m)
  <2>1. /\ DOMAIN undo' = {"from", "todo", "keep"}
        /\ undo'.from = m /\ undo'.todo = todo
        /\ undo'.keep = Cardinality({p \in DOMAIN batches : p < m})
    BY <1>1
  <2>2. /\ \A f \in DOMAIN todo :
              /\ f \in Files /\ Touched(batches, m, f) # {}
              /\ todo[f] = batches[Least(Touched(batches, m, f))][f]
        /\ \A f \in Files \ DOMAIN todo : Touched(batches, m, f) = {}
    BY <1>3, RestoresBefore
  <2>3. \A n \in 1..prompt : n > m => start'[n] = << >>
    BY <1>1 DEF HistoryOK
  <2> HIDE DEF todo
  <2> QED BY <2>1, <2>2, <2>3, <1>1, <1>3 DEF UndoOK, Before
<1>7. Reaches(Promised)'
  BY <1>1 DEF Reaches, Promised, Before, HistoryOK
<1> QED BY <1>4, <1>5, <1>6, <1>7

(* A file is put back that a batch from the undone prompt on has.          *)
LEMMA UndoPutsBack ==
    ASSUME UndoWorks, NEW f, UndoRestores(f)
    PROVE  UndoWorks'
<1> USE DEF UndoWorks
<1>1. /\ undo # << >> /\ f \in DOMAIN undo.todo
      /\ files' = [files EXCEPT ![f] = undo.todo[f]]
      /\ undo' = [undo EXCEPT !.todo = Without(@, f)]
      /\ UNCHANGED <<up, running, prompt, active, start, batches, saved, unsaved>>
  BY DEF UndoRestores, history
<1> DEFINE m == undo.from
           T == Touched(batches, m, f)
<1>2. /\ up /\ DOMAIN active = {} /\ prompt \in Nat
      /\ DOMAIN undo = {"from", "todo", "keep"} /\ m \in 1..prompt
      /\ f \in Files /\ T # {} /\ undo.todo[f] = batches[Least(T)][f]
  BY <1>1 DEF Exclusive, UndoOK, HistoryOK
<1>3. T \in SUBSET Nat /\ T \subseteq DOMAIN batches
  BY <1>2 DEF Touched, HistoryOK, BatchesOK
<1>4. undo.todo[f] \in Contents
  <2>1. Least(T) \in T
    BY <1>2, <1>3, LeastIs
  <2> QED BY <2>1, <1>2 DEF Touched, HistoryOK, BatchesOK
<1>5. /\ files' \in Disks /\ files'[f] = undo.todo[f]
      /\ \A g \in Files : g # f => files'[g] = files[g]
  BY <1>1, <1>2, <1>4 DEF HistoryOK, Disks
<1>6. /\ DOMAIN undo' = {"from", "todo", "keep"}
      /\ undo'.from = m /\ undo'.keep = undo.keep
      /\ DOMAIN undo'.todo = DOMAIN undo.todo \ {f}
      /\ \A g \in DOMAIN undo'.todo : undo'.todo[g] = undo.todo[g]
  BY <1>1, <1>2 DEF Without
<1> HIDE DEF m
<1>7. HistoryOK'
  BY <1>1, <1>5 DEF HistoryOK, BatchesOK
<1>8. Exclusive' /\ SavedInTime' /\ CapturedInTime'
  BY <1>1, <1>2 DEF Exclusive, SavedInTime, CapturedInTime
<1>9. UndoOK'
  <2>1. \A g \in DOMAIN undo'.todo :
            /\ g \in Files /\ Touched(batches, m, g) # {}
            /\ undo'.todo[g] = batches[Least(Touched(batches, m, g))][g]
    BY <1>1, <1>6 DEF UndoOK, m
  <2>2. ASSUME NEW g \in Files \ DOMAIN undo'.todo
        PROVE  files'[g] = Before(batches, undo.from, g)'
    <3>1. CASE g = f
      BY <3>1, <1>1, <1>2, <1>5 DEF Before, m
    <3>2. CASE g # f
      <4>1. files[g] = Before(batches, m, g)
        BY <3>2, <1>1, <1>6 DEF UndoOK, m
      <4> QED BY <4>1, <3>2, <1>1, <1>5, <1>6 DEF Before, m
    <3> QED BY <3>1, <3>2
  <2>3. /\ undo'.keep = Cardinality({p \in DOMAIN batches' : p < undo'.from})
        /\ \A n \in 1..prompt' : n > undo'.from => start'[n] = << >>
    BY <1>1, <1>6 DEF UndoOK, m
  <2>4. undo'.from \in 1..prompt'
    BY <1>1, <1>2, <1>6 DEF m
  <2>5. \A g \in DOMAIN undo'.todo :
            /\ g \in Files /\ Touched(batches', undo'.from, g) # {}
            /\ undo'.todo[g] = batches'[Least(Touched(batches', undo'.from, g))][g]
    BY <2>1, <1>1, <1>6
  <2> QED BY <2>2, <2>3, <2>4, <2>5, <1>6 DEF UndoOK
<1>10. Reaches(Promised)'
  <2> SUFFICES ASSUME NEW n \in 1..prompt, start[n] # << >>, NEW g \in Files
               PROVE  Before(batches, n, g)' = start[n][g]
    BY <1>1, <1>2 DEF Reaches, Promised
  <2>1. Before(batches, n, g) = start[n][g]
    BY <1>2 DEF Reaches, Promised
  <2>2. CASE g = f
    <3>1. n <= m
      BY <1>1, <1>2 DEF UndoOK, m
    <3>2. T \subseteq Touched(batches, n, g)
      BY <3>1, <2>2, <1>2, <1>3 DEF Touched
    <3> QED BY <3>2, <2>1, <1>1, <1>2 DEF Before
  <2>3. CASE g # f
    BY <2>3, <2>1, <1>1, <1>5 DEF Before
  <2> QED BY <2>2, <2>3
<1> QED BY <1>7, <1>8, <1>9, <1>10

(* Keeping as many batches as were before prompt m keeps exactly those.    *)
LEMMA KeptAreEarlier ==
    ASSUME NEW n \in Nat, NEW bs, DOMAIN bs \subseteq 1..n, NEW m \in 1..n
    PROVE  FirstBatches(bs, Cardinality({p \in DOMAIN bs : p < m}))
             = [p \in {p \in DOMAIN bs : p < m} |-> bs[p]]
<1> DEFINE D == DOMAIN bs
           Upto(p) == {q \in D : q < p}
<1>1. IsFiniteSet(1..n)
  BY FS_Interval
<1>2. ASSUME NEW p PROVE IsFiniteSet(Upto(p)) /\ Cardinality(Upto(p)) \in Nat
  <2>1. Upto(p) \subseteq 1..n
    OBVIOUS
  <2>2. IsFiniteSet(Upto(p))
    BY ONLY <2>1, <1>1, FS_Subset
  <2> QED BY ONLY <2>2, FS_CardinalityType
<1>3. ASSUME NEW p \in D
      PROVE  Cardinality(Upto(p)) < Cardinality(Upto(m)) <=> p < m
  <2>1. CASE p < m
    <3>1. Upto(p) \subseteq Upto(m) /\ p \in Upto(m) /\ p \notin Upto(p)
      BY <2>1
    <3>2. Cardinality(Upto(p)) <= Cardinality(Upto(m)) /\ Upto(p) # Upto(m)
      BY <3>1, <1>2, FS_Subset
    <3>3. Cardinality(Upto(p)) # Cardinality(Upto(m))
      BY <3>1, <3>2, <1>2, FS_Subset
    <3> QED BY <3>2, <3>3, <1>2, <2>1
  <2>2. CASE ~(p < m)
    <3>1. Upto(m) \subseteq Upto(p)
      BY <2>2
    <3>2. Cardinality(Upto(m)) <= Cardinality(Upto(p))
      BY <3>1, <1>2, FS_Subset
    <3>3. Cardinality(Upto(m)) \in Nat /\ Cardinality(Upto(p)) \in Nat
      BY <1>2
    <3> QED BY <3>2, <3>3, <2>2
  <2> QED BY <2>1, <2>2
<1>4. {p \in D : Cardinality(Upto(p)) < Cardinality(Upto(m))} = Upto(m)
  BY <1>3
<1> QED BY <1>4 DEF FirstBatches

(* The undone batches go when every file is back; what an earlier prompt   *)
(* would put back is unchanged, and the later ones start from this disk.   *)
LEMMA UndoFinishes ==
    ASSUME UndoWorks, UndoEnds
    PROVE  UndoWorks'
<1> USE DEF UndoWorks
<1> DEFINE k == undo.from
<1>1. /\ undo # << >> /\ DOMAIN undo.todo = {} /\ undo' = << >>
      /\ batches' = FirstBatches(batches, undo.keep)
      /\ start' = [p \in DOMAIN start |-> IF p >= k THEN files ELSE start[p]]
      /\ UNCHANGED <<files, up, running, prompt, active>>
  BY DEF UndoEnds, Restart
<1>9. /\ saved' = batches' \/ saved' = saved
      /\ ~unsaved' => saved' = batches'
  BY Zenon DEF UndoEnds, SaveCheckpoints
<1>2. /\ up /\ DOMAIN active = {} /\ prompt \in Nat /\ k \in 1..prompt
      /\ undo.keep = Cardinality({p \in DOMAIN batches : p < k})
      /\ \A f \in Files : files[f] = Before(batches, k, f)
      /\ BatchesOK(batches)
  BY <1>1 DEF Exclusive, UndoOK, HistoryOK
<1>3. batches' = [p \in {p \in DOMAIN batches : p < k} |-> batches[p]]
  <2>1. DOMAIN batches \subseteq 1..prompt
    BY <1>2 DEF BatchesOK
  <2>2. FirstBatches(batches, Cardinality({p \in DOMAIN batches : p < k}))
          = [p \in {p \in DOMAIN batches : p < k} |-> batches[p]]
    BY <2>1, <1>2, KeptAreEarlier
  <2> QED BY <2>2, <1>1, <1>2
<1>4. /\ start' \in [1..prompt -> Disks \cup {<< >>}]
      /\ \A p \in 1..prompt : start'[p] = IF p >= k THEN files ELSE start[p]
  BY <1>1 DEF HistoryOK
<1> HIDE DEF k
<1>5. HistoryOK'
  <2>1. BatchesOK(batches)'
    BY <1>1, <1>2, <1>3 DEF BatchesOK
  <2>2. BatchesOK(saved)'
    BY <2>1, <1>1, <1>9 DEF HistoryOK, BatchesOK
  <2> QED BY <2>1, <2>2, <1>1, <1>4 DEF HistoryOK
<1>6. Exclusive' /\ SavedInTime' /\ CapturedInTime' /\ UndoOK'
  BY <1>1, <1>2, <1>9 DEF Exclusive, SavedInTime, CapturedInTime, UndoOK
<1>7. Reaches(Promised)'
  <2> SUFFICES ASSUME NEW m \in 1..prompt, start'[m] # << >>, NEW f \in Files
               PROVE  Before(batches, m, f)' = start'[m][f]
    BY <1>1, <1>2 DEF Reaches, Promised
  <2> DEFINE T == Touched(batches, m, f)
             U == Touched(batches', m, f)
             K == Touched(batches, k, f)
  <2>1. U = {p \in T : p < k} /\ \A p \in U : batches'[p][f] = batches[p][f]
    BY <1>3 DEF Touched
  <2>2. T \in SUBSET Nat /\ U \in SUBSET Nat /\ k \in Nat /\ m \in Nat
    BY <2>1, <1>2, TouchedAreNumbers DEF BatchesOK
  <2>3. Before(batches, m, f)' = IF U = {} THEN files[f] ELSE batches'[Least(U)][f]
    BY <1>1 DEF Before
  <2>4. CASE m >= k
    <3>1. U = {}
      BY <2>1, <2>2, <2>4 DEF Touched
    <3> QED BY <3>1, <2>3, <2>4, <1>4
  <2>5. CASE m < k
    <3>1. start'[m] = start[m] /\ Before(batches, m, f) = start[m][f]
      <4>1. start'[m] = start[m]
        BY <2>2, <2>5, <1>4
      <4> QED BY <4>1, <1>2 DEF Reaches, Promised
    <3>2. CASE U = {}
      <4>1. T = K
        <5>1. \A p \in T : p \in Nat /\ p >= k
          BY <3>2, <2>1, <2>2
        <5>2. \A p \in DOMAIN batches : p \in Nat
          BY <1>2 DEF BatchesOK
        <5>3. \A p \in Nat : p >= k => p >= m
          BY <2>2, <2>5
        <5> QED BY <5>1, <5>2, <5>3 DEF Touched
      <4>2. Before(batches, m, f) = IF T = {} THEN files[f] ELSE batches[Least(T)][f]
        BY DEF Before
      <4>3. Before(batches, k, f) = IF K = {} THEN files[f] ELSE batches[Least(K)][f]
        BY DEF Before
      <4> QED BY <4>1, <4>2, <4>3, <3>1, <3>2, <2>3, <1>2
    <3>3. CASE U # {}
      <4>1. Least(U) \in U /\ \A q \in U : Least(U) <= q
        BY <3>3, <2>2, LeastIs
      <4>2. Least(U) \in T /\ \A q \in T : Least(U) <= q
        <5> DEFINE x == Least(U)
        <5> HIDE DEF x, T, U
        <5>1. x \in U /\ \A q \in U : x <= q
          BY <4>1 DEF x
        <5>2. x \in T /\ x < k /\ x \in Nat
          BY <5>1, <2>1, <2>2
        <5>3. ASSUME NEW q \in T PROVE x <= q
          BY <5>1, <5>2, <2>1, <2>2
        <5> QED BY <5>2, <5>3 DEF x
      <4>3. Least(T) = Least(U)
        BY <4>2, <2>2, LeastOnly
      <4>4. batches'[Least(U)][f] = batches[Least(T)][f]
        BY <4>1, <4>3, <2>1
      <4> QED BY <4>2, <4>4, <3>1, <3>3, <2>3 DEF Before
    <3> QED BY <3>2, <3>3
  <2> QED BY <2>2, <2>4, <2>5
<1> QED BY <1>5, <1>6, <1>7

LEMMA UndoKeepAll ==
    ASSUME UndoWorks, KeepAll, ~raced'
    PROVE  UndoWorks'
<1> USE DEF UndoWorks
<1>1. active = << >> /\ undo = << >>
  BY DEF KeepAll
<1>2. /\ up /\ DOMAIN active = {} /\ DOMAIN batches' = {}
      /\ start' = [p \in DOMAIN start |-> IF p >= 1 THEN files ELSE start[p]]
      /\ UNCHANGED <<files, up, running, prompt, active, undo>>
  BY <1>1 DEF KeepAll, Restart
<1>9. /\ saved' = batches' \/ saved' = saved
      /\ ~unsaved' => saved' = batches'
  BY Zenon DEF KeepAll, SaveCheckpoints
<1>3. /\ start' \in [1..prompt -> Disks \cup {<< >>}]
      /\ \A p \in 1..prompt : start'[p] = files
  BY <1>2 DEF HistoryOK
<1>4. HistoryOK'
  BY <1>2, <1>3, <1>9 DEF HistoryOK, BatchesOK
<1>5. Exclusive' /\ SavedInTime' /\ CapturedInTime' /\ UndoOK'
  BY <1>1, <1>2, <1>9 DEF Exclusive, SavedInTime, CapturedInTime, UndoOK
<1>6. Reaches(Promised)'
  <2>1. \A m, f : Touched(batches', m, f) = {}
    BY <1>2 DEF Touched
  <2> QED BY <2>1, <1>2, <1>3 DEF Reaches, Promised, Before
<1> QED BY <1>4, <1>5, <1>6

LEMMA UndoSurvivesCrash ==
    ASSUME UndoWorks, Crash, ~raced'
    PROVE  UndoWorks'
<1> USE DEF UndoWorks
<1>1. /\ ~up' /\ ~running' /\ DOMAIN active' = {} /\ DOMAIN batches' = {}
      /\ undo' = << >> /\ UNCHANGED <<files, prompt, saved, start, unsaved>>
      /\ up
  BY DEF Crash
<1>0. ~unsaved
  BY Zenon DEF Crash
<1>2. HistoryOK'
  BY <1>1 DEF HistoryOK, BatchesOK
<1>3. Exclusive' /\ SavedInTime' /\ CapturedInTime' /\ UndoOK'
  BY <1>0, <1>1 DEF Exclusive, SavedInTime, CapturedInTime, UndoOK
<1>4. Reaches(Promised)'
  BY <1>0, <1>1, SameBefore DEF Reaches, Promised, Before
<1> QED BY <1>2, <1>3, <1>4

LEMMA UndoResumes ==
    ASSUME UndoWorks, Resume
    PROVE  UndoWorks'
<1> USE DEF UndoWorks
<1>1. /\ ~up /\ up' /\ ~unsaved
      /\ DOMAIN active = {} /\ undo = << >>
      /\ batches' = [p \in {p \in DOMAIN saved : saved[p] # << >>} |-> saved[p]]
      /\ UNCHANGED <<files, running, prompt, active, saved, start, undo, unsaved>>
  BY DEF Resume, history, Exclusive, SavedInTime
<1>2. HistoryOK'
  BY <1>1 DEF HistoryOK, BatchesOK
<1>3. SavedInTime'
  BY <1>1 DEF SavedInTime, Images
<1>4. Exclusive' /\ CapturedInTime' /\ UndoOK'
  BY <1>1 DEF Exclusive, CapturedInTime, UndoOK
<1>5. Reaches(Promised)'
  <2>1. /\ \A m, f : Touched(batches', m, f) = Touched(saved, m, f)
        /\ \A m, f : \A p \in Touched(saved, m, f) : batches'[p] = saved[p]
    BY <1>1 DEF Touched
  <2>2. \A m, f : Touched(saved, m, f) # {} =>
            Least(Touched(saved, m, f)) \in Touched(saved, m, f)
    BY TouchedAreNumbers, LeastIs DEF HistoryOK, BatchesOK
  <2> QED BY <2>1, <2>2, <1>1 DEF Reaches, Promised, Before
<1> QED BY <1>2, <1>3, <1>4, <1>5

LEMMA UndoInit == Init => UndoInv
<1> SUFFICES ASSUME Init PROVE UndoWorks
  BY DEF UndoInv
<1>1. /\ files \in Disks /\ prompt = 0 /\ start = << >>
      /\ DOMAIN batches = {} /\ DOMAIN saved = {} /\ DOMAIN active = {}
      /\ undo = << >> /\ batches = saved /\ up /\ ~running /\ ~unsaved
  BY DEF Init, Disks, Contents
<1>2. HistoryOK
  <2>1. start \in [1..prompt -> Disks \cup {<< >>}]
    BY <1>1
  <2> QED BY <2>1, <1>1 DEF HistoryOK, BatchesOK
<1>3. Exclusive /\ SavedInTime /\ CapturedInTime /\ UndoOK /\ Reaches(Promised)
  BY <1>1 DEF Exclusive, SavedInTime, CapturedInTime, UndoOK, Reaches, Promised
<1> QED BY <1>2, <1>3 DEF UndoWorks

(* A revert gives a disk that is the same, for a file no batch has since    *)
(* an earlier prompt, as the one before that prompt.                       *)
LEMMA UndoReverts ==
    ASSUME UndoWorks, RevertReachesStart, NEW m, Revert(m), ~raced, ~raced'
    PROVE  UndoWorks'
<1> USE DEF UndoWorks
<1>1. /\ ~up /\ m \in DOMAIN start
      /\ UNCHANGED <<up, running, prompt, active, batches, saved, undo, unsaved>>
      /\ start' = [p \in DOMAIN start |-> IF p > m THEN << >> ELSE start[p]]
      /\ files' = Restored(EarliestVersions(LoadManifest, m))
  BY DEF Revert, Forget, checkpoints
<1>2. ~gap /\ ~undone /\ start[m] # << >>
  BY Zenon DEF Revert
<1>3. /\ prompt \in Nat /\ m \in 1..prompt /\ start[m] \in Disks
      /\ DOMAIN active = {} /\ undo = << >> /\ ~unsaved /\ ~running
  BY <1>1, <1>2 DEF HistoryOK, Exclusive, SavedInTime
<1>4. files' = start[m]
  BY <1>1, <1>2, <1>3 DEF RevertReachesStart
<1>5. /\ start' \in [1..prompt -> Disks \cup {<< >>}]
      /\ \A n \in 1..prompt : start'[n] # << >> => n <= m /\ start'[n] = start[n]
  BY <1>1, <1>3 DEF HistoryOK
<1>6. HistoryOK'
  BY <1>1, <1>3, <1>4, <1>5 DEF HistoryOK, BatchesOK
<1>7. Exclusive' /\ SavedInTime' /\ CapturedInTime' /\ UndoOK'
  BY <1>1, <1>3 DEF Exclusive, SavedInTime, CapturedInTime, UndoOK
<1>8. Reaches(Promised)'
  <2> SUFFICES ASSUME NEW n \in 1..prompt, start'[n] # << >>, NEW f \in Files
               PROVE  Before(saved, n, f)' = start'[n][f]
    BY <1>1 DEF Reaches, Promised
  <2>1. n <= m /\ start'[n] = start[n] /\ start[n] # << >>
    BY <1>5
  <2>2. /\ Before(saved, n, f) = start[n][f]
        /\ Before(saved, m, f) = start[m][f]
    BY <2>1, <1>1, <1>2, <1>3 DEF Reaches, Promised
  <2>3. CASE Touched(saved, n, f) = {}
    <3>1. Touched(saved, m, f) = {}
      <4>1. \A p \in DOMAIN saved : p \in Nat
        BY DEF HistoryOK, BatchesOK
      <4> QED BY <4>1, <2>1, <2>3, <1>3 DEF Touched
    <3> QED BY <3>1, <2>1, <2>2, <2>3, <1>1, <1>4 DEF Before
  <2>4. CASE Touched(saved, n, f) # {}
    BY <2>1, <2>2, <2>4, <1>1 DEF Before
  <2> QED BY <2>3, <2>4
<1> QED BY <1>6, <1>7, <1>8

LEMMA UndoStep ==
    ASSUME EditInv, RevertReachesStart, [Next]_vars
    PROVE  UndoInv'
<1> SUFFICES ASSUME ~raced' PROVE UndoWorks'
  BY DEF UndoInv
<1>1. CASE UNCHANGED vars
  <2>1. ~raced /\ UndoWorks
    BY <1>1 DEF vars, history, EditInv, UndoInv
  <2>2. UNCHANGED <<files, prompt, start, batches, saved, undo, up, running, active,
                    unsaved>>
    BY <1>1 DEF vars, history, checkpoints
  <2> QED BY <2>1, <2>2, CallsMoveOn DEF UndoWorks, Exclusive
<1> SUFFICES ASSUME Next PROVE UndoWorks'
  BY <1>1
<1>2. ~raced
  <2>1. \A c \in Calls : Start(c) \/ RefusedBusy(c) => ~raced
    BY DEF Start, RefusedBusy, Arrives, history
  <2>2. \A i \in Numbers :
           \/ Unsafe(i) \/ RefusedRepeat(i) \/ RefusedRunning(i)
           \/ RefusedPutBack(i) \/ Looks(i) \/ Capture(i) \/ CaptureFails(i)
           => ~raced
    BY DEF Unsafe, RefusedRepeat, RefusedRunning, RefusedPutBack, Looks, Looked,
           Capture, CaptureFails, history
  <2>3. \A i \in Numbers :
           \/ Hook(i) \/ Succeeds(i) \/ Fails(i)
           \/ RecordLoads(i) \/ RecordOpens(i) \/ RecordSaves(i)
           => ~raced
    BY DEF Hook, Succeeds, Fails, Ended, RecordLoads, RecordOpens, RecordSaves, history
  <2>4. /\ \A m \in Prompts : UndoStarts(m) \/ Revert(m) => ~raced
        /\ \A f \in Files : UndoRestores(f) => ~raced
    BY DEF UndoStarts, Revert, UndoRestores, Operates, history
  <2>5. NewPrompt \/ PromptOverlaps \/ KeepAll \/ Crash => ~raced
    BY DEF NewPrompt, PromptOverlaps, Numbered, KeepAll, Crash, Operates
  <2>6. RunGroup \/ UndoEnds \/ Abort \/ Resume => ~raced
    BY DEF RunGroup, UndoEnds, Abort, Resume, Operates, history
  <2> QED BY <2>1, <2>2, <2>3, <2>4, <2>5, <2>6 DEF Next
<1>3. GuardInv /\ ActiveOK /\ UndoWorks
  BY <1>2 DEF EditInv, UndoInv, GuardInv
<1>4. CASE NewPrompt
  BY <1>3, <1>4, UndoNewPrompt
<1>5. ASSUME NEW c \in Calls, Start(c)
      PROVE  UndoWorks'
  <2>1. undo = << >>
    BY <1>5 DEF Start, Arrives
  <2>2. /\ UNCHANGED <<files, prompt, start, batches, saved, undo, up, running, unsaved>>
        /\ up /\ running /\ active' = With(active, made', InHand(c))
    BY <1>5 DEF Start, Arrives, checkpoints
  <2>3. \A j \in DOMAIN active' :
            \/ active'[j].pc = "safety"
            \/ j \in DOMAIN active /\ active'[j] = active[j]
    BY <2>2 DEF With, InHand
  <2>4. prompt # 0
    BY <2>2, <1>3 DEF UndoWorks, Exclusive
  <2> QED BY <2>1, <2>2, <2>3, <2>4, <1>3, CallsMoveOn
<1>6. ASSUME NEW c \in Calls, RefusedBusy(c)
      PROVE  UndoWorks'
  <2>1. /\ UNCHANGED <<files, prompt, start, batches, saved, undo, up, running, active,
                    unsaved>>
    BY <1>6 DEF RefusedBusy, Arrives, checkpoints
  <2> QED BY <2>1, <1>3, CallsMoveOn DEF UndoWorks, Exclusive
<1>7. ASSUME NEW i, Drop(i),
             UNCHANGED <<files, prompt, start, batches, saved, undo, up, running, unsaved>>
      PROVE  UndoWorks'
  <2>1. /\ DOMAIN active' \subseteq DOMAIN active
        /\ \A j \in DOMAIN active' : active'[j] = active[j]
    BY <1>7 DEF Drop, Without
  <2>2. DOMAIN active' # {} => up /\ undo = << >> /\ prompt # 0
    BY <2>1, <1>3 DEF UndoWorks, Exclusive
  <2> QED BY <2>1, <2>2, <1>3, <1>7, CallsMoveOn
<1>8. ASSUME NEW i \in Numbers,
             \/ Unsafe(i) \/ RefusedRepeat(i) \/ RefusedRunning(i)
             \/ RefusedPutBack(i) \/ RecordSaves(i)
      PROVE  UndoWorks'
  BY <1>7, <1>8 DEF Unsafe, RefusedRepeat, RefusedRunning, RefusedPutBack, Looked,
                    Refused, RecordSaves, history, checkpoints
<1>9. ASSUME NEW i \in Numbers, Hook(i) \/ RecordLoads(i) \/ RecordOpens(i)
      PROVE  UndoWorks'
  <2>1. /\ UNCHANGED <<files, prompt, start, batches, saved, undo, up, running, unsaved>>
        /\ i \in DOMAIN active
    BY <1>9 DEF Hook, RecordLoads, RecordOpens, history, checkpoints
  <2>2. CASE Drop(i)
    BY <2>1, <2>2, <1>7
  <2>3. CASE Hook(i) /\ To(i, "ready")
    <3>1. /\ DOMAIN active' = DOMAIN active
          /\ \A j \in DOMAIN active : /\ active'[j].call = active[j].call
                                      /\ active'[j].prompt = active[j].prompt
          /\ \A j \in DOMAIN active : j # i => active'[j].pc = active[j].pc
          /\ active'[i].pc = "ready" /\ active[i].pc = "hook"
      BY <2>1, <2>3, <1>3 DEF Hook, To, ActiveOK
    <3> QED BY <3>1, <2>1, <1>3, CallsMoveOn DEF UndoWorks, Exclusive
  <2>4. CASE RecordLoads(i) \/ RecordOpens(i)
    <3>1. /\ DOMAIN active' = DOMAIN active
          /\ \A j \in DOMAIN active : j # i => active'[j] = active[j]
          /\ active'[i].pc \in {"open", "save"}
      BY <2>1, <2>4, <1>3 DEF RecordLoads, RecordOpens, To, ActiveOK
    <3> QED BY <3>1, <2>1, <1>3, CallsMoveOn DEF UndoWorks, Exclusive
  <2> QED BY <1>9, <2>2, <2>3, <2>4 DEF Hook
<1>10. CASE RunGroup \/ Abort
  <2>1. /\ UNCHANGED <<files, prompt, start, batches, saved, undo, up, active, unsaved>>
        /\ running' => running
    BY <1>10 DEF RunGroup, Abort, checkpoints, history
  <2> QED BY <2>1, <1>3, CallsMoveOn DEF UndoWorks, Exclusive
<1>11. ASSUME NEW i \in Numbers, CaptureFails(i) PROVE FALSE
  BY <1>11 DEF CaptureFails
<1>12. ASSUME NEW m \in Prompts, Revert(m) PROVE UndoWorks'
  BY <1>2, <1>3, <1>12, UndoReverts
<1> QED
  BY <1>3, <1>4, <1>5, <1>6, <1>8, <1>9, <1>10, <1>11, <1>12, UndoLooks,
     UndoPromptOverlaps, UndoCaptures, UndoToolRuns, UndoBegins, UndoPutsBack, UndoFinishes,
     UndoKeepAll, UndoSurvivesCrash, UndoResumes
     DEF Next

-----------------------------------------------------------------------------
(***************************************************************************)
(* Revert, as long as nothing raced, no record is missing and nothing was  *)
(* undone.  A call whose file has changed waits for its record.            *)
(***************************************************************************)
Waits == {"load", "open", "save"}
Waiting(f) == \E i \in DOMAIN active : active[i].pc \in Waits /\ FileOf(active[i].call) = f

Versions == [file : Files, to : Nat]

ManifestOK ==
    /\ DOMAIN manifest \subseteq 1..prompt
    /\ \A p \in DOMAIN manifest : manifest[p] \in Seq(Versions)
    /\ \E b \in Nat : \A p \in DOMAIN manifest :
          \A k \in DOMAIN manifest[p] : manifest[p][k].to <= b

(* One call at a time has read the manifest to add to it, and what it has  *)
(* read is still what is there; the manifest is truncated only between     *)
(* open and write.  A waiting call has the text from before the prompt.    *)
RecordsInTurn ==
    /\ \A i \in DOMAIN active : active[i].pc \in Waits =>
          /\ active[i].prompt = prompt
          /\ active[i].before = start[prompt][FileOf(active[i].call)]
    /\ \A i \in Recording :
          /\ active[i].snap = manifest
          /\ \A j \in Recording : j = i
          /\ active[i].pc = "save" =>
                LET f == FileOf(active[i].call)
                    v == <<f, NextVersion(manifest, f)>>
                IN  v \in DOMAIN artifacts /\ artifacts[v] = active[i].before
    /\ torn => \E i \in DOMAIN active : active[i].pc = "save"

(* The records of f from prompt m on, the first of them, and what a revert *)
(* to m would make of f, once the waiting calls have their record.         *)
Records(m, f) ==
    {x \in UNION {{p} \X DOMAIN manifest[p] : p \in {p \in DOMAIN manifest : p >= m}} :
        manifest[x[1]][x[2]].file = f}
NotAfter(x, y) == x[1] < y[1] \/ (x[1] = y[1] /\ x[2] <= y[2])
Earliest(S) == CHOOSE x \in S : \A y \in S : NotAfter(x, y)
VersionAt(x) == <<manifest[x[1]][x[2]].file, manifest[x[1]][x[2]].to>>

VersionsKept ==
    \A p \in DOMAIN manifest : \A k \in DOMAIN manifest[p] :
        VersionAt(<<p, k>>) \in DOMAIN artifacts

Reverted(m, f) ==
    IF Records(m, f) # {} THEN artifacts[VersionAt(Earliest(Records(m, f)))]
    ELSE IF Waiting(f) THEN start[prompt][f] ELSE files[f]

(* Calls are of a prompt with a disk of its own.                           *)
Dated ==
    DOMAIN active # {} \/ running => (Files # {} => start[prompt] # << >>)

RevertWorks ==
    /\ undo = << >>
    /\ ManifestOK
    /\ RecordsInTurn
    /\ VersionsKept
    /\ Dated
    /\ \A m \in 1..prompt, f \in Files :
          start[m] # << >> => Reverted(m, f) = start[m][f]

RevertInv == ~raced /\ ~gap /\ ~undone => RevertWorks

-----------------------------------------------------------------------------
(***************************************************************************)
(* The operators behind a revert.                                          *)
(***************************************************************************)

(* A set of positions has a first one, by prompt and then by place.        *)
LEMMA HasEarliest ==
    ASSUME NEW S \in SUBSET (Nat \X Nat), S # {}
    PROVE  Earliest(S) \in S /\ \A y \in S : NotAfter(Earliest(S), y)
<1> DEFINE P == {x[1] : x \in S}
<1>1. P \in SUBSET Nat /\ P # {}
  OBVIOUS
<1>2. PICK p \in P : \A q \in P : p <= q
  BY <1>1, NatHasLeast
<1> DEFINE K == {k \in Nat : <<p, k>> \in S}
<1>3. K \in SUBSET Nat /\ K # {}
  OBVIOUS
<1>4. PICK k \in K : \A j \in K : k <= j
  <2> HIDE DEF K
  <2> QED BY <1>3, NatHasLeast
<1>5. <<p, k>> \in S
  OBVIOUS
<1>6. ASSUME NEW y \in S PROVE NotAfter(<<p, k>>, y)
  <2>1. y[1] \in P /\ y[1] \in Nat /\ y[2] \in Nat /\ y = <<y[1], y[2]>> /\ p \in Nat
    BY <1>1
  <2>2. p <= y[1]
    BY <2>1, <1>2
  <2>3. CASE y[1] = p
    <3>1. y[2] \in K
      BY <2>1, <2>3
    <3> HIDE DEF K, P
    <3> QED BY <3>1, <2>3, <1>4 DEF NotAfter
  <2>4. CASE y[1] # p
    BY <2>1, <2>2, <2>4 DEF NotAfter
  <2> QED BY <2>3, <2>4
<1>7. \E x \in S : \A y \in S : NotAfter(x, y)
  BY <1>5, <1>6
<1> QED BY <1>7 DEF Earliest

LEMMA EarliestOnly ==
    ASSUME NEW S \in SUBSET (Nat \X Nat), NEW x \in S, \A y \in S : NotAfter(x, y)
    PROVE  Earliest(S) = x
<1> DEFINE e == Earliest(S)
<1>1. e \in S /\ NotAfter(e, x)
  BY HasEarliest
<1>2. NotAfter(x, e)
  BY <1>1
<1> HIDE DEF e
<1>3. /\ x = <<x[1], x[2]>> /\ e = <<e[1], e[2]>>
      /\ x[1] \in Nat /\ x[2] \in Nat /\ e[1] \in Nat /\ e[2] \in Nat
  BY <1>1
<1>4. x[1] = e[1] /\ x[2] = e[2]
  BY <1>1, <1>2, <1>3 DEF NotAfter
<1> QED BY <1>3, <1>4 DEF e

LEMMA RecordsAre ==
    ASSUME prompt \in Nat, ManifestOK, NEW m, NEW f
    PROVE  /\ Records(m, f) \in SUBSET (Nat \X Nat)
           /\ \A p, k : <<p, k>> \in Records(m, f) <=>
                  /\ p \in DOMAIN manifest /\ p >= m
                  /\ k \in DOMAIN manifest[p] /\ manifest[p][k].file = f
<1>1. ASSUME NEW p, NEW k
      PROVE  <<p, k>> \in Records(m, f) <=>
                  /\ p \in DOMAIN manifest /\ p >= m
                  /\ k \in DOMAIN manifest[p] /\ manifest[p][k].file = f
  BY DEF Records
<1>2. ASSUME NEW x \in Records(m, f) PROVE x \in Nat \X Nat
  <2>1. PICK p \in DOMAIN manifest : x \in {p} \X DOMAIN manifest[p]
    BY DEF Records
  <2>2. p \in Nat /\ DOMAIN manifest[p] \subseteq Nat
    BY DEF ManifestOK
  <2> QED BY <2>1, <2>2
<1> QED BY <1>1, <1>2

(* A new version of a file has a number that no recorded one has.          *)
LEMMA NextVersionIsNew ==
    ASSUME ManifestOK, NEW f
    PROVE  /\ NextVersion(manifest, f) \in Nat
           /\ \A p \in DOMAIN manifest : \A k \in DOMAIN manifest[p] :
                 manifest[p][k].file = f => manifest[p][k].to < NextVersion(manifest, f)
<1> DEFINE V == VersionsOf(manifest, f)
<1>1. \A v : v \in V <=> \E p \in DOMAIN manifest : \E k \in DOMAIN manifest[p] :
                            manifest[p][k].file = f /\ manifest[p][k].to = v
  BY DEF VersionsOf
<1>2. \A p \in DOMAIN manifest : \A k \in DOMAIN manifest[p] : manifest[p][k].to \in Nat
  <2> SUFFICES ASSUME NEW p \in DOMAIN manifest, NEW k \in DOMAIN manifest[p]
               PROVE  manifest[p][k].to \in Nat
    OBVIOUS
  <2>1. manifest[p] \in Seq(Versions)
    BY DEF ManifestOK
  <2>2. manifest[p][k] \in Versions
    BY <2>1
  <2> QED BY <2>2 DEF Versions
<1>3. PICK b \in Nat : \A p \in DOMAIN manifest :
          \A k \in DOMAIN manifest[p] : manifest[p][k].to <= b
  BY DEF ManifestOK
<1>4. V \subseteq Nat /\ \A v \in V : v <= b
  BY <1>1, <1>2, <1>3
<1>5. NextVersion(manifest, f) =
          IF V = {} THEN 1 ELSE 1 + CHOOSE v \in V : \A w \in V : w <= v
  BY DEF NextVersion
<1> HIDE DEF V
<1>6. V # {} => \E v \in V : \A w \in V : w <= v
  <2> SUFFICES ASSUME V # {} PROVE \E v \in V : \A w \in V : w <= v
    OBVIOUS
  <2> DEFINE U == {n \in Nat : \A w \in V : w <= n}
  <2>1. U \in SUBSET Nat /\ b \in U
    BY <1>4
  <2>2. PICK u \in U : \A n \in U : u <= n
    <3> HIDE DEF U
    <3> QED BY <2>1, NatHasLeast
  <2>3. u \in V
    <3> SUFFICES ASSUME u \notin V PROVE FALSE
      OBVIOUS
    <3>1. \A w \in V : w <= u - 1 /\ w \in Nat
      BY <1>4
    <3>2. u - 1 \in Nat
      BY <3>1
    <3>3. u - 1 \in U
      BY <3>1, <3>2
    <3>4. u <= u - 1
      BY <3>3, <2>2
    <3> QED BY <3>4
  <2> QED BY <2>3
<1>7. /\ NextVersion(manifest, f) \in Nat
      /\ \A v \in V : v < NextVersion(manifest, f)
  <2>1. CASE V = {}
    BY <2>1, <1>5
  <2>2. CASE V # {}
    <3> DEFINE c == CHOOSE v \in V : \A w \in V : w <= v
    <3>1. c \in V /\ \A w \in V : w <= c
      BY <2>2, <1>6
    <3> HIDE DEF c
    <3>2. NextVersion(manifest, f) = 1 + c
      BY <2>2, <1>5 DEF c
    <3> QED BY <3>1, <3>2, <1>4
  <2> QED BY <2>1, <2>2
<1> QED BY <1>1, <1>7

(* What a revert puts back, file by file.                                  *)
LEMMA RevertPutsBack ==
    ASSUME prompt \in Nat, ManifestOK, NEW m
    PROVE  \A f \in Files :
              /\ f \in DOMAIN EarliestVersions(manifest, m) <=> Records(m, f) # {}
              /\ Records(m, f) # {} => EarliestVersions(manifest, m)[f]
                                         = artifacts[VersionAt(Earliest(Records(m, f)))]
<1> DEFINE later == {p \in DOMAIN manifest : p >= m}
           all == UNION {{p} \X DOMAIN manifest[p] : p \in later}
           Of(f) == {x \in all : manifest[x[1]][x[2]].file = f}
           First(f) == CHOOSE x \in Of(f) : \A y \in Of(f) :
                          x[1] < y[1] \/ (x[1] = y[1] /\ x[2] <= y[2])
<1>1. \A f : Of(f) = Records(m, f)
  BY DEF Records
<1>2. EarliestVersions(manifest, m) =
          [f \in {g \in Files : Of(g) # {}} |->
              artifacts[<<f, manifest[First(f)[1]][First(f)[2]].to>>]]
  BY DEF EarliestVersions
<1>3. \A f : First(f) = Earliest(Of(f))
  BY DEF Earliest, NotAfter
<1>4. ASSUME NEW f \in Files, Records(m, f) # {}
      PROVE  manifest[Earliest(Records(m, f))[1]][Earliest(Records(m, f))[2]].file = f
  <2>1. Earliest(Records(m, f)) \in Records(m, f)
    BY <1>4, RecordsAre, HasEarliest
  <2> QED BY <2>1 DEF Records
<1> HIDE DEF Of, First
<1> QED BY <1>1, <1>2, <1>3, <1>4 DEF VersionAt

LEMMA RevertInvReaches ==
    ASSUME EditInv, RevertInv
    PROVE  RevertReachesStart
<1> SUFFICES ASSUME ~raced, ~gap, ~undone,
                    \A i \in DOMAIN active : active[i].pc \notin {"load", "open", "save"},
                    NEW m \in 1..prompt, start[m] # << >>
             PROVE  Restored(EarliestVersions(LoadManifest, m)) = start[m]
  BY DEF RevertReachesStart
<1>1. RevertWorks /\ UndoWorks
  BY DEF EditInv, UndoInv, RevertInv
<1>2. /\ prompt \in Nat /\ ManifestOK /\ start[m] \in Disks
      /\ \A f \in Files : Reverted(m, f) = start[m][f]
  BY <1>1 DEF RevertWorks, UndoWorks, HistoryOK
<1>3. LoadManifest = manifest
  BY <1>1 DEF RevertWorks, RecordsInTurn, LoadManifest
<1>4. \A f \in Files : ~Waiting(f)
  BY DEF Waiting, Waits
<1>5. ASSUME NEW f \in Files
      PROVE  Restored(EarliestVersions(manifest, m))[f] = start[m][f]
  <2>1. Reverted(m, f) = IF Records(m, f) # {}
                         THEN artifacts[VersionAt(Earliest(Records(m, f)))] ELSE files[f]
    BY <1>4 DEF Reverted
  <2>2. /\ f \in DOMAIN EarliestVersions(manifest, m) <=> Records(m, f) # {}
        /\ Records(m, f) # {} => EarliestVersions(manifest, m)[f]
                                   = artifacts[VersionAt(Earliest(Records(m, f)))]
    BY <1>2, RevertPutsBack
  <2>3. Restored(EarliestVersions(manifest, m))[f]
          = IF f \in DOMAIN EarliestVersions(manifest, m)
            THEN EarliestVersions(manifest, m)[f] ELSE files[f]
    BY DEF Restored
  <2> QED BY <2>1, <2>2, <2>3, <1>2
<1>6. start[m] = [f \in Files |-> start[m][f]]
  BY <1>2 DEF Disks
<1>7. Restored(EarliestVersions(manifest, m))
        = [f \in Files |-> Restored(EarliestVersions(manifest, m))[f]]
  BY DEF Restored
<1> QED BY <1>3, <1>5, <1>6, <1>7

-----------------------------------------------------------------------------
(***************************************************************************)
(* Each step keeps the promise of a revert.                                *)
(***************************************************************************)

(* Calls that do not wait for their record come, go and move on.           *)
LEMMA OthersMoveOn ==
    ASSUME RevertWorks,
           UNCHANGED <<files, prompt, start, undo, manifest, artifacts, torn>>,
           \A j \in DOMAIN active' : active'[j].pc \in Waits =>
               j \in DOMAIN active /\ active'[j] = active[j],
           \A j \in DOMAIN active : active[j].pc \in Waits =>
               j \in DOMAIN active' /\ active'[j] = active[j],
           DOMAIN active' # {} \/ running' => DOMAIN active # {} \/ running
    PROVE  RevertWorks'
<1> USE DEF RevertWorks
<1>1. ManifestOK'
  BY DEF ManifestOK
<1>2. RecordsInTurn'
  <2>1. /\ Recording' = Recording
        /\ \A i \in Recording : active'[i] = active[i]
    BY DEF Recording, Waits
  <2>2. \A f : NextVersion(manifest', f) = NextVersion(manifest, f)
    OBVIOUS
  <2>3. torn => \E i \in DOMAIN active' : active'[i].pc = "save"
    BY DEF RecordsInTurn, Waits
  <2>4. \A i \in DOMAIN active' : active'[i].pc \in Waits =>
          /\ active'[i].prompt = prompt
          /\ active'[i].before = start[prompt][FileOf(active'[i].call)]
    BY DEF RecordsInTurn
  <2> QED BY <2>1, <2>2, <2>3, <2>4 DEF RecordsInTurn
<1>3. VersionsKept'
  BY DEF VersionsKept, VersionAt
<1>4. \A f : Waiting(f)' <=> Waiting(f)
  BY DEF Waiting
<1>5. ASSUME NEW m \in 1..prompt, start[m] # << >>, NEW f \in Files
      PROVE  Reverted(m, f)' = start[m][f]
  <2>1. Records(m, f)' = Records(m, f)
    BY DEF Records
  <2>2. \A x : VersionAt(x)' = VersionAt(x)
    BY DEF VersionAt
  <2>3. Reverted(m, f)' = Reverted(m, f)
    BY <2>1, <2>2, <1>4 DEF Reverted
  <2> QED BY <2>3, <1>5
<1>6. Dated'
  BY DEF Dated
<1> QED BY <1>1, <1>2, <1>3, <1>5, <1>6

(* As long as no record is added, a file with a record is as before, and   *)
(* one without depends on its waiting calls and on the disk.               *)
LEMMA RevertedSame ==
    ASSUME UNCHANGED <<manifest, artifacts>>, NEW m, NEW f
    PROVE  /\ Records(m, f)' = Records(m, f)
           /\ Records(m, f) # {} => Reverted(m, f)' = Reverted(m, f)
           /\ Records(m, f) = {} =>
                 Reverted(m, f)' = IF Waiting(f)' THEN start'[prompt'][f] ELSE files'[f]
<1>1. Records(m, f)' = Records(m, f)
  BY DEF Records
<1>2. \A x : VersionAt(x)' = VersionAt(x)
  BY DEF VersionAt
<1> QED BY <1>1, <1>2 DEF Reverted

(* A file without record since prompt m is as it was at every prompt since.*)
LEMMA UnrecordedUnchanged ==
    ASSUME prompt \in Nat, RevertWorks, NEW m \in 1..prompt, NEW f \in Files,
           Records(m, f) = {}, start[m] # << >>, start[prompt] # << >>
    PROVE  start[prompt][f] = start[m][f]
<1>1. prompt \in 1..prompt /\ m <= prompt
  OBVIOUS
<1>2. Records(prompt, f) = {}
  <2> SUFFICES ASSUME NEW x \in Records(prompt, f) PROVE FALSE
    OBVIOUS
  <2>1. x \in Nat \X Nat
    BY RecordsAre DEF RevertWorks
  <2>2. PICK p, k : x = <<p, k>>
    BY <2>1
  <2>3. p \in DOMAIN manifest /\ p >= prompt /\ k \in DOMAIN manifest[p]
        /\ manifest[p][k].file = f /\ p \in Nat
    BY <2>1, <2>2, RecordsAre DEF RevertWorks
  <2>4. <<p, k>> \in Records(m, f)
    <3>1. p >= m
      BY <1>1, <2>3
    <3> QED BY <3>1, <2>3, RecordsAre DEF RevertWorks
  <2> QED BY <2>4
<1>3. Reverted(m, f) = Reverted(prompt, f)
  BY <1>2 DEF Reverted
<1> QED BY <1>1, <1>3 DEF RevertWorks

LEMMA RevertNewPrompt ==
    ASSUME UndoWorks, RevertWorks, NewPrompt
    PROVE  RevertWorks'
<1> USE DEF RevertWorks
<1>1. /\ DOMAIN active = {} /\ DOMAIN active' = {}
      /\ prompt' = prompt + 1 /\ start' = Append(start, files)
      /\ UNCHANGED <<files, undo, manifest, artifacts, torn>>
  BY DEF NewPrompt, Numbered, checkpoints, store
<1>2. /\ prompt \in Nat /\ files \in Disks
      /\ start \in [1..prompt -> Disks \cup {<< >>}]
  BY DEF UndoWorks, HistoryOK
<1>3. /\ start'[prompt + 1] = files
      /\ \A p \in 1..prompt : start'[p] = start[p]
  <2> DEFINE S == Disks \cup {<< >>}
  <2>1. prompt \in Nat /\ files \in S /\ start \in [1..prompt -> S]
    BY <1>2
  <2> HIDE DEF S
  <2>2. /\ Append(start, files)[prompt + 1] = files
        /\ \A p \in 1..prompt : Append(start, files)[p] = start[p]
    BY ONLY <2>1, AppendToFunction
  <2> QED BY <1>1, <2>2
<1>4. ManifestOK'
  <2>1. 1..prompt \subseteq 1..prompt'
    BY <1>1, <1>2
  <2>2. manifest' = manifest
    BY <1>1
  <2> QED BY <2>1, <2>2 DEF ManifestOK
<1>5. RecordsInTurn'
  BY <1>1 DEF RecordsInTurn, Recording
<1>6. VersionsKept'
  BY <1>1 DEF VersionsKept, VersionAt
<1>7. ASSUME NEW m \in 1..(prompt + 1), start'[m] # << >>, NEW f \in Files
      PROVE  Reverted(m, f)' = start'[m][f]
  <2>1. ~Waiting(f) /\ ~Waiting(f)'
    BY <1>1 DEF Waiting
  <2>2. CASE m \in 1..prompt
    <3>1. Reverted(m, f)' = Reverted(m, f)
      BY <2>1, <1>1, RevertedSame DEF Reverted
    <3> QED BY <3>1, <2>2, <1>3, <1>7
  <2>3. CASE m = prompt + 1
    <3>1. Records(m, f) = {}
      <4> SUFFICES ASSUME NEW x \in Records(m, f) PROVE FALSE
        OBVIOUS
      <4>1. x \in Nat \X Nat
        BY <1>2, RecordsAre
      <4>2. PICK p, k : x = <<p, k>>
        BY <4>1
      <4>3. p \in DOMAIN manifest /\ p >= m
        BY <4>2, <1>2, RecordsAre
      <4> QED BY <4>3, <2>3, <1>2 DEF ManifestOK
    <3>2. Reverted(m, f)' = files'[f]
      BY <3>1, <2>1, <1>1, RevertedSame
    <3> QED BY <3>2, <2>3, <1>1, <1>3
  <2> QED BY <2>2, <2>3, <1>2
<1>8. Dated'
  <2>1. Files # {} => files # << >>
    BY <1>2 DEF Disks
  <2> QED BY <2>1, <1>1, <1>3 DEF Dated
<1> QED BY <1>1, <1>4, <1>5, <1>6, <1>7, <1>8

(* The tool changes a file; its call waits with the text from before the   *)
(* prompt, which the checkpoint has.                                       *)
LEMMA RevertToolSucceeds ==
    ASSUME GuardInv, UndoWorks, RevertWorks, NEW i, Succeeds(i)
    PROVE  RevertWorks'
<1> USE DEF RevertWorks
<1> DEFINE f == FileOf(active[i].call)
<1>1. /\ i \in DOMAIN active /\ active[i].pc = "ready"
      /\ UNCHANGED <<prompt, start, undo, manifest, artifacts, torn>>
      /\ files' = [files EXCEPT ![f] = active[i].call.new]
  BY DEF Succeeds, Ended, checkpoints, store
<1>2. /\ up /\ prompt \in Nat /\ prompt \in 1..prompt
      /\ start[prompt] # << >>
      /\ prompt \in DOMAIN batches /\ f \in DOMAIN batches[prompt]
      /\ f \in Files /\ files \in Disks
  <2>1. f \in Files
    BY <1>1 DEF GuardInv, ActiveOK, Calls, Call, Names, FileOf
  <2>2. up /\ prompt \in Nat /\ prompt \in 1..prompt /\ files \in Disks
    BY <1>1 DEF UndoWorks, Exclusive, HistoryOK
  <2>3. start[prompt] # << >>
    BY <2>1, <1>1 DEF Dated
  <2>4. active[i].prompt \in 1..prompt /\ ~(prompt > active[i].prompt)
    BY <2>2, <2>3, <1>1 DEF UndoWorks, CapturedInTime, HistoryOK, BatchesOK
  <2>5. active[i].prompt = prompt
    BY <2>2, <2>4
  <2> QED BY <2>1, <2>2, <2>3, <2>5, <1>1 DEF UndoWorks, CapturedInTime
<1>3. batches[prompt][f] = start[prompt][f]
  <2> DEFINE T == Touched(batches, prompt, f)
  <2>1. T \in SUBSET Nat /\ prompt \in T /\ \A q \in T : prompt <= q
    BY <1>2 DEF Touched, UndoWorks, HistoryOK, BatchesOK
  <2>2. Least(T) = prompt
    <3> HIDE DEF T
    <3> QED BY <2>1, LeastOnly
  <2>3. Before(batches, prompt, f) = batches[prompt][f]
    BY <2>1, <2>2 DEF Before
  <2>4. Before(batches, prompt, f) = start[prompt][f]
    BY <1>2 DEF UndoWorks, Reaches, Promised
  <2> QED BY <2>3, <2>4
<1>4. active' = [active EXCEPT ![i].pc = "load", ![i].prompt = prompt,
                               ![i].before = batches[prompt][f]]
  BY <1>2 DEF Succeeds, HasPreImage
<1>5. /\ DOMAIN active' = DOMAIN active
      /\ \A j \in DOMAIN active : j # i => active'[j] = active[j]
      /\ active'[i].pc = "load" /\ active'[i].call = active[i].call
      /\ active'[i].prompt = prompt /\ active'[i].before = start[prompt][f]
  BY <1>1, <1>3, <1>4 DEF GuardInv, ActiveOK
<1>6. \A g \in Files : g # f => files'[g] = files[g]
  BY <1>1, <1>2 DEF Disks
<1>7. /\ \A g : g = f => Waiting(g)'
      /\ \A g : g # f => (Waiting(g)' <=> Waiting(g))
  BY <1>1, <1>5 DEF Waiting, Waits, FileOf
<1>8. ManifestOK' /\ VersionsKept'
  BY <1>1 DEF ManifestOK, VersionsKept, VersionAt
<1>9. RecordsInTurn'
  <2>1. /\ Recording' = Recording
        /\ \A j \in Recording : active'[j] = active[j]
    BY <1>1, <1>5 DEF Recording
  <2>2. torn => \E j \in DOMAIN active' : active'[j].pc = "save"
    BY <1>1, <1>5 DEF RecordsInTurn
  <2>3. \A j \in DOMAIN active' : active'[j].pc \in Waits =>
          /\ active'[j].prompt = prompt
          /\ active'[j].before = start[prompt][FileOf(active'[j].call)]
    BY <1>5 DEF RecordsInTurn, FileOf
  <2>4. \A j \in Recording : 
          /\ active[j].snap = manifest
          /\ \A k \in Recording : k = j
          /\ active[j].pc = "save" =>
                LET g == FileOf(active[j].call)
                    v == <<g, NextVersion(manifest, g)>>
                IN  v \in DOMAIN artifacts /\ artifacts[v] = active[j].before
    BY DEF RecordsInTurn
  <2>5. \A g : NextVersion(manifest', g) = NextVersion(manifest, g)
    BY <1>1
  <2> HIDE DEF f
  <2> QED BY <2>1, <2>2, <2>3, <2>4, <2>5, <1>1 DEF RecordsInTurn
<1> HIDE DEF f
<1>10. ASSUME NEW m \in 1..prompt, start[m] # << >>, NEW g \in Files
       PROVE  Reverted(m, g)' = start[m][g]
  <2>1. CASE Records(m, g) # {}
    BY <2>1, <1>1, <1>10, RevertedSame
  <2>2. CASE Records(m, g) = {} /\ g # f
    <3>1. Reverted(m, g)' = IF Waiting(g) THEN start[prompt][g] ELSE files[g]
      BY <2>2, <1>1, <1>6, <1>7, RevertedSame
    <3>2. Reverted(m, g)' = Reverted(m, g)
      BY <3>1, <2>2 DEF Reverted
    <3> QED BY <3>2, <1>10
  <2>3. CASE Records(m, g) = {} /\ g = f
    <3>1. Reverted(m, g)' = start[prompt][g]
      <4>1. Reverted(m, g)' = IF Waiting(g)' THEN start'[prompt'][g] ELSE files'[g]
        BY <2>3, <1>1, RevertedSame
      <4>2. Waiting(g)'
        BY <2>3, <1>7
      <4> QED BY <4>1, <4>2, <1>1
    <3> QED BY <3>1, <2>3, <1>2, <1>10, UnrecordedUnchanged
  <2> QED BY <2>1, <2>2, <2>3
<1>11. Dated'
  BY <1>1, <1>2 DEF Dated
<1> QED BY <1>1, <1>8, <1>9, <1>10, <1>11

(* A call reads the manifest while no other record is under way.           *)
LEMMA RevertLoads ==
    ASSUME ActiveOK, RevertWorks, NEW i, RecordLoads(i), ~gap'
    PROVE  RevertWorks'
<1> USE DEF RevertWorks
<1>1. /\ i \in DOMAIN active /\ active[i].pc = "load"
      /\ active' = [active EXCEPT ![i].pc = "open", ![i].snap = LoadManifest]
      /\ Recording = {}
      /\ UNCHANGED <<files, running, prompt, start, undo, manifest, artifacts, torn>>
  BY DEF RecordLoads, checkpoints, store
<1>2. LoadManifest = manifest /\ ~torn
  BY <1>1 DEF RecordsInTurn, LoadManifest, Recording
<1>3. /\ DOMAIN active' = DOMAIN active
      /\ \A j \in DOMAIN active : j # i => active'[j] = active[j]
      /\ active'[i].pc = "open" /\ active'[i].call = active[i].call
      /\ active'[i].snap = manifest /\ active'[i].before = active[i].before
      /\ active'[i].prompt = active[i].prompt
  BY <1>1, <1>2 DEF ActiveOK
<1>4. Recording' = {i}
  BY <1>1, <1>3 DEF Recording
<1>5. ManifestOK' /\ VersionsKept'
  BY <1>1 DEF ManifestOK, VersionsKept, VersionAt
<1>6. RecordsInTurn'
  <2>1. \A j \in DOMAIN active' : active'[j].pc \in Waits =>
          /\ active'[j].prompt = prompt
          /\ active'[j].before = start[prompt][FileOf(active'[j].call)]
    BY <1>1, <1>3 DEF RecordsInTurn, FileOf, Waits
  <2> QED BY <2>1, <1>1, <1>2, <1>3, <1>4 DEF RecordsInTurn
<1>7. \A f : Waiting(f)' <=> Waiting(f)
  BY <1>1, <1>3 DEF Waiting, Waits, FileOf
<1>8. ASSUME NEW m \in 1..prompt, start[m] # << >>, NEW f \in Files
      PROVE  Reverted(m, f)' = start[m][f]
  <2>1. Reverted(m, f)' = Reverted(m, f)
    BY <1>1, <1>7, RevertedSame DEF Reverted
  <2> QED BY <2>1, <1>8
<1>9. Dated'
  BY <1>1, <1>3 DEF Dated
<1> QED BY <1>1, <1>5, <1>6, <1>8, <1>9

(* Writing a new artifact leaves the recorded ones as they are.            *)
LEMMA RevertOpens ==
    ASSUME GuardInv, UndoWorks, RevertWorks, NEW i, RecordOpens(i)
    PROVE  RevertWorks'
<1> USE DEF RevertWorks
<1> DEFINE f == FileOf(active[i].call)
           v == <<f, NextVersion(manifest, f)>>
<1>1. /\ i \in DOMAIN active /\ active[i].pc = "open"
      /\ artifacts' = With(artifacts, <<f, NextVersion(active[i].snap, f)>>,
                           active[i].before)
      /\ To(i, "save")
      /\ UNCHANGED <<files, running, prompt, start, undo, manifest>>
  BY DEF RecordOpens, checkpoints, history
<1>2. /\ i \in Recording /\ active[i].snap = manifest
      /\ \A j \in Recording : j = i
  BY <1>1 DEF RecordsInTurn, Recording
<1>3. /\ DOMAIN active' = DOMAIN active
      /\ \A j \in DOMAIN active : j # i => active'[j] = active[j]
      /\ active'[i].pc = "save" /\ active'[i].call = active[i].call
      /\ active'[i].snap = manifest /\ active'[i].before = active[i].before
      /\ active'[i].prompt = active[i].prompt
  BY <1>1, <1>2 DEF To, GuardInv, ActiveOK
<1>4. /\ DOMAIN artifacts' = DOMAIN artifacts \cup {v}
      /\ artifacts'[v] = active[i].before
      /\ \A w \in DOMAIN artifacts : w # v => artifacts'[w] = artifacts[w]
  BY <1>1, <1>2 DEF With
<1>5. prompt \in Nat
  BY DEF UndoWorks, HistoryOK
<1>6. ASSUME NEW p \in DOMAIN manifest, NEW k \in DOMAIN manifest[p]
      PROVE  /\ VersionAt(<<p, k>>)' = VersionAt(<<p, k>>)
             /\ VersionAt(<<p, k>>) # v
             /\ artifacts'[VersionAt(<<p, k>>)] = artifacts[VersionAt(<<p, k>>)]
  <2>1. VersionAt(<<p, k>>) = <<manifest[p][k].file, manifest[p][k].to>>
    BY DEF VersionAt
  <2>2. /\ NextVersion(manifest, f) \in Nat
        /\ manifest[p][k].file = f => manifest[p][k].to < NextVersion(manifest, f)
    BY NextVersionIsNew
  <2>3. manifest[p][k].to \in Nat
    <3>1. manifest[p][k] \in Versions
      BY DEF ManifestOK
    <3> QED BY <3>1 DEF Versions
  <2>4. VersionAt(<<p, k>>) # v
    BY <2>1, <2>2, <2>3
  <2>5. VersionAt(<<p, k>>)' = VersionAt(<<p, k>>)
    BY <1>1 DEF VersionAt
  <2>6. VersionAt(<<p, k>>) \in DOMAIN artifacts
    BY DEF VersionsKept
  <2> QED BY <2>4, <2>5, <2>6, <1>4
<1>7. Recording' = {i}
  BY <1>1, <1>2, <1>3 DEF Recording
<1> HIDE DEF v
<1>8. ManifestOK' /\ VersionsKept'
  <2>1. ManifestOK'
    BY <1>1 DEF ManifestOK
  <2>2. ASSUME NEW p \in DOMAIN manifest, NEW k \in DOMAIN manifest[p]
        PROVE  VersionAt(<<p, k>>)' \in DOMAIN artifacts'
    BY <1>4, <1>6 DEF VersionsKept
  <2>3. VersionsKept'
    BY <2>2, <1>1 DEF VersionsKept
  <2> QED BY <2>1, <2>3
<1>9. RecordsInTurn'
  <2>1. \A j \in DOMAIN active' : active'[j].pc \in Waits =>
          /\ active'[j].prompt = prompt
          /\ active'[j].before = start[prompt][FileOf(active'[j].call)]
    BY <1>1, <1>3 DEF RecordsInTurn, FileOf, Waits
  <2>2. torn' => \E j \in DOMAIN active' : active'[j].pc = "save"
    BY <1>1, <1>3
  <2>3. /\ active'[i].snap = manifest'
        /\ LET g == FileOf(active'[i].call)
               w == <<g, NextVersion(manifest', g)>>
           IN  w \in DOMAIN artifacts' /\ artifacts'[w] = active'[i].before
    BY <1>1, <1>3, <1>4 DEF v
  <2> QED BY <2>1, <2>2, <2>3, <1>1, <1>7 DEF RecordsInTurn
<1>10. \A g : Waiting(g)' <=> Waiting(g)
  BY <1>1, <1>3 DEF Waiting, Waits, FileOf
<1>11. ASSUME NEW m \in 1..prompt, start[m] # << >>, NEW g \in Files
       PROVE  Reverted(m, g)' = start[m][g]
  <2>1. Records(m, g)' = Records(m, g)
    BY <1>1 DEF Records
  <2>2. CASE Records(m, g) = {}
    BY <2>1, <2>2, <1>1, <1>10, <1>11 DEF Reverted
  <2>3. CASE Records(m, g) # {}
    <3>1. PICK x : x = Earliest(Records(m, g))
      OBVIOUS
    <3>2. x \in Records(m, g) /\ x \in Nat \X Nat
      BY <3>1, <2>3, <1>5, RecordsAre, HasEarliest
    <3>3. PICK p, k : x = <<p, k>>
      BY <3>2
    <3>4. p \in DOMAIN manifest /\ k \in DOMAIN manifest[p]
      BY <3>2, <3>3, <1>5, RecordsAre
    <3>5. Reverted(m, g) = artifacts[VersionAt(x)] /\ Reverted(m, g)' = artifacts'[VersionAt(x)']
      BY <2>1, <2>3, <3>1 DEF Reverted
    <3>6. artifacts'[VersionAt(<<p, k>>)'] = artifacts[VersionAt(<<p, k>>)]
      BY <3>4, <1>6
    <3> QED BY <3>3, <3>5, <3>6, <1>11
  <2> QED BY <2>2, <2>3
<1>12. Dated'
  BY <1>1, <1>3 DEF Dated
<1> QED BY <1>1, <1>8, <1>9, <1>11, <1>12

(* The manifest with a record more: it comes behind all the others.        *)
LEMMA RecordAdded ==
    ASSUME prompt \in Nat, prompt # 0, ManifestOK, NEW f \in Files,
           manifest' = Recorded(manifest, prompt, f), prompt' = prompt
    PROVE  \E n \in Nat :
                 /\ ManifestOK'
                 /\ VersionAt(<<prompt, n + 1>>)' = <<f, NextVersion(manifest, f)>>
                 /\ \A p \in DOMAIN manifest : \A k \in DOMAIN manifest[p] :
                       /\ VersionAt(<<p, k>>)' = VersionAt(<<p, k>>)
                       /\ NotAfter(<<p, k>>, <<prompt, n + 1>>)
                 /\ \A p \in DOMAIN manifest' : \A k \in DOMAIN manifest'[p] :
                       \/ <<p, k>> = <<prompt, n + 1>>
                       \/ p \in DOMAIN manifest /\ k \in DOMAIN manifest[p]
                 /\ \A m \in 1..prompt : \A g :
                       Records(m, g)' = Records(m, g) \cup
                                          (IF g = f THEN {<<prompt, n + 1>>} ELSE {})
<1>1. PICK v : v = NextVersion(manifest, f)
  OBVIOUS
<1>2. v \in Nat
  BY <1>1, NextVersionIsNew
<1>3. PICK old : old = IF prompt \in DOMAIN manifest THEN manifest[prompt] ELSE << >>
  OBVIOUS
<1>4. PICK rec : rec = [file |-> f, to |-> v]
  OBVIOUS
<1>5. rec \in Versions /\ rec.file = f /\ rec.to = v
  BY <1>2, <1>4 DEF Versions
<1>6. old \in Seq(Versions)
  BY <1>3 DEF ManifestOK
<1>7. PICK n \in Nat : n = Len(old)
  BY <1>6
<1>8. /\ Append(old, rec) \in Seq(Versions) /\ DOMAIN Append(old, rec) = 1..(n + 1)
      /\ DOMAIN old = 1..n /\ Append(old, rec)[n + 1] = rec
      /\ \A k \in 1..n : Append(old, rec)[k] = old[k]
  BY <1>5, <1>6, <1>7
<1>9. manifest' = With(manifest, prompt, Append(old, rec))
  BY <1>1, <1>3, <1>4 DEF Recorded
<1>10. /\ DOMAIN manifest' = DOMAIN manifest \cup {prompt}
       /\ \A p \in DOMAIN manifest : p # prompt => manifest'[p] = manifest[p]
       /\ DOMAIN manifest'[prompt] = 1..(n + 1) /\ manifest'[prompt] \in Seq(Versions)
       /\ manifest'[prompt][n + 1] = rec
       /\ \A k \in 1..n : manifest'[prompt][k] = old[k]
  BY <1>8, <1>9 DEF With
<1>11. DOMAIN manifest \subseteq 1..prompt
  BY DEF ManifestOK
<1>12. ASSUME NEW p \in DOMAIN manifest, NEW k \in DOMAIN manifest[p]
       PROVE  /\ p \in DOMAIN manifest' /\ k \in DOMAIN manifest'[p]
              /\ manifest'[p][k] = manifest[p][k]
              /\ NotAfter(<<p, k>>, <<prompt, n + 1>>)
  <2>1. CASE p = prompt
    <3>1. old = manifest[p] /\ k \in 1..n
      BY <2>1, <1>3, <1>8
    <3> QED BY <3>1, <2>1, <1>10 DEF NotAfter
  <2>2. CASE p # prompt
    <3>1. p < prompt
      BY <2>2, <1>11
    <3> QED BY <3>1, <2>2, <1>10 DEF NotAfter
  <2> QED BY <2>1, <2>2
<1>13. ASSUME NEW p \in DOMAIN manifest', NEW k \in DOMAIN manifest'[p],
              <<p, k>> # <<prompt, n + 1>>
       PROVE  p \in DOMAIN manifest /\ k \in DOMAIN manifest[p]
  <2>1. CASE p = prompt
    <3>1. k \in 1..n
      BY <2>1, <1>13, <1>10
    <3>2. prompt \in DOMAIN manifest
      <4> SUFFICES ASSUME prompt \notin DOMAIN manifest PROVE FALSE
        OBVIOUS
      <4>1. old = << >>
        BY <1>3
      <4>2. n = 0
        BY <4>1, <1>7
      <4> QED BY <4>2, <3>1
    <3>3. old = manifest[prompt]
      BY <3>2, <1>3
    <3> QED BY <3>1, <3>2, <3>3, <2>1, <1>8
  <2>2. CASE p # prompt
    BY <2>2, <1>10
  <2> QED BY <2>1, <2>2
<1>14. ManifestOK'
  <2>1. DOMAIN manifest' \subseteq 1..prompt'
    BY <1>10, <1>11
  <2>2. \A p \in DOMAIN manifest' : manifest'[p] \in Seq(Versions)
    BY <1>10 DEF ManifestOK
  <2>3. PICK b \in Nat : \A p \in DOMAIN manifest :
            \A k \in DOMAIN manifest[p] : manifest[p][k].to <= b
    BY DEF ManifestOK
  <2>4. ASSUME NEW p \in DOMAIN manifest', NEW k \in DOMAIN manifest'[p]
        PROVE  manifest'[p][k].to <= b + v
    <3>1. CASE <<p, k>> = <<prompt, n + 1>>
      BY <3>1, <1>2, <1>5, <1>10
    <3>2. CASE <<p, k>> # <<prompt, n + 1>>
      <4>1. p \in DOMAIN manifest /\ k \in DOMAIN manifest[p]
        BY <3>2, <1>13
      <4>2. manifest'[p][k] = manifest[p][k] /\ manifest[p][k].to <= b
        BY <4>1, <1>12, <2>3
      <4>3. manifest[p][k].to \in Nat
        <5>1. manifest[p][k] \in Versions
          BY <4>1 DEF ManifestOK
        <5> QED BY <5>1 DEF Versions
      <4> QED BY <4>2, <4>3, <1>2
    <3> QED BY <3>1, <3>2
  <2>5. b + v \in Nat
    BY <1>2
  <2> QED BY <2>1, <2>2, <2>4, <2>5 DEF ManifestOK
<1>15. VersionAt(<<prompt, n + 1>>)' = <<f, v>>
  BY <1>5, <1>10 DEF VersionAt
<1>16. ASSUME NEW m \in 1..prompt, NEW g
       PROVE  Records(m, g)' = Records(m, g) \cup
                                 (IF g = f THEN {<<prompt, n + 1>>} ELSE {})
  <2>1. /\ Records(m, g)' \in SUBSET (Nat \X Nat)
        /\ \A p, k : <<p, k>> \in Records(m, g)' <=>
              /\ p \in DOMAIN manifest' /\ p >= m
              /\ k \in DOMAIN manifest'[p] /\ manifest'[p][k].file = g
    <3>1. ASSUME NEW p, NEW k
          PROVE  <<p, k>> \in Records(m, g)' <=>
                    /\ p \in DOMAIN manifest' /\ p >= m
                    /\ k \in DOMAIN manifest'[p] /\ manifest'[p][k].file = g
      BY DEF Records
    <3>2. ASSUME NEW x \in Records(m, g)' PROVE x \in Nat \X Nat
      <4>1. PICK p \in DOMAIN manifest' : x \in {p} \X DOMAIN manifest'[p]
        BY DEF Records
      <4>2. p \in Nat /\ DOMAIN manifest'[p] \subseteq Nat
        BY <1>14 DEF ManifestOK
      <4> QED BY <4>1, <4>2
    <3> QED BY <3>1, <3>2
  <2>2. /\ Records(m, g) \in SUBSET (Nat \X Nat)
        /\ \A p, k : <<p, k>> \in Records(m, g) <=>
              /\ p \in DOMAIN manifest /\ p >= m
              /\ k \in DOMAIN manifest[p] /\ manifest[p][k].file = g
    BY RecordsAre
  <2>3. ASSUME NEW p, NEW k
        PROVE  <<p, k>> \in Records(m, g)' <=>
                  \/ <<p, k>> \in Records(m, g)
                  \/ g = f /\ <<p, k>> = <<prompt, n + 1>>
    <3>1. CASE <<p, k>> = <<prompt, n + 1>>
      <4>1. <<p, k>> \in Records(m, g)' <=> g = f
        BY <3>1, <2>1, <1>5, <1>10
      <4>2. <<p, k>> \notin Records(m, g)
        <5> SUFFICES ASSUME <<p, k>> \in Records(m, g) PROVE FALSE
          OBVIOUS
        <5>1. prompt \in DOMAIN manifest /\ n + 1 \in DOMAIN manifest[prompt]
          BY <3>1, <2>2
        <5>2. n + 1 \in 1..n
          BY <5>1, <1>3, <1>8
        <5> QED BY <5>2
      <4> QED BY <3>1, <4>1, <4>2
    <3>2. CASE <<p, k>> # <<prompt, n + 1>>
      BY <3>2, <2>1, <2>2, <1>12, <1>13
    <3> QED BY <3>1, <3>2
  <2>4. ASSUME NEW x PROVE x \in Records(m, g)' <=>
                  \/ x \in Records(m, g)
                  \/ g = f /\ x = <<prompt, n + 1>>
    <3>1. CASE \E p, k : x = <<p, k>>
      BY <3>1, <2>3
    <3>2. CASE ~\E p, k : x = <<p, k>>
      BY <3>2, <2>1, <2>2
    <3> QED BY <3>1, <3>2
  <2> QED BY <2>4
<1>17. ASSUME NEW p \in DOMAIN manifest, NEW k \in DOMAIN manifest[p]
       PROVE  VersionAt(<<p, k>>)' = VersionAt(<<p, k>>)
  BY <1>12 DEF VersionAt
<1>18. WITNESS n \in Nat
<1> QED BY <1>1, <1>12, <1>13, <1>14, <1>15, <1>16, <1>17

(* A record is written: from now on it says what the file was, unless an   *)
(* earlier one does.                                                       *)
LEMMA RevertSaves ==
    ASSUME GuardInv, UndoWorks, RevertWorks, NEW i, RecordSaves(i)
    PROVE  RevertWorks'
<1> USE DEF RevertWorks
<1>1. PICK f : f = FileOf(active[i].call)
  OBVIOUS
<1>2. PICK v : v = <<f, NextVersion(manifest, f)>>
  OBVIOUS
<1>3. /\ i \in DOMAIN active /\ active[i].pc = "save"
      /\ manifest' = Recorded(active[i].snap, active[i].prompt, f)
      /\ ~torn' /\ Drop(i)
      /\ UNCHANGED <<files, running, prompt, start, undo, artifacts>>
  BY <1>1 DEF RecordSaves, checkpoints, history
<1>4. /\ active[i].snap = manifest /\ active[i].prompt = prompt
      /\ \A j \in Recording : j = i
      /\ v \in DOMAIN artifacts /\ artifacts[v] = start[prompt][f]
  <2>1. i \in Recording
    BY <1>3 DEF Recording
  <2> QED BY <1>1, <1>2, <1>3, <2>1 DEF RecordsInTurn, Waits
<1>5. f \in Files /\ prompt \in Nat /\ prompt # 0 /\ start[prompt] # << >>
  <2>1. f \in Files
    BY <1>1, <1>3 DEF GuardInv, ActiveOK, Calls, Call, Names, FileOf
  <2> QED BY <2>1, <1>3 DEF UndoWorks, Exclusive, HistoryOK, Dated
<1>6. /\ DOMAIN active' = DOMAIN active \ {i}
      /\ \A j \in DOMAIN active' : active'[j] = active[j]
  BY <1>3 DEF Drop, Without
<1>7. PICK n \in Nat :
         /\ ManifestOK'
         /\ VersionAt(<<prompt, n + 1>>)' = v
         /\ \A p \in DOMAIN manifest : \A k \in DOMAIN manifest[p] :
               /\ VersionAt(<<p, k>>)' = VersionAt(<<p, k>>)
               /\ NotAfter(<<p, k>>, <<prompt, n + 1>>)
         /\ \A p \in DOMAIN manifest' : \A k \in DOMAIN manifest'[p] :
               \/ <<p, k>> = <<prompt, n + 1>>
               \/ p \in DOMAIN manifest /\ k \in DOMAIN manifest[p]
         /\ \A m \in 1..prompt : \A g :
               Records(m, g)' = Records(m, g) \cup
                                  (IF g = f THEN {<<prompt, n + 1>>} ELSE {})
  <2>1. manifest' = Recorded(manifest, prompt, f) /\ prompt' = prompt
    BY <1>3, <1>4
  <2> QED BY <2>1, <1>2, <1>5, RecordAdded
<1>8. VersionsKept'
  <2> SUFFICES ASSUME NEW p \in DOMAIN manifest', NEW k \in DOMAIN manifest'[p]
               PROVE  VersionAt(<<p, k>>)' \in DOMAIN artifacts'
    BY DEF VersionsKept
  <2>1. CASE <<p, k>> = <<prompt, n + 1>>
    BY <2>1, <1>3, <1>4, <1>7
  <2>2. CASE p \in DOMAIN manifest /\ k \in DOMAIN manifest[p]
    BY <2>2, <1>3, <1>7 DEF VersionsKept
  <2> QED BY <2>1, <2>2, <1>7
<1>9. RecordsInTurn'
  <2>1. Recording' = {}
    BY <1>4, <1>6 DEF Recording
  <2>2. \A j \in DOMAIN active' : active'[j].pc \in Waits =>
          /\ active'[j].prompt = prompt
          /\ active'[j].before = start[prompt][FileOf(active'[j].call)]
    BY <1>6 DEF RecordsInTurn
  <2> QED BY <2>1, <2>2, <1>3 DEF RecordsInTurn
<1>10. ASSUME NEW m \in 1..prompt, start[m] # << >>, NEW g \in Files
       PROVE  Reverted(m, g)' = start[m][g]
  <2>1. /\ Records(m, g) \in SUBSET (Nat \X Nat)
        /\ \A x \in Records(m, g) :
              /\ VersionAt(x)' = VersionAt(x)
              /\ NotAfter(x, <<prompt, n + 1>>)
    <3>1. Records(m, g) \in SUBSET (Nat \X Nat)
      BY <1>5, RecordsAre
    <3>2. ASSUME NEW x \in Records(m, g)
          PROVE  VersionAt(x)' = VersionAt(x) /\ NotAfter(x, <<prompt, n + 1>>)
      <4>1. PICK p, k : x = <<p, k>>
        BY <3>1
      <4>2. p \in DOMAIN manifest /\ k \in DOMAIN manifest[p]
        BY <4>1, <1>5, RecordsAre
      <4> QED BY <4>1, <4>2, <1>7
    <3> QED BY <3>1, <3>2
  <2>2. CASE Records(m, g) # {}
    <3>1. PICK x : x = Earliest(Records(m, g))
      OBVIOUS
    <3>2. x \in Records(m, g) /\ \A y \in Records(m, g) : NotAfter(x, y)
      BY <2>1, <2>2, <3>1, HasEarliest
    <3>3. Earliest(Records(m, g)') = x
      <4>1. /\ Records(m, g)' \in SUBSET (Nat \X Nat) /\ x \in Records(m, g)'
            /\ \A y \in Records(m, g)' : NotAfter(x, y)
        <5>1. \A y \in Records(m, g)' : y \in Records(m, g) \/ y = <<prompt, n + 1>>
          BY <1>7
        <5>2. <<prompt, n + 1>> \in Nat \X Nat
          BY <1>5
        <5>3. x \in Records(m, g)'
          BY <3>2, <1>7
        <5> QED BY <5>1, <5>2, <5>3, <2>1, <3>2
      <4> QED BY ONLY <4>1, EarliestOnly
    <3>4. Reverted(m, g) = artifacts[VersionAt(x)]
      BY <2>2, <3>1 DEF Reverted
    <3>5. Reverted(m, g)' = artifacts'[VersionAt(x)']
      <4>1. Records(m, g)' # {}
        BY <3>2, <1>7
      <4> QED BY <4>1, <3>3 DEF Reverted
    <3> QED BY <3>2, <3>4, <3>5, <2>1, <1>3, <1>10
  <2>3. CASE Records(m, g) = {} /\ g = f
    <3>1. Records(m, g)' = {<<prompt, n + 1>>}
      BY <2>3, <1>7
    <3>2. Earliest(Records(m, g)') = <<prompt, n + 1>>
      <4>1. /\ {<<prompt, n + 1>>} \in SUBSET (Nat \X Nat)
            /\ NotAfter(<<prompt, n + 1>>, <<prompt, n + 1>>)
        BY <1>5 DEF NotAfter
      <4>2. Earliest({<<prompt, n + 1>>}) = <<prompt, n + 1>>
        BY <4>1, EarliestOnly
      <4> QED BY <3>1, <4>2
    <3>3. Reverted(m, g)' = artifacts'[v]
      <4>1. Reverted(m, g)' = artifacts'[VersionAt(Earliest(Records(m, g)))']
        BY <3>1 DEF Reverted
      <4>2. VersionAt(Earliest(Records(m, g)))' = VersionAt(<<prompt, n + 1>>)'
        BY <3>2, <1>3 DEF VersionAt
      <4> QED BY <4>1, <4>2, <1>7
    <3>4. start[prompt][g] = start[m][g]
      BY <2>3, <1>5, <1>10, UnrecordedUnchanged
    <3> QED BY <3>3, <3>4, <2>3, <1>3, <1>4
  <2>4. CASE Records(m, g) = {} /\ g # f
    <3>1. Records(m, g)' = {}
      BY <2>4, <1>7
    <3>2. Waiting(g)' <=> Waiting(g)
      BY <2>4, <1>1, <1>6 DEF Waiting
    <3>3. Reverted(m, g)' = Reverted(m, g)
      BY <3>1, <3>2, <2>4, <1>3 DEF Reverted
    <3> QED BY <3>3, <1>10
  <2> QED BY <2>2, <2>3, <2>4
<1>11. Dated'
  BY <1>3, <1>6 DEF Dated
<1> QED BY <1>3, <1>7, <1>8, <1>9, <1>10, <1>11

(* A crash between two records loses none.                                 *)
LEMMA RevertSurvivesCrash ==
    ASSUME RevertWorks, Crash, ~gap'
    PROVE  RevertWorks'
<1>1. /\ ~running' /\ DOMAIN active' = {} /\ undo' = << >> /\ undo = << >>
      /\ \A j \in DOMAIN active : active[j].pc \notin Waits
      /\ UNCHANGED <<files, prompt, start, manifest, artifacts, torn>>
  <2>1. gap' = (gap \/ \E j \in DOMAIN active : active[j].pc \in {"load", "open", "save"})
    BY DEF Crash
  <2>2. \A j \in DOMAIN active : active[j].pc \notin {"load", "open", "save"}
    BY <2>1, Zenon
  <2>3. /\ ~running' /\ DOMAIN active' = {} /\ undo' = << >> /\ undo = << >>
        /\ UNCHANGED <<files, prompt, start, manifest, artifacts, torn>>
    BY DEF RevertWorks, Crash, store
  <2> QED BY <2>2, <2>3 DEF Waits
<1> QED BY <1>1, OthersMoveOn

LEMMA RevertInit == Init => RevertInv
<1> SUFFICES ASSUME Init PROVE RevertWorks
  BY DEF RevertInv
<1>1. /\ prompt = 0 /\ start = << >> /\ undo = << >>
      /\ DOMAIN manifest = {} /\ DOMAIN active = {} /\ ~torn /\ ~running
  BY DEF Init
<1>2. ManifestOK /\ RecordsInTurn /\ VersionsKept /\ Dated
  BY <1>1 DEF ManifestOK, RecordsInTurn, VersionsKept, Recording, Dated
<1> QED BY <1>1, <1>2 DEF RevertWorks

(* A revert keeps the records before its prompt: an earlier prompt reaches *)
(* its disk by them, or by what the revert has put back.                   *)
LEMMA RevertReverts ==
    ASSUME EditInv, RevertInv, RevertWorks, UndoWorks, NEW m, Revert(m),
           ~raced, ~raced'
    PROVE  RevertWorks'
<1> USE DEF RevertWorks
<1>1. /\ ~up /\ m \in DOMAIN start /\ ~torn'
      /\ UNCHANGED <<running, prompt, active, undo, artifacts>>
      /\ start' = [p \in DOMAIN start |-> IF p > m THEN << >> ELSE start[p]]
      /\ files' = Restored(EarliestVersions(LoadManifest, m))
      /\ manifest' = [p \in {p \in DOMAIN LoadManifest : p < m} |-> LoadManifest[p]]
  BY DEF Revert, Forget, checkpoints
<1>2. ~gap /\ ~undone /\ start[m] # << >>
  BY Zenon DEF Revert
<1>3. prompt \in Nat /\ m \in 1..prompt /\ DOMAIN active = {} /\ ~running
  BY <1>1 DEF UndoWorks, HistoryOK, Exclusive
<1>4. files' = start[m]
  <2>1. RevertReachesStart
    BY RevertInvReaches
  <2> QED BY <2>1, <1>1, <1>2, <1>3 DEF RevertReachesStart
<1>5. manifest' = [p \in {p \in DOMAIN manifest : p < m} |-> manifest[p]]
  <2>1. ~torn
    BY <1>3 DEF RecordsInTurn
  <2> QED BY <2>1, <1>1 DEF LoadManifest
<1>6. \A n \in 1..prompt : start'[n] # << >> => n <= m /\ start'[n] = start[n]
  BY <1>1, <1>3 DEF UndoWorks, HistoryOK
<1>7. ManifestOK'
  BY <1>1, <1>5 DEF ManifestOK
<1>8. RecordsInTurn'
  BY <1>1, <1>3 DEF RecordsInTurn, Recording
<1>9. VersionsKept'
  BY <1>1, <1>5 DEF VersionsKept, VersionAt
<1>10. ASSUME NEW n \in 1..prompt, start'[n] # << >>, NEW f \in Files
       PROVE  Reverted(n, f)' = start'[n][f]
  <2>1. n <= m /\ start'[n] = start[n] /\ start[n] # << >>
    BY <1>6, <1>10
  <2>2. Reverted(n, f) = start[n][f] /\ Reverted(m, f) = start[m][f]
    BY <2>1, <1>2, <1>3
  <2>3. ~Waiting(f) /\ ~Waiting(f)'
    BY <1>1, <1>3 DEF Waiting
  <2>4. /\ Records(n, f) \in SUBSET (Nat \X Nat)
        /\ \A x : x \in Records(n, f)' <=> x \in Records(n, f) /\ x[1] < m
        /\ \A x : x \in Records(m, f) <=> x \in Records(n, f) /\ x[1] >= m
    <3>1. /\ Records(n, f) \in SUBSET (Nat \X Nat)
          /\ Records(m, f) \in SUBSET (Nat \X Nat)
      BY <1>3, RecordsAre
    <3>2. ASSUME NEW x \in Records(n, f)' PROVE x \in Records(n, f) /\ x[1] < m
      <4>1. PICK p \in DOMAIN manifest' : p >= n /\ x \in {p} \X DOMAIN manifest'[p]
        BY DEF Records
      <4>2. manifest'[x[1]][x[2]].file = f
        BY DEF Records
      <4>3. p \in DOMAIN manifest /\ p < m /\ manifest'[p] = manifest[p]
        BY <4>1, <1>5
      <4>4. PICK k : x = <<p, k>> /\ k \in DOMAIN manifest[p]
        BY <4>1, <4>3
      <4> QED BY <4>1, <4>2, <4>3, <4>4, <1>3, RecordsAre
    <3>3. ASSUME NEW x \in Records(n, f), x[1] < m PROVE x \in Records(n, f)'
      <4>1. PICK p, k : x = <<p, k>>
        BY <3>1
      <4>2. /\ p \in DOMAIN manifest /\ p >= n
            /\ k \in DOMAIN manifest[p] /\ manifest[p][k].file = f
        BY <4>1, <1>3, RecordsAre
      <4>3. p \in DOMAIN manifest' /\ manifest'[p] = manifest[p]
        BY <4>1, <4>2, <3>3, <1>5
      <4> QED BY <4>1, <4>2, <4>3 DEF Records
    <3>4. ASSUME NEW x PROVE x \in Records(m, f) <=> x \in Records(n, f) /\ x[1] >= m
      <4>1. CASE \E p, k : x = <<p, k>>
        <5>1. PICK p, k : x = <<p, k>>
          BY <4>1
        <5>2. p \in DOMAIN manifest => p \in Nat
          BY DEF ManifestOK
        <5> QED BY <5>1, <5>2, <2>1, <1>3, RecordsAre
      <4>2. CASE ~\E p, k : x = <<p, k>>
        BY <4>2, <3>1
      <4> QED BY <4>1, <4>2
    <3> QED BY <3>1, <3>2, <3>3, <3>4
  <2>5. CASE Records(n, f)' # {}
    <3>1. PICK y : y \in Records(n, f)'
      BY <2>5
    <3>2. PICK e : e = Earliest(Records(n, f))
      OBVIOUS
    <3>3. e \in Records(n, f) /\ \A x \in Records(n, f) : NotAfter(e, x)
      BY <2>4, <3>1, <3>2, HasEarliest
    <3>4. e[1] < m
      <4>1. NotAfter(e, y) /\ y[1] < m /\ y[1] \in Nat /\ e[1] \in Nat
        BY <2>4, <3>1, <3>3
      <4> QED BY <4>1, <1>3 DEF NotAfter
    <3>5. Earliest(Records(n, f)') = e
      <4>1. /\ Records(n, f)' \in SUBSET (Nat \X Nat) /\ e \in Records(n, f)'
            /\ \A x \in Records(n, f)' : NotAfter(e, x)
        BY <2>4, <3>3, <3>4
      <4> QED BY ONLY <4>1, EarliestOnly
    <3>6. VersionAt(e)' = VersionAt(e)
      <4>1. PICK p, k : e = <<p, k>>
        BY <2>4, <3>3
      <4>2. p \in DOMAIN manifest
        BY <4>1, <3>3, <1>3, RecordsAre
      <4>3. manifest'[p] = manifest[p]
        BY <4>1, <4>2, <3>4, <1>5
      <4> QED BY <4>1, <4>3 DEF VersionAt
    <3>7. Reverted(n, f) = artifacts[VersionAt(e)]
      BY <2>4, <3>1, <3>2 DEF Reverted
    <3>8. Reverted(n, f)' = artifacts'[VersionAt(e)']
      BY <2>5, <3>5 DEF Reverted
    <3> QED BY <3>6, <3>7, <3>8, <2>1, <2>2, <1>1
  <2>6. CASE Records(n, f)' = {}
    <3>1. Records(n, f) = Records(m, f)
      <4>1. \A x \in Records(n, f) : x[1] \in Nat /\ ~(x[1] < m)
        BY <2>4, <2>6
      <4>2. \A x \in Records(n, f) : x[1] >= m
        BY <4>1, <1>3
      <4> QED BY <2>4, <4>2
    <3>2. Reverted(n, f) = Reverted(m, f)
      BY <3>1 DEF Reverted
    <3>3. Reverted(n, f)' = files'[f]
      BY <2>3, <2>6 DEF Reverted
    <3> QED BY <3>2, <3>3, <2>1, <2>2, <1>4
  <2> QED BY <2>5, <2>6
<1>11. Dated'
  BY <1>1, <1>3 DEF Dated
<1> QED BY <1>1, <1>3, <1>7, <1>8, <1>9, <1>10, <1>11

LEMMA RevertStep ==
    ASSUME EditInv, RevertInv, [Next]_vars
    PROVE  RevertInv'
<1> SUFFICES ASSUME ~raced', ~gap', ~undone' PROVE RevertWorks'
  BY DEF RevertInv
<1>1. ASSUME RevertWorks,
             UNCHANGED <<files, prompt, start, undo, manifest, artifacts, torn, active>>,
             running' => running
      PROVE  RevertWorks'
  BY <1>1, OthersMoveOn
<1>2. CASE UNCHANGED vars
  BY <1>1, <1>2 DEF vars, history, checkpoints, store, RevertInv
<1> SUFFICES ASSUME Next PROVE RevertWorks'
  BY <1>2
<1>3. ~raced /\ ~gap /\ ~undone
  <2>1. ASSUME NEW c \in Calls, Start(c) \/ RefusedBusy(c) PROVE ~raced /\ ~gap /\ ~undone
    BY <2>1 DEF Start, RefusedBusy, Arrives
  <2>2. ASSUME NEW i \in Numbers,
           \/ Unsafe(i) \/ RefusedRepeat(i) \/ RefusedRunning(i)
           \/ RefusedPutBack(i) \/ Looks(i) \/ Capture(i) \/ CaptureFails(i)
        PROVE ~raced /\ ~gap /\ ~undone
    <3>1. ~CaptureFails(i)
      BY DEF CaptureFails
    <3>2. CASE Capture(i)
      BY <3>2 DEF Capture
    <3>3. CASE Looked(i)
      BY <3>3 DEF Looked, history
    <3> QED BY <2>2, <3>1, <3>2, <3>3 DEF Unsafe, RefusedRepeat, RefusedRunning,
                                          RefusedPutBack, Looks
  <2>3. ASSUME NEW i \in Numbers,
           \/ Hook(i) \/ Succeeds(i) \/ Fails(i)
           \/ RecordLoads(i) \/ RecordOpens(i) \/ RecordSaves(i)
        PROVE ~raced /\ ~gap /\ ~undone
    <3>1. raced' = raced /\ undone' = undone
      BY <2>3 DEF Hook, Succeeds, Fails, Ended, RecordLoads, RecordOpens, RecordSaves,
                  history
    <3>2. \/ gap' = gap \/ gap' = TRUE
          \/ gap' = (gap \/ Recording # {})
      BY <2>3 DEF Hook, Succeeds, Fails, RecordLoads, RecordOpens, RecordSaves, history
    <3>3. ASSUME gap' = (gap \/ Recording # {}) PROVE ~gap
      BY <3>3, Zenon
    <3>4. ASSUME gap' = gap \/ gap' = TRUE PROVE ~gap
      BY <3>4
    <3>5. ~gap
      BY <3>2, <3>3, <3>4
    <3> QED BY <3>1, <3>5
  <2>4. ASSUME NEW m \in Prompts, UndoStarts(m) \/ Revert(m)
        PROVE ~raced /\ ~gap /\ ~undone
    <3>1. ~UndoStarts(m)
      BY DEF UndoStarts
    <3> QED BY <2>4, <3>1 DEF Revert, Operates
  <2>5. ASSUME NEW f \in Files, UndoRestores(f) PROVE ~raced /\ ~gap /\ ~undone
    BY <2>5 DEF UndoRestores, history
  <2>6. ASSUME NewPrompt \/ PromptOverlaps \/ RunGroup \/ UndoEnds \/ KeepAll \/ Abort \/ Crash \/ Resume
        PROVE ~raced /\ ~gap /\ ~undone
    <3>1. CASE Crash
      <4>1. /\ ~raced /\ undone' = (undone \/ undo # << >>)
            /\ gap' = (gap \/ \E i \in DOMAIN active :
                                 active[i].pc \in {"load", "open", "save"})
        BY <3>1 DEF Crash, Operates
      <4> QED BY <4>1, Zenon
    <3>2. CASE RunGroup \/ Abort \/ Resume
      BY <3>2 DEF RunGroup, Abort, Resume, history
    <3>4. CASE UndoEnds
      BY <3>4 DEF UndoEnds
    <3>3. CASE NewPrompt \/ PromptOverlaps \/ KeepAll
      BY <3>3 DEF NewPrompt, PromptOverlaps, Numbered, KeepAll
    <3> QED BY <2>6, <3>1, <3>2, <3>3, <3>4
  <2> QED BY <2>1, <2>2, <2>3, <2>4, <2>5, <2>6 DEF Next
<1>4. /\ GuardInv /\ ActiveOK /\ UndoWorks /\ RevertWorks /\ undo = << >>
      /\ ~up => ~running
  BY <1>3 DEF EditInv, UndoInv, GuardInv, RevertInv, RevertWorks, UndoWorks, Exclusive
<1>5. CASE NewPrompt
  BY <1>4, <1>5, RevertNewPrompt
<1>6. ASSUME NEW c \in Calls, Start(c)
      PROVE  RevertWorks'
  <2>1. /\ UNCHANGED <<files, prompt, start, undo, manifest, artifacts, torn>>
        /\ active' = With(active, made + 1, InHand(c)) /\ running
    BY <1>6 DEF Start, Arrives, checkpoints, store
  <2>2. made + 1 \notin DOMAIN active
    BY <1>4 DEF ActiveOK
  <2>3. /\ \A j \in DOMAIN active : j \in DOMAIN active' /\ active'[j] = active[j]
        /\ \A j \in DOMAIN active' : j \in DOMAIN active \/ active'[j].pc = "safety"
    BY <2>1, <2>2 DEF With, InHand
  <2> QED BY <2>1, <2>3, <1>4, OthersMoveOn DEF Waits
<1>7. ASSUME NEW c \in Calls, RefusedBusy(c)
      PROVE  RevertWorks'
  BY <1>1, <1>4, <1>7 DEF RefusedBusy, Arrives, checkpoints, store
<1>8. ASSUME NEW i \in DOMAIN active, active[i].pc \notin Waits,
             UNCHANGED <<files, running, prompt, start, undo, manifest, artifacts, torn>>,
             Drop(i) \/ \E place : To(i, place) /\ place \notin Waits
      PROVE  RevertWorks'
  <2>1. CASE Drop(i)
    <3>1. /\ DOMAIN active' = DOMAIN active \ {i}
          /\ \A j \in DOMAIN active' : active'[j] = active[j]
      BY <2>1 DEF Drop, Without
    <3> QED BY <3>1, <1>4, <1>8, OthersMoveOn
  <2>2. CASE \E place : To(i, place) /\ place \notin Waits
    <3>1. PICK place : To(i, place) /\ place \notin Waits
      BY <2>2
    <3>2. /\ DOMAIN active' = DOMAIN active
          /\ \A j \in DOMAIN active : j # i => active'[j] = active[j]
          /\ active'[i].pc = place
      BY <3>1, <1>4 DEF To, ActiveOK
    <3> QED BY <3>1, <3>2, <1>4, <1>8, OthersMoveOn
  <2> QED BY <1>8, <2>1, <2>2
<1>9. ASSUME NEW i \in Numbers,
             \/ Unsafe(i) \/ RefusedRepeat(i) \/ RefusedRunning(i)
             \/ RefusedPutBack(i)
      PROVE  RevertWorks'
  BY <1>8, <1>9 DEF Unsafe, RefusedRepeat, RefusedRunning, RefusedPutBack, Looked,
                    Refused, store, history, Waits
<1>10. ASSUME NEW i \in Numbers, Looks(i) \/ Capture(i) \/ Hook(i)
       PROVE  RevertWorks'
  <2>1. CASE Looks(i)
    <3>1. /\ i \in DOMAIN active /\ active[i].pc \notin Waits
          /\ UNCHANGED <<files, running, prompt, start, undo, manifest, artifacts, torn>>
      BY <2>1 DEF Looks, Looked, store, history, Waits
    <3>2. /\ DOMAIN active' = DOMAIN active
          /\ \A j \in DOMAIN active : j # i => active'[j] = active[j]
          /\ active'[i].pc \in {"hook", "capture"}
      BY <2>1, <3>1, <1>4 DEF Looks, ActiveOK
    <3> QED BY <3>1, <3>2, <1>4, OthersMoveOn DEF Waits
  <2>2. CASE Capture(i)
    <3>1. /\ i \in DOMAIN active /\ active[i].pc \notin Waits
          /\ UNCHANGED <<files, running, prompt, start, undo, manifest, artifacts, torn>>
      BY <2>2 DEF Capture, store, Waits
    <3>2. Drop(i) \/ To(i, "hook")
      BY <2>2 DEF Capture
    <3> QED BY <3>1, <3>2, <1>8 DEF Waits
  <2>3. CASE Hook(i)
    BY <2>3, <1>8 DEF Hook, checkpoints, store, history, Waits
  <2> QED BY <1>10, <2>1, <2>2, <2>3
<1>11. ASSUME NEW i \in Numbers, Fails(i)
       PROVE  RevertWorks'
  BY <1>8, <1>11 DEF Fails, Ended, checkpoints, store, Waits
<1>12. CASE RunGroup \/ Abort \/ Resume
  BY <1>1, <1>4, <1>12 DEF RunGroup, Abort, Resume, checkpoints, store, history
<1>13. ASSUME NEW i \in Numbers, CaptureFails(i) PROVE FALSE
  BY <1>13 DEF CaptureFails
<1>14. ASSUME NEW m \in Prompts, UndoStarts(m) \/ Revert(m) PROVE RevertWorks'
  <2>1. ~UndoStarts(m)
    BY DEF UndoStarts
  <2> QED BY <2>1, <1>3, <1>4, <1>14, RevertReverts
<1>16. ~PromptOverlaps
  BY DEF PromptOverlaps
<1>15. ~UndoEnds /\ ~KeepAll /\ \A f \in Files : ~UndoRestores(f)
  BY <1>4 DEF UndoEnds, KeepAll, UndoRestores
<1> QED
  BY <1>4, <1>5, <1>6, <1>7, <1>9, <1>10, <1>11, <1>12, <1>13, <1>14, <1>15, <1>16,
     RevertToolSucceeds, RevertLoads, RevertOpens, RevertSaves, RevertSurvivesCrash
     DEF Next

LEMMA EditInvariant == Spec => [](EditInv /\ RevertInv)
<1>1. Init => EditInv /\ RevertInv
  BY GuardInit, UndoInit, RevertInit DEF EditInv
<1>2. EditInv /\ RevertInv /\ [Next]_vars => (EditInv /\ RevertInv)'
  BY GuardStep, UndoStep, RevertStep, RevertInvReaches DEF EditInv
<1> QED BY <1>1, <1>2, PTL DEF Spec

(* UndoReachesStart, for any files, texts, prompts and calls: at any       *)
(* moment, after prompts numbered in the middle of calls, failed writes of *)
(* the session file, undos, crashes and reverts, undoing to a prompt gives *)
(* back the disk as it was before it, with the exceptions UndoReachesStart *)
(* names (EditCheckpointManager, _captureEditCheckpoint).                  *)
THEOREM UndoGivesBackTheDisk == Spec => []UndoReachesStart
<1>1. EditInv => UndoReachesStart
  BY UndoInvReaches DEF EditInv
<1> QED BY <1>1, EditInvariant, PTL

(* RevertReachesStart, for any files, texts, prompts and calls: whenever   *)
(* no changed file waits for its record, the versions of the manifest give *)
(* back the disk as it was before each prompt, and do so after reverts,    *)
(* unless records overlapped or were cut short, an aborted tool wrote, a   *)
(* prompt was numbered in the middle of calls, or something was undone     *)
(* (TrekVersionStore.record, restoreToPrompt).                             *)
THEOREM RevertGivesBackTheDisk == Spec => []RevertReachesStart
<1>1. EditInv /\ RevertInv => RevertReachesStart
  BY RevertInvReaches
<1> QED BY <1>1, EditInvariant, PTL

-----------------------------------------------------------------------------
(***************************************************************************)
(* The inductive invariant.  Calls register in their order; a live call    *)
(* that has live calls of its key ahead of it is chained behind the last   *)
(* of them, so it cannot start before they are gone.                       *)
(***************************************************************************)
RegisteredInOrder ==
    \A c, d \in QueueCalls :
        d < c /\ pc[c] \in {"resolved", "waiting", "running", "done"}
            => pc[d] \notin {"new", "registering", "resolved"}

ChainedBehindTheLast ==
    \A c, d \in QueueCalls :
        c < d /\ Live(c) /\ Live(d) /\ key[c] = key[d]
            => /\ behind[d] \in QueueCalls
               /\ Live(behind[d])
               /\ key[behind[d]] = key[d]
               /\ c <= behind[d]

QueueInv ==
    /\ TypeOK
    /\ RegisteredInOrder
    /\ ChainsAreLive
    /\ ChainedBehindTheLast
    /\ OneAtATime

\* With no call made and no chain in the map the invariant holds.
LEMMA QueueInitInv == QueueInit => QueueInv
BY NAssumption, PathsAssumption, FilesAssumption
   DEF QueueInit, QueueInv, TypeOK, RegisteredInOrder, ChainsAreLive, Range,
       ChainedBehindTheLast, OneAtATime, Live, Locations, QueueCalls, None

\* Every step of withFileMutationQueue, and every change of a file under it,
\* preserves the invariant.
LEMMA QueueStepInv == QueueInv /\ [QueueNext]_queueVars => QueueInv'
<1> SUFFICES ASSUME QueueInv, [QueueNext]_queueVars PROVE QueueInv'
    OBVIOUS
<1> USE NAssumption, PathsAssumption DEF QueueCalls, None
<1>1. ASSUME NEW c \in QueueCalls, CallMade(c) PROVE QueueInv'
    BY <1>1 DEF CallMade, QueueInv, TypeOK, RegisteredInOrder, ChainsAreLive,
                ChainedBehindTheLast, OneAtATime, Live, Locations
<1>2. ASSUME NEW c \in QueueCalls, ResolveKey(c) PROVE QueueInv'
  <2>1. TypeOK'
    BY <1>2 DEF ResolveKey, GetMutationQueueKey, QueueInv, TypeOK, Locations
  <2>2. \A d \in QueueCalls : Live(d)' = Live(d) /\ (Live(d) => key'[d] = key[d])
    BY <1>2 DEF ResolveKey, QueueInv, TypeOK, Live
  <2>3. RegisteredInOrder'
    BY <1>2 DEF ResolveKey, MyTurn, QueueInv, TypeOK, RegisteredInOrder
  <2>4. ChainsAreLive'
    BY <1>2, <2>2 DEF ResolveKey, QueueInv, TypeOK, ChainsAreLive
  <2>5. ChainedBehindTheLast'
    BY <1>2, <2>2 DEF ResolveKey, QueueInv, TypeOK, ChainedBehindTheLast
  <2>6. OneAtATime'
    BY <1>2 DEF ResolveKey, QueueInv, TypeOK, OneAtATime, Live
  <2> QED BY <2>1, <2>3, <2>4, <2>5, <2>6 DEF QueueInv
<1>3. ASSUME NEW c \in QueueCalls, ResolveFails(c) PROVE QueueInv'
    BY <1>3 DEF ResolveFails, QueueInv, TypeOK, RegisteredInOrder, ChainsAreLive,
                ChainedBehindTheLast, OneAtATime, Live, Locations
<1>4. ASSUME NEW c \in QueueCalls, Register(c) PROVE QueueInv'
  <2>1. TypeOK'
    BY <1>4 DEF Register, QueueInv, TypeOK, Locations
  <2>2. \A d \in QueueCalls : Live(d) => d < c
    \* a live call after c would have waited for c's registration
    BY <1>4 DEF Register, QueueInv, TypeOK, RegisteredInOrder, Live
  <2>3. RegisteredInOrder'
    BY <1>4 DEF Register, QueueInv, TypeOK, RegisteredInOrder
  <2>4. ChainsAreLive'
    BY <1>4, <2>2 DEF Register, QueueInv, TypeOK, ChainsAreLive, Live
  <2>5. ChainedBehindTheLast'
    BY <1>4, <2>2 DEF Register, QueueInv, TypeOK, ChainsAreLive,
                      ChainedBehindTheLast, Live
  <2>6. OneAtATime'
    BY <1>4, <2>2 DEF Register, QueueInv, TypeOK, OneAtATime, Live
  <2> QED BY <2>1, <2>3, <2>4, <2>5, <2>6 DEF QueueInv
<1>5. ASSUME NEW c \in QueueCalls, Begin(c) PROVE QueueInv'
  <2>1. \A d \in QueueCalls : d < c /\ key[d] = key[c] => ~Live(d)
    \* the call c is chained behind would be live, yet it has released
    BY <1>5 DEF Begin, Released, QueueInv, TypeOK, ChainedBehindTheLast, Live
  <2>2. TypeOK' /\ RegisteredInOrder' /\ ChainsAreLive' /\ ChainedBehindTheLast'
    BY <1>5 DEF Begin, QueueInv, TypeOK, RegisteredInOrder, ChainsAreLive,
                ChainedBehindTheLast, Live, Locations
  <2>3. OneAtATime'
    BY <1>5, <2>1 DEF Begin, QueueInv, TypeOK, OneAtATime, Live
  <2> QED BY <2>2, <2>3 DEF QueueInv
<1>6. ASSUME NEW c \in QueueCalls, Mutate(c) PROVE QueueInv'
    BY <1>6 DEF Mutate, QueueInv, TypeOK, RegisteredInOrder, ChainsAreLive,
                ChainedBehindTheLast, OneAtATime, Live
<1>7. ASSUME NEW c \in QueueCalls, Finish(c) PROVE QueueInv'
  <2>1. \A d \in QueueCalls : d < c /\ key[d] = key[c] => ~Live(d)
    BY <1>7 DEF Finish, QueueInv, OneAtATime
  <2>2. TypeOK' /\ RegisteredInOrder'
    BY <1>7 DEF Finish, QueueInv, TypeOK, RegisteredInOrder, Locations
  <2>3. ChainsAreLive'
    \* if c's chain is the last, no call of its key is live after it
    BY <1>7, <2>1 DEF Finish, QueueInv, TypeOK, ChainsAreLive, Live
  <2>4. ChainedBehindTheLast'
    \* a call with another live call ahead of it is not chained behind c
    BY <1>7, <2>1 DEF Finish, QueueInv, TypeOK, ChainsAreLive,
                      ChainedBehindTheLast, Live
  <2>5. OneAtATime'
    BY <1>7 DEF Finish, QueueInv, TypeOK, OneAtATime, Live
  <2> QED BY <2>2, <2>3, <2>4, <2>5 DEF QueueInv
<1>8. CASE UNCHANGED queueVars
    BY <1>8 DEF queueVars, QueueInv, TypeOK, RegisteredInOrder, ChainsAreLive,
                ChainedBehindTheLast, OneAtATime, Live
<1> QED BY <1>1, <1>2, <1>3, <1>4, <1>5, <1>6, <1>7, <1>8 DEF QueueNext, Step

\* The invariant of withFileMutationQueue holds in every reachable state.
THEOREM QueueInvariant == QueueSpec => []QueueInv
BY QueueInitInv, QueueStepInv, PTL DEF QueueSpec

\* Types of the queue's state, for any number of calls and any paths.
THEOREM QueueTypeCorrect == QueueSpec => []TypeOK
BY QueueInvariant, PTL DEF QueueInv

\* withFileMutationQueue serializes: operations that resolved to one key never
\* overlap and run in the order of the calls, whatever operations fail,
\* whatever files appear or vanish, and whenever chains leave the map.
THEOREM KeysAreSerialized == QueueSpec => []OneAtATime
BY QueueInvariant, PTL DEF QueueInv

\* The map of chains neither leaks nor forgets: it holds, under each key, the
\* last call that waits or runs.
THEOREM ChainsStayLive == QueueSpec => []ChainsAreLive
BY QueueInvariant, PTL DEF QueueInv

-----------------------------------------------------------------------------
(***************************************************************************)
(* The lines of the keys: what Keep makes of 1, 2, ..., n.                 *)
(***************************************************************************)
\* A line is made by looking at one call after the other.
IsLine(f, S) ==
    /\ f \in [Nat -> Seq(Nat)]
    /\ f[0] = <<>>
    /\ \A m \in Nat : f[m + 1] = IF m + 1 \in S THEN Append(f[m], m + 1) ELSE f[m]

LEMMA LineGrows ==
    ASSUME NEW S
    PROVE  \E f : IsLine(f, S) /\ \A n \in Nat : f[n] = Keep(UpTo(n), S)
<1> DEFINE f == [n \in Nat |-> Keep(UpTo(n), S)]
<1>1. UpTo(0) = <<>>
    BY DEF UpTo
<1>2. ASSUME NEW n \in Nat
      PROVE  UpTo(n) \in Seq(Nat) /\ UpTo(n + 1) = Append(UpTo(n), n + 1)
    BY DEF UpTo
<1>3. ASSUME NEW n \in Nat PROVE Keep(UpTo(n), S) \in Seq(Nat)
    BY <1>2, KeepType
<1>4. ASSUME NEW n \in Nat
      PROVE  Keep(UpTo(n + 1), S) = IF n + 1 \in S THEN Append(Keep(UpTo(n), S), n + 1)
                                    ELSE Keep(UpTo(n), S)
  <2>1. n + 1 \in Nat /\ UpTo(n) \in Seq(Nat)
    BY <1>2
  <2>2. Keep(Append(UpTo(n), n + 1), S)
            = IF n + 1 \in S THEN Append(Keep(UpTo(n), S), n + 1) ELSE Keep(UpTo(n), S)
    <3>1. PICK s \in Seq(Nat), x \in Nat : s = UpTo(n) /\ x = n + 1
        BY <2>1
    <3>2. Keep(Append(s, x), S) = IF x \in S THEN Append(Keep(s, S), x) ELSE Keep(s, S)
        BY KeepAppend
    <3> QED BY <3>1, <3>2
  <2>3. UpTo(n + 1) = Append(UpTo(n), n + 1)
    BY <1>2
  <2> QED BY <2>2, <2>3
<1>5. Keep(UpTo(0), S) = <<>>
    BY <1>1, KeepEmpty
<1>6. /\ f \in [Nat -> Seq(Nat)] /\ f[0] = <<>>
      /\ \A n \in Nat : f[n] = Keep(UpTo(n), S) /\ f[n + 1] = Keep(UpTo(n + 1), S)
    BY <1>3, <1>5
<1> HIDE DEF f
<1>7. IsLine(f, S)
    BY <1>4, <1>6 DEF IsLine
<1> QED BY <1>6, <1>7

\* A call after all of a line goes to its end.
LEMMA LineWithLast ==
    ASSUME NEW n \in Nat, NEW c \in 1..n, NEW S \in SUBSET Nat, \A d \in S : d < c
    PROVE  Keep(UpTo(n), S \cup {c}) = Append(Keep(UpTo(n), S), c)
<1>1. PICK f : IsLine(f, S) /\ \A m \in Nat : f[m] = Keep(UpTo(m), S)
    BY LineGrows
<1>2. PICK g : IsLine(g, S \cup {c}) /\ \A m \in Nat : g[m] = Keep(UpTo(m), S \cup {c})
    BY LineGrows
<1> DEFINE T == {m \in Nat : /\ m < c => g[m] = f[m]
                             /\ c <= m => g[m] = Append(f[m], c)}
<1>3. c \in Nat /\ 0 < c /\ c \notin S
    OBVIOUS
<1>4. 0 \in T
    BY <1>1, <1>2, <1>3 DEF IsLine
<1>5. ASSUME NEW m \in Nat, m \in T PROVE m + 1 \in T
  <2>1. f[m + 1] = IF m + 1 \in S THEN Append(f[m], m + 1) ELSE f[m]
    BY <1>1 DEF IsLine
  <2>2. g[m + 1] = IF m + 1 \in S \cup {c} THEN Append(g[m], m + 1) ELSE g[m]
    BY <1>2 DEF IsLine
  <2>3. CASE m + 1 < c
    <3>1. m + 1 \in S \cup {c} <=> m + 1 \in S
        BY <2>3, <1>3
    <3>2. g[m] = f[m]
      <4>1. m < c
        BY <2>3, <1>3
      <4> QED BY <4>1, <1>5
    <3> QED BY <2>1, <2>2, <2>3, <3>1, <3>2, <1>3
  <2>4. CASE m + 1 = c
    <3>1. g[m] = f[m]
      <4>1. m < c
        BY <2>4, <1>3
      <4> QED BY <4>1, <1>5
    <3> QED BY <2>1, <2>2, <2>4, <3>1, <1>3
  <2>5. CASE m + 1 > c
    <3>1. m + 1 \notin S \cup {c}
        BY <2>5, <1>3
    <3>2. g[m] = Append(f[m], c)
        BY <2>5, <1>3, <1>5
    <3> QED BY <2>1, <2>2, <2>5, <3>1, <3>2, <1>3
  <2> QED BY <2>3, <2>4, <2>5, <1>3
<1>6. n \in T
  <2> HIDE DEF T
  <2> QED BY <1>4, <1>5, InductionOnNat
<1>7. g[n] = Append(f[n], c)
    BY <1>6
<1> QED BY <1>1, <1>2, <1>7

\* The head of a line and those behind it.
LEMMA HeadAndRest ==
    ASSUME NEW c \in Nat, NEW t \in Seq(Nat)
    PROVE  <<c>> \o t # <<>> /\ Head(<<c>> \o t) = c /\ Tail(<<c>> \o t) = t
<1>1. <<c>> \in Seq(Nat) /\ Len(<<c>>) = 1 /\ <<c>>[1] = c
    OBVIOUS
<1>2. <<c>> \o t # <<>> /\ Head(<<c>> \o t) = c
    BY <1>1
<1>3. Tail(<<c>> \o t) = t
    BY <1>1
<1> QED BY <1>2, <1>3

\* To go to the end of a line is to go to the end behind its head.
LEMMA BehindTheHead ==
    ASSUME NEW c \in Nat, NEW t \in Seq(Nat), NEW x \in Nat
    PROVE  Append(<<c>> \o t, x) = <<c>> \o Append(t, x)
<1>1. <<c>> \in Seq(Nat) /\ Len(<<c>>) = 1 /\ <<c>>[1] = c
    OBVIOUS
<1> QED BY <1>1

\* The first call of a line is its head.
LEMMA LineWithoutFirst ==
    ASSUME NEW n \in Nat, NEW c \in 1..n, NEW S \in SUBSET Nat, c \in S, \A d \in S : c <= d
    PROVE  /\ Keep(UpTo(n), S) # <<>>
           /\ Head(Keep(UpTo(n), S)) = c
           /\ Tail(Keep(UpTo(n), S)) = Keep(UpTo(n), S \ {c})
<1>1. PICK f : IsLine(f, S) /\ \A m \in Nat : f[m] = Keep(UpTo(m), S)
    BY LineGrows
<1>2. PICK g : IsLine(g, S \ {c}) /\ \A m \in Nat : g[m] = Keep(UpTo(m), S \ {c})
    BY LineGrows
<1> DEFINE T == {m \in Nat : /\ m < c => f[m] = <<>> /\ g[m] = <<>>
                             /\ c <= m => f[m] = <<c>> \o g[m]}
<1>3. c \in Nat /\ 0 < c
    OBVIOUS
<1>4. 0 \in T
    BY <1>1, <1>2, <1>3 DEF IsLine
<1>5. ASSUME NEW m \in Nat, m \in T PROVE m + 1 \in T
  <2>1. f[m + 1] = IF m + 1 \in S THEN Append(f[m], m + 1) ELSE f[m]
    BY <1>1 DEF IsLine
  <2>2. g[m + 1] = IF m + 1 \in S \ {c} THEN Append(g[m], m + 1) ELSE g[m]
    BY <1>2 DEF IsLine
  <2>3. CASE m + 1 < c
    <3>1. m + 1 \notin S
        BY <2>3, <1>3
    <3>2. f[m] = <<>> /\ g[m] = <<>>
      <4>1. m < c
        BY <2>3, <1>3
      <4> QED BY <4>1, <1>5
    <3> QED BY <2>1, <2>2, <2>3, <3>1, <3>2, <1>3
  <2>4. CASE m + 1 = c
    <3>1. f[m] = <<>> /\ g[m] = <<>>
      <4>1. m < c
        BY <2>4, <1>3
      <4> QED BY <4>1, <1>5
    <3>2. f[m + 1] = Append(<<>>, c) /\ g[m + 1] = <<>>
        BY <3>1, <2>1, <2>2, <2>4
    <3>3. Append(<<>>, c) = <<c>> \o <<>>
        BY <1>3
    <3>4. f[m + 1] = <<c>> \o g[m + 1]
        BY <3>2, <3>3
    <3> QED BY <3>4, <2>4, <1>3
  <2>5. CASE m + 1 > c
    <3>1. f[m] = <<c>> \o g[m]
        BY <2>5, <1>3, <1>5
    <3>2. m + 1 \in S <=> m + 1 \in S \ {c}
        BY <2>5, <1>3
    <3>3. g[m] \in Seq(Nat)
        BY <1>2 DEF IsLine
    <3>4. Append(<<c>> \o g[m], m + 1) = <<c>> \o Append(g[m], m + 1)
      <4>1. PICK t \in Seq(Nat), x \in Nat : t = g[m] /\ x = m + 1
        BY <3>3
      <4>2. Append(<<c>> \o t, x) = <<c>> \o Append(t, x)
        BY <1>3, BehindTheHead, Zenon
      <4> QED BY <4>1, <4>2
    <3>5. f[m + 1] = <<c>> \o g[m + 1]
        BY <3>1, <3>2, <3>4, <2>1, <2>2
    <3> QED BY <3>5, <2>5, <1>3
  <2> QED BY <2>3, <2>4, <2>5, <1>3
<1>6. n \in T
  <2> HIDE DEF T
  <2> QED BY <1>4, <1>5, InductionOnNat
<1>7. f[n] = <<c>> \o g[n]
    BY <1>6
<1>8. g[n] \in Seq(Nat)
    BY <1>2 DEF IsLine
<1>9. f[n] # <<>> /\ Head(f[n]) = c /\ Tail(f[n]) = g[n]
  <2>1. PICK t \in Seq(Nat) : t = g[n]
    BY <1>8
  <2>2. <<c>> \o t # <<>> /\ Head(<<c>> \o t) = c /\ Tail(<<c>> \o t) = t
    BY <1>3, HeadAndRest, Zenon
  <2> QED BY <1>7, <2>1, <2>2
<1> QED BY <1>1, <1>2, <1>9

\* Whoever stands in a line is a live call of its key.
LEMMA LineMembers ==
    ASSUME NEW S, NEW n \in Nat, NEW i \in 1..Len(Keep(UpTo(n), S))
    PROVE  Keep(UpTo(n), S)[i] \in S
<1> DEFINE s == Keep(UpTo(n), S)
<1>1. UpTo(n) \in Seq(Nat)
    BY DEF UpTo
<1>2. s \in Seq(Nat) /\ Range(s) = Range(UpTo(n)) \cap S
    BY <1>1, KeepType, KeepSelects
<1> HIDE DEF s
<1>3. i \in DOMAIN s
    BY <1>2, LenProperties DEF s
<1> QED BY <1>2, <1>3 DEF Range, s

-----------------------------------------------------------------------------
(***************************************************************************)
(* The queue implements the locks, step by step.                           *)
(***************************************************************************)
\* While no call becomes live or settles the lines stay.
LEMMA LinesStay ==
    ASSUME \A k \in Paths : LiveOf(k)' = LiveOf(k)
    PROVE  Lines' = Lines
BY DEF Lines

\* At the start the lines are empty and nobody holds a lock.
LEMMA LocksInit == QueueInit => Locks!Init
<1> SUFFICES ASSUME QueueInit PROVE Lines = [k \in Paths |-> <<>>] /\ Holders = {}
    BY DEF Locks!Init
<1>1. \A k \in Paths : LiveOf(k) = {}
    BY DEF QueueInit, LiveOf, Live
<1>2. UpTo(N) \in Seq(Nat)
    BY NAssumption DEF UpTo
<1>3. Keep(UpTo(N), {}) = <<>>
    BY <1>2, KeepSelects
<1>4. Lines = [k \in Paths |-> <<>>]
    BY <1>1, <1>3 DEF Lines
<1>5. Holders = {}
    BY DEF QueueInit, Holders
<1> QED BY <1>4, <1>5

\* The call with nobody of its key ahead of it is the head of its line.
LEMMA FirstInLine ==
    ASSUME QueueInv, NEW c \in QueueCalls, Live(c),
           \A d \in QueueCalls : d < c /\ key[d] = key[c] => ~Live(d)
    PROVE  /\ key[c] \in Paths
           /\ Lines[key[c]] # <<>> /\ Head(Lines[key[c]]) = c
           /\ Tail(Lines[key[c]]) = Keep(UpTo(N), LiveOf(key[c]) \ {c})
<1>1. key[c] \in Paths /\ N \in Nat /\ c \in 1..N
    BY NAssumption DEF QueueInv, TypeOK, QueueCalls
<1>2. LiveOf(key[c]) \in SUBSET Nat /\ c \in LiveOf(key[c])
    BY <1>1 DEF LiveOf, QueueCalls
<1>3. \A d \in LiveOf(key[c]) : c <= d
    BY <1>1 DEF LiveOf, QueueCalls
<1>4. Lines[key[c]] = Keep(UpTo(N), LiveOf(key[c]))
    BY <1>1 DEF Lines
<1>5. PICK S : S = LiveOf(key[c])
    OBVIOUS
<1>6. S \in SUBSET Nat /\ c \in S /\ \A d \in S : c <= d
    BY <1>2, <1>3, <1>5
<1>7. /\ Keep(UpTo(N), S) # <<>> /\ Head(Keep(UpTo(N), S)) = c
      /\ Tail(Keep(UpTo(N), S)) = Keep(UpTo(N), S \ {c})
    BY <1>1, <1>6, LineWithoutFirst
<1> QED BY <1>1, <1>4, <1>5, <1>7

\* Every step of the queue is a step of the locks, or leaves them alone.
LEMMA QueueSimulates ==
    QueueInv /\ [QueueNext]_queueVars => [Locks!Next]_(Locks!vars)
<1> SUFFICES ASSUME QueueInv, [QueueNext]_queueVars
             PROVE  Locks!Next \/ (Lines' = Lines /\ Holders' = Holders)
    BY DEF Locks!vars
<1>0. TypeOK /\ N \in Nat
    BY NAssumption DEF QueueInv
<1>1. ASSUME NEW c \in QueueCalls, CallMade(c) PROVE Lines' = Lines /\ Holders' = Holders
  <2>1. \A k \in Paths : LiveOf(k)' = LiveOf(k)
    BY <1>0, <1>1 DEF CallMade, LiveOf, Live, TypeOK
  <2>2. Holders' = Holders
    BY <1>0, <1>1 DEF CallMade, Holders, TypeOK
  <2> QED BY <2>1, <2>2, LinesStay
<1>2. ASSUME NEW c \in QueueCalls, ResolveKey(c) PROVE Lines' = Lines /\ Holders' = Holders
  <2>1. \A k \in Paths : LiveOf(k)' = LiveOf(k)
    BY <1>0, <1>2 DEF ResolveKey, LiveOf, Live, TypeOK
  <2>2. Holders' = Holders
    BY <1>0, <1>2 DEF ResolveKey, Holders, TypeOK
  <2> QED BY <2>1, <2>2, LinesStay
<1>3. ASSUME NEW c \in QueueCalls, ResolveFails(c) PROVE Lines' = Lines /\ Holders' = Holders
  <2>1. \A k \in Paths : LiveOf(k)' = LiveOf(k)
    BY <1>0, <1>3 DEF ResolveFails, LiveOf, Live, TypeOK
  <2>2. Holders' = Holders
    BY <1>0, <1>3 DEF ResolveFails, Holders, TypeOK
  <2> QED BY <2>1, <2>2, LinesStay
<1>4. ASSUME NEW c \in QueueCalls, Mutate(c) PROVE Lines' = Lines /\ Holders' = Holders
  <2>1. \A k \in Paths : LiveOf(k)' = LiveOf(k)
    BY <1>4 DEF Mutate, LiveOf, Live
  <2>2. Holders' = Holders
    BY <1>4 DEF Mutate, Holders
  <2> QED BY <2>1, <2>2, LinesStay
<1>5. ASSUME NEW c \in QueueCalls, Register(c) PROVE Locks!Next
  <2>1. /\ key[c] \in Paths /\ c \in 1..N /\ ~Live(c)
        /\ \A d \in QueueCalls : Live(d) => d < c
    BY <1>0, <1>5 DEF Register, QueueInv, TypeOK, RegisteredInOrder, Live, QueueCalls
  <2>0. PICK p \in Paths : p = key[c]
    BY <2>1
  <2>2. /\ LiveOf(p)' = LiveOf(p) \cup {c}
        /\ \A k \in Paths : k # p => LiveOf(k)' = LiveOf(k)
        /\ Holders' = Holders
    BY <1>0, <1>5, <2>0 DEF Register, LiveOf, Live, TypeOK, Holders
  <2>3. /\ LiveOf(p) \in SUBSET Nat
        /\ \A d \in LiveOf(p) : d < c
    BY <1>0, <2>1 DEF LiveOf, QueueCalls
  <2>4. Keep(UpTo(N), LiveOf(p) \cup {c}) = Append(Keep(UpTo(N), LiveOf(p)), c)
    BY <1>0, <2>1, <2>3, LineWithLast
  <2>5. Lines' = [Lines EXCEPT ![p] = Append(@, c)]
    <3>1. /\ Lines = [k \in Paths |-> Lines[k]] /\ Lines' = [k \in Paths |-> Lines'[k]]
          /\ \A k \in Paths : /\ Lines[k] = Keep(UpTo(N), LiveOf(k))
                              /\ Lines'[k] = Keep(UpTo(N), LiveOf(k)')
        BY DEF Lines
    <3>2. Lines'[p] = Append(Lines[p], c)
        BY <3>1, <2>2, <2>4
    <3>3. \A k \in Paths : k # p => Lines'[k] = Lines[k]
        BY <3>1, <2>2
    <3> QED BY <3>1, <3>2, <3>3
  <2>6. ~Locks!InLine(c)
    <3> SUFFICES ASSUME NEW k \in Paths, NEW i \in 1..Len(Lines[k]), Lines[k][i] = c
                 PROVE  FALSE
        BY DEF Locks!InLine
    <3>1. Lines[k] = Keep(UpTo(N), LiveOf(k))
        BY DEF Lines
    <3>2. c \in LiveOf(k)
        BY <1>0, <3>1, LineMembers
    <3> QED BY <2>1, <3>2 DEF LiveOf
  <2>7. Locks!Arrive(c, p)
    BY <2>2, <2>5, <2>6 DEF Locks!Arrive
  <2> QED BY <2>7 DEF Locks!Next
<1>6. ASSUME NEW c \in QueueCalls, Begin(c) PROVE Locks!Next
  <2>1. \A d \in QueueCalls : d < c /\ key[d] = key[c] => ~Live(d)
    \* the call c is chained behind would be live, yet it has released
    BY <1>0, <1>6 DEF Begin, Released, QueueInv, TypeOK, ChainedBehindTheLast, Live,
                      QueueCalls, None
  <2>2. Live(c) /\ c \notin Holders
    BY <1>6 DEF Begin, Live, Holders
  <2>3. Locks!IsFirst(c, key[c]) /\ key[c] \in Paths
    BY <2>1, <2>2, FirstInLine DEF Locks!IsFirst
  <2>4. \A k \in Paths : LiveOf(k)' = LiveOf(k)
    BY <1>0, <1>6 DEF Begin, LiveOf, Live, TypeOK
  <2>5. Holders' = Holders \cup {c}
    BY <1>0, <1>6 DEF Begin, Holders, TypeOK
  <2>6. Lines' = Lines
    BY <2>4, LinesStay
  <2>7. Locks!Enter(c, key[c])
    BY <2>2, <2>3, <2>5, <2>6 DEF Locks!Enter
  <2> QED BY <2>3, <2>7 DEF Locks!Next
<1>7. ASSUME NEW c \in QueueCalls, Finish(c) PROVE Locks!Next
  <2>1. \A d \in QueueCalls : d < c /\ key[d] = key[c] => ~Live(d)
    BY <1>7 DEF Finish, QueueInv, OneAtATime
  <2>2. Live(c) /\ c \in Holders
    BY <1>7 DEF Finish, Live, Holders
  <2>0. PICK p \in Paths : p = key[c]
    BY <1>0 DEF TypeOK
  <2>3. /\ Locks!IsFirst(c, p)
        /\ Tail(Lines[p]) = Keep(UpTo(N), LiveOf(p) \ {c})
    BY <2>0, <2>1, <2>2, FirstInLine DEF Locks!IsFirst
  <2>4. /\ LiveOf(p)' = LiveOf(p) \ {c}
        /\ \A k \in Paths : k # p => LiveOf(k)' = LiveOf(k)
        /\ Holders' = Holders \ {c}
    BY <1>0, <1>7, <2>0 DEF Finish, LiveOf, Live, TypeOK, Holders
  <2>5. Lines' = [Lines EXCEPT ![p] = Tail(@)]
    <3>1. /\ Lines = [k \in Paths |-> Lines[k]] /\ Lines' = [k \in Paths |-> Lines'[k]]
          /\ \A k \in Paths : /\ Lines[k] = Keep(UpTo(N), LiveOf(k))
                              /\ Lines'[k] = Keep(UpTo(N), LiveOf(k)')
        BY DEF Lines
    <3>2. Lines'[p] = Tail(Lines[p])
        BY <3>1, <2>3, <2>4
    <3>3. \A k \in Paths : k # p => Lines'[k] = Lines[k]
        BY <3>1, <2>4
    <3> QED BY <3>1, <3>2, <3>3
  <2>6. Locks!Leave(c, p)
    BY <2>2, <2>3, <2>4, <2>5 DEF Locks!Leave
  <2> QED BY <2>6 DEF Locks!Next
<1>8. CASE UNCHANGED queueVars
  <2>1. \A k \in Paths : LiveOf(k)' = LiveOf(k)
    BY <1>8 DEF queueVars, LiveOf, Live
  <2>2. Holders' = Holders
    BY <1>8 DEF queueVars, Holders
  <2> QED BY <2>1, <2>2, LinesStay
<1> QED BY <1>1, <1>2, <1>3, <1>4, <1>5, <1>6, <1>7, <1>8 DEF QueueNext, Step

\* withFileMutationQueue implements the locks but for their fairness: under each
\* key calls arrive at the end of a line, only its head runs, and only the head
\* leaves, for any number of calls and any paths.
THEOREM QueueImplementsLocks ==
    QueueSpec => Locks!Init /\ [][Locks!Next]_(Locks!vars)
BY QueueInvariant, LocksInit, QueueSimulates, PTL DEF QueueSpec
=============================================================================
