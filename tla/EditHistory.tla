------------------------------ MODULE EditHistory ------------------------------
(***************************************************************************)
(* What AgentSession does around the tools that change files: the guards   *)
(* that refuse a call (packages/coding-agent/src/core/agent-session.ts,    *)
(* beforeToolCall and afterToolCall), the checkpoints behind Undo          *)
(* (core/edit-checkpoints/checkpoint-manager.ts) and the versions under    *)
(* .trek behind `trek revert` (core/trek-store/store.ts).                  *)
(*                                                                         *)
(* The calls of a tool batch are prepared one after the other and then run *)
(* together.  A step runs from one await to the next.  Undo and Keep All   *)
(* come from the keyboard at any time, a crash too; `trek revert` runs     *)
(* while the session is down.                                              *)
(***************************************************************************)
EXTENDS Integers, Sequences, FiniteSets, TLC

CONSTANTS
    Files, Texts,   \* what the tools write to, and what they write
    Absent,         \* in place of a text: there is no such file
    Spellings,      \* ways to write the path of a file
    MaxPrompts,     \* bound: numbered prompts
    MaxCalls,       \* bound: calls of write, edit and `rm`
    MaxOperator     \* bound: Undo, Keep All, abort, crash, revert, prompts that
                    \* overlap calls, failed writes of the session file

ASSUME AbsentAssumption == Absent \notin Texts
ASSUME BoundsAssumption == {MaxPrompts, MaxCalls, MaxOperator} \subseteq Nat

VARIABLES
    files,              \* the disk: [Files -> Texts \cup {Absent}]
    up, running,        \* the session is alive, and its run is not aborted
    prompt,             \* _currentPromptNumber
    active,             \* the calls in hand, by number
    phase, written,     \* the group being prepared or run; the paths, as
                        \* spelled, that its calls write
    owner,              \* _fileMutationOwner, 0 for none
    cached, inFlight,   \* _idempotency and _idempotencyInFlight
    applied,            \* _appliedEdits
    batches, saved,     \* the checkpoints, and the latest in the session file
    undo,               \* the undo in progress: what to restore, what to keep
    manifest, artifacts,\* .trek/manifest.json and the versions it refers to
    torn,               \* the manifest is truncated and not yet written
    made, operated,     \* counters for the bounds
    start,              \* history: the disk when each prompt began, << >> for
                        \* those numbered in the middle of calls and those an
                        \* undo or a revert has gone behind
    raced, gap, undone, \* history: see the properties
    unsaved             \* history: the session file could not be written and
                        \* has not been since

guards == <<owner, cached, inFlight, applied>>
checkpoints == <<batches, saved, undo>>
store == <<manifest, artifacts, torn>>
history == <<start, raced, gap, undone, unsaved>>
vars == <<files, up, running, prompt, active, phase, written, guards,
          checkpoints, store, made, operated, history>>

(***************************************************************************)
(* Calls.  A file is one text; an edit replaces the text old by new.       *)
(***************************************************************************)
Names == Files \X Spellings
FileOf(call) == call.name[1]                               \* resolveToCwd

Call(tool, name, old, new) ==
    [tool |-> tool, name |-> name, old |-> old, new |-> new]
Calls ==
    {Call("write", n, Absent, t) : n \in Names, t \in Texts}
      \cup {c \in {Call("edit", n, t, u) : n \in Names, t \in Texts, u \in Texts} :
                c.old # c.new}
      \cup {Call("rm", n, Absent, Absent) : n \in Names}

InHand(call) ==
    [call |-> call, pc |-> "safety", prompt |-> 0, before |-> Absent, snap |-> << >>]

Without(f, x) == [y \in DOMAIN f \ {x} |-> f[y]]
With(f, x, v) == [y \in DOMAIN f \cup {x} |-> IF y = x THEN v ELSE f[y]]

(* The disk with the texts put back. *)
Restored(texts) ==
    [f \in Files |-> IF f \in DOMAIN texts THEN texts[f] ELSE files[f]]

Prompts == 1..MaxPrompts
Numbers == 1..MaxCalls
Mutates(call) == call.tool \in {"write", "edit"}
Preparing == {i \in DOMAIN active : active[i].pc \in {"safety", "capture", "hook"}}

Init ==
    /\ files \in [Files -> Texts \cup {Absent}]
    /\ up = TRUE /\ running = FALSE
    /\ prompt = 0 /\ start = << >>
    /\ active = << >> /\ phase = "open" /\ written = {}
    /\ owner = [f \in Files |-> 0]
    /\ cached = {} /\ inFlight = {} /\ applied = {}
    /\ batches = << >> /\ saved = << >> /\ undo = << >>
    /\ manifest = << >> /\ artifacts = << >> /\ torn = FALSE
    /\ made = 0 /\ operated = 0
    /\ raced = FALSE /\ gap = FALSE /\ undone = FALSE /\ unsaved = FALSE

(* Bound: after a race Undo and revert promise nothing more, and neither a
   prompt, a call nor an operator's action follows. *)
Operates == ~raced /\ operated < MaxOperator /\ operated' = operated + 1

(***************************************************************************)
(* A prompt is numbered and run.  The keys of the idempotence caches hold  *)
(* the number, so what they hold of earlier prompts is never found again.  *)
(* A prompt that comes while another one's calls are in hand gets a number *)
(* too, which those calls use from then on, and is refused by the agent.   *)
(***************************************************************************)
Numbered ==
    /\ up /\ prompt < MaxPrompts /\ ~raced
    /\ prompt' = prompt + 1
    /\ cached' = {} /\ inFlight' = {} /\ applied' = {}
    /\ raced' = (raced \/ undo # << >>)
    /\ UNCHANGED <<files, up, active, owner, checkpoints, store, made, undone,
                   unsaved>>

NewPrompt ==
    /\ Numbered /\ active = << >>
    /\ start' = Append(start, files)
    /\ running' = TRUE
    /\ phase' = "open" /\ written' = {}
    /\ UNCHANGED <<operated, gap>>

PromptOverlaps ==
    /\ Numbered /\ active # << >> /\ Operates
    /\ start' = Append(start, << >>)
    /\ gap' = TRUE
    /\ UNCHANGED <<running, phase, written>>

(***************************************************************************)
(* beforeToolCall.  The batch planner closes a group when a path is        *)
(* written again as it was spelled; `rm` has a group of its own.  The      *)
(* guard compares resolved paths.                                          *)
(***************************************************************************)
Joins(call) ==
    \/ /\ active = << >>
       /\ written' = {call.name}
       /\ phase' = IF call.tool = "rm" THEN "alone" ELSE "open"
    \/ /\ phase = "open" /\ written # {}
       /\ Mutates(call) /\ call.name \notin written
       /\ written' = written \cup {call.name}
       /\ UNCHANGED phase

(* the busy check compares the paths as the model spelled them *)
BusySpelled(call) ==
    /\ Mutates(call)
    /\ \E i \in DOMAIN active : active[i].call.name = call.name
Busy(call) == Mutates(call) /\ owner[FileOf(call)] # 0

Arrives(call) ==
    /\ up /\ running /\ Preparing = {} /\ ~raced
    /\ made < MaxCalls /\ made' = made + 1
    /\ Joins(call)
    /\ raced' = (raced \/ undo # << >>)

Start(call) ==
    /\ Arrives(call) /\ ~Busy(call)
    /\ active' = With(active, made', InHand(call))
    /\ owner' = IF Mutates(call) THEN [owner EXCEPT ![FileOf(call)] = made']
                                 ELSE owner
    /\ UNCHANGED <<files, up, running, prompt, cached, inFlight, applied,
                   checkpoints, store, operated, start, gap, undone, unsaved>>

RefusedBusy(call) ==
    /\ Arrives(call) /\ Busy(call)
    /\ UNCHANGED <<files, up, running, prompt, active, owner, cached, inFlight,
                   applied, checkpoints, store, operated, start, gap, undone,
                   unsaved>>

(***************************************************************************)
(* The safety check has answered.  What follows is one step, up to the     *)
(* read of the file: the lookup of a repeated call, the edit that puts     *)
(* back what an earlier one replaced, and the batch of the checkpoint.     *)
(***************************************************************************)
Release(i) == owner' = [f \in Files |-> IF owner[f] = i THEN 0 ELSE owner[f]]
Drop(i) == active' = Without(active, i)
To(i, pc) == active' = [active EXCEPT ![i].pc = pc]

StillNeeded(call) ==
    /\ call.tool = "edit"
    /\ files[FileOf(call)] \in {call.old, Absent}

Repeated(call) == Mutates(call) /\ call \in cached /\ ~StillNeeded(call)
Running(call) == Mutates(call) /\ call \notin cached /\ call \in inFlight
PutsBack(call) ==
    /\ call.tool = "edit"
    /\ <<FileOf(call), call.new, call.old>> \in applied

Looked(i) ==
    /\ i \in DOMAIN active /\ active[i].pc = "safety"
    /\ UNCHANGED <<files, up, running, prompt, phase, written, applied, saved,
                   undo, store, made, operated, history>>

Refused(i) == Release(i) /\ Drop(i)

Unsafe(i) ==
    /\ Looked(i) /\ Refused(i)
    /\ UNCHANGED <<cached, inFlight, batches>>

RefusedRepeat(i) ==
    /\ Looked(i) /\ Repeated(active[i].call) /\ Refused(i)
    /\ UNCHANGED <<cached, inFlight, batches>>

RefusedRunning(i) ==
    /\ Looked(i) /\ Running(active[i].call) /\ Refused(i)
    /\ UNCHANGED <<cached, inFlight, batches>>

Noted(call) ==
    /\ cached' = cached \ {call}
    /\ inFlight' = IF call \in cached \/ ~Mutates(call) THEN inFlight \ {call}
                                                       ELSE inFlight \cup {call}

RefusedPutBack(i) ==
    /\ Looked(i)
    /\ ~Repeated(active[i].call) /\ ~Running(active[i].call)
    /\ PutsBack(active[i].call)
    /\ Noted(active[i].call) /\ Refused(i)
    /\ UNCHANGED batches

(* the pre-image is read again by every call of the prompt *)
HasPreImageNever(f) == FALSE
HasPreImage(f) == prompt \in DOMAIN batches /\ f \in DOMAIN batches[prompt]

BatchFor(bs) == IF prompt \in DOMAIN bs THEN bs ELSE With(bs, prompt, << >>)

Looks(i) ==
    LET call == active[i].call IN
    /\ Looked(i) /\ ~Repeated(call) /\ ~Running(call) /\ ~PutsBack(call)
    /\ Noted(call)
    /\ batches' = BatchFor(batches)
    /\ active' = [active EXCEPT
          ![i].pc = IF HasPreImage(FileOf(call)) THEN "hook" ELSE "capture",
          ![i].prompt = prompt]
    /\ UNCHANGED owner

(* the session file is appended to, which may fail *)
SaveCheckpoints(ok) ==
    /\ saved' = IF ok THEN batches' ELSE saved
    /\ unsaved' = ~ok

(* A save that fails rejects beforeToolCall: the call has an error result,
   and its path and its key stay reserved. *)
Capture(i) ==
    LET f == FileOf(active[i].call) m == active[i].prompt IN
    /\ i \in DOMAIN active /\ active[i].pc = "capture"
    /\ batches' = IF m \in DOMAIN batches
                  THEN [batches EXCEPT ![m] = With(@, f, files[f])]
                  ELSE batches
    /\ \/ SaveCheckpoints(TRUE) /\ To(i, "hook") /\ UNCHANGED operated
       \/ SaveCheckpoints(FALSE) /\ Drop(i) /\ Operates
    /\ UNCHANGED <<files, up, running, prompt, phase, written, guards, undo,
                   store, made, start, raced, gap, undone>>

(* The file cannot be read: the error is logged and the call goes on. *)
CaptureFails(i) ==
    /\ i \in DOMAIN active /\ active[i].pc = "capture"
    /\ To(i, "hook")
    /\ raced' = TRUE
    /\ UNCHANGED <<files, up, running, prompt, phase, written, guards,
                   checkpoints, store, made, operated, start, gap, undone, unsaved>>

(***************************************************************************)
(* The extension's answer, and prepareToolCall after it: an abort during   *)
(* beforeToolCall ends the call there, and nothing is released.            *)
(***************************************************************************)
Hook(i) ==
    /\ i \in DOMAIN active /\ active[i].pc = "hook"
    /\ \/ running /\ To(i, "ready") /\ UNCHANGED owner
       \/ Drop(i) /\ Release(i)
       \/ ~running /\ Drop(i) /\ UNCHANGED owner
    /\ UNCHANGED <<files, up, running, prompt, phase, written, cached, inFlight,
                   applied, checkpoints, store, made, operated, history>>

RunGroup ==
    /\ phase # "run" /\ Preparing = {} /\ active # << >>
    /\ phase' = "run" /\ written' = {}
    /\ UNCHANGED <<files, up, running, prompt, active, guards,
                   checkpoints, store, made, operated, history>>

(***************************************************************************)
(* The tool runs, and afterToolCall up to the read of the manifest.  An    *)
(* edit needs its old text.  An aborted tool fails before it writes, or    *)
(* after: then the file has changed and the call counts as failed.         *)
(***************************************************************************)
CanRun(call) == call.tool = "edit" => files[FileOf(call)] = call.old

Ended(i) ==
    /\ i \in DOMAIN active /\ active[i].pc = "ready" /\ phase = "run"
    /\ Release(i)
    /\ inFlight' = inFlight \ {active[i].call}
    /\ UNCHANGED <<up, running, prompt, phase, written, checkpoints, store,
                   made, operated, start, raced, undone, unsaved>>

Succeeds(i) ==
    LET call == active[i].call f == FileOf(call) IN
    /\ Ended(i) /\ CanRun(call)
    /\ files' = [files EXCEPT ![f] = call.new]
    /\ cached' = IF Mutates(call) THEN cached \cup {call} ELSE cached
    /\ applied' = IF call.tool = "edit"
                  THEN applied \cup {<<f, call.old, call.new>>} ELSE applied
    /\ IF HasPreImage(f)
       THEN active' = [active EXCEPT ![i].pc = "load", ![i].prompt = prompt,
                                     ![i].before = batches[prompt][f]]
       ELSE Drop(i)
    /\ UNCHANGED gap

Fails(i) ==
    /\ Ended(i) /\ Drop(i)
    /\ \/ UNCHANGED <<files, gap>>
       \/ /\ ~running /\ CanRun(active[i].call)
          /\ files' = [files EXCEPT ![FileOf(active[i].call)] = active[i].call.new]
          /\ gap' = TRUE
    /\ UNCHANGED <<cached, applied>>

(***************************************************************************)
(* TrekVersionStore.record.  The manifest is loaded, the pre-image goes    *)
(* into the artifact of the file's next version, the manifest is opened,   *)
(* which truncates it, and written.  A manifest that cannot be parsed      *)
(* counts as empty.                                                        *)
(***************************************************************************)
Recording == {i \in DOMAIN active : active[i].pc \in {"open", "save"}}
LoadManifest == IF torn THEN << >> ELSE manifest

RecordLoads(i) ==
    /\ i \in DOMAIN active /\ active[i].pc = "load"
    /\ active' = [active EXCEPT ![i].pc = "open", ![i].snap = LoadManifest]
    /\ gap' = (gap \/ Recording # {})
    /\ UNCHANGED <<files, up, running, prompt, phase, written, guards,
                   checkpoints, store, made, operated, start, raced, undone, unsaved>>

VersionsOf(m, f) ==
    {r.to : r \in {r \in UNION {{m[p][k] : k \in DOMAIN m[p]} : p \in DOMAIN m} :
                      r.file = f}}
NextVersion(m, f) ==
    IF VersionsOf(m, f) = {} THEN 1
    ELSE 1 + CHOOSE v \in VersionsOf(m, f) : \A w \in VersionsOf(m, f) : w <= v

(* every record starts the entry of its prompt anew *)
RecordedAlone(m, p, f) == With(m, p, <<[file |-> f, to |-> NextVersion(m, f)]>>)
Recorded(m, p, f) ==
    LET old == IF p \in DOMAIN m THEN m[p] ELSE << >>
    IN  With(m, p, Append(old, [file |-> f, to |-> NextVersion(m, f)]))

RecordOpens(i) ==
    LET f == FileOf(active[i].call) IN
    /\ i \in DOMAIN active /\ active[i].pc = "open"
    /\ artifacts' = With(artifacts, <<f, NextVersion(active[i].snap, f)>>,
                         active[i].before)
    /\ torn' = TRUE
    /\ To(i, "save")
    /\ UNCHANGED <<files, up, running, prompt, phase, written, guards,
                   checkpoints, manifest, made, operated, history>>

RecordSaves(i) ==
    /\ i \in DOMAIN active /\ active[i].pc = "save"
    /\ manifest' = Recorded(active[i].snap, active[i].prompt, FileOf(active[i].call))
    /\ torn' = FALSE
    /\ Drop(i)
    /\ UNCHANGED <<files, up, running, prompt, phase, written, guards,
                   checkpoints, artifacts, made, operated, history>>

(***************************************************************************)
(* Undo and Keep All.  An undo of prompt m and the later ones restores,    *)
(* file by file, the earliest of their pre-images, and then keeps as many  *)
(* batches as were before them.                                            *)
(***************************************************************************)
Least(S) == CHOOSE p \in S : \A q \in S : p <= q

EarliestPreImages(bs, m) ==
    LET later == {p \in DOMAIN bs : p >= m}
        touched == UNION {DOMAIN bs[p] : p \in later}
    IN  [f \in touched |->
            bs[Least({p \in later : f \in DOMAIN bs[p]})][f]]

FirstBatches(bs, n) ==
    LET kept == {p \in DOMAIN bs :
                    Cardinality({q \in DOMAIN bs : q < p}) < n}
    IN  [p \in kept |-> bs[p]]

Restart(m, disk) == [p \in DOMAIN start |-> IF p >= m THEN disk ELSE start[p]]
Forget(m) == [p \in DOMAIN start |-> IF p > m THEN << >> ELSE start[p]]

UndoStarts(m) ==
    /\ up /\ undo = << >> /\ m \in DOMAIN batches /\ Operates
    /\ undo' = [from |-> m, todo |-> EarliestPreImages(batches, m),
                keep |-> Cardinality({p \in DOMAIN batches : p < m})]
    /\ start' = Forget(m)
    /\ raced' = (raced \/ active # << >>)
    /\ undone' = TRUE
    /\ UNCHANGED <<files, up, running, prompt, active, phase, written, guards,
                   batches, saved, store, made, gap, unsaved>>

UndoRestores(f) ==
    /\ undo # << >> /\ f \in DOMAIN undo.todo
    /\ files' = [files EXCEPT ![f] = undo.todo[f]]
    /\ undo' = [undo EXCEPT !.todo = Without(@, f)]
    /\ UNCHANGED <<up, running, prompt, active, phase, written, guards, batches,
                   saved, store, made, operated, history>>

UndoEnds ==
    /\ undo # << >> /\ undo.todo = << >>
    /\ batches' = FirstBatches(batches, undo.keep)
    /\ \/ SaveCheckpoints(TRUE) /\ UNCHANGED operated
       \/ SaveCheckpoints(FALSE) /\ Operates
    /\ undo' = << >>
    /\ start' = Restart(undo.from, files)
    /\ UNCHANGED <<files, up, running, prompt, active, phase, written, guards,
                   store, made, raced, gap, undone>>

KeepAll ==
    /\ up /\ batches # << >> /\ Operates
    /\ batches' = << >> /\ \E ok \in BOOLEAN : SaveCheckpoints(ok)
    /\ start' = Restart(1, files)
    /\ raced' = (raced \/ active # << >> \/ undo # << >>)
    /\ undone' = TRUE
    /\ UNCHANGED <<files, up, running, prompt, active, phase, written, guards,
                   undo, store, made, gap>>

Abort ==
    /\ up /\ running /\ active # << >> /\ Operates
    /\ running' = FALSE
    /\ UNCHANGED <<files, up, prompt, active, phase, written, guards,
                   checkpoints, store, made, history>>

(***************************************************************************)
(* The process ends at any step.  While it is down `trek revert` may run;  *)
(* resuming the session reads its checkpoints back.                        *)
(***************************************************************************)
Crash ==
    /\ up /\ Operates
    /\ up' = FALSE /\ running' = FALSE
    /\ active' = << >> /\ owner' = [f \in Files |-> 0]
    /\ cached' = {} /\ inFlight' = {} /\ applied' = {}
    /\ batches' = << >> /\ undo' = << >>
    /\ gap' = (gap \/ \E i \in DOMAIN active :
                         active[i].pc \in {"load", "open", "save"})
    /\ undone' = (undone \/ undo # << >>)
    /\ raced' = (raced \/ unsaved)
    /\ UNCHANGED <<files, prompt, phase, written, saved, store, made, start, unsaved>>

Resume ==
    /\ ~up /\ up' = TRUE
    /\ batches' = [p \in {p \in DOMAIN saved : saved[p] # << >>} |-> saved[p]]
    /\ UNCHANGED <<files, running, prompt, active, phase, written, guards, saved,
                   undo, store, made, operated, history>>

EarliestVersions(m, from) ==
    LET later == {p \in DOMAIN m : p >= from}
        all == UNION {{p} \X DOMAIN m[p] : p \in later}
        Of(f) == {x \in all : m[x[1]][x[2]].file = f}
        First(f) == CHOOSE x \in Of(f) : \A y \in Of(f) :
                       x[1] < y[1] \/ (x[1] = y[1] /\ x[2] <= y[2])
    IN  [f \in {g \in Files : Of(g) # {}} |->
            artifacts[<<f, m[First(f)[1]][First(f)[2]].to>>]]

Revert(m) ==
    /\ ~up /\ m \in DOMAIN start /\ Operates
    /\ files' = Restored(EarliestVersions(LoadManifest, m))
    /\ manifest' = [p \in {p \in DOMAIN LoadManifest : p < m} |-> LoadManifest[p]]
    /\ torn' = FALSE
    /\ start' = Forget(m)
    /\ raced' = (raced \/ gap \/ undone \/ start[m] = << >>)
    /\ UNCHANGED <<up, running, prompt, active, phase, written, guards,
                   checkpoints, artifacts, made, gap, undone, unsaved>>

Next ==
    \/ NewPrompt \/ PromptOverlaps
    \/ \E c \in Calls : Start(c) \/ RefusedBusy(c)
    \/ \E i \in Numbers :
         \/ Unsafe(i) \/ RefusedRepeat(i) \/ RefusedRunning(i)
         \/ RefusedPutBack(i) \/ Looks(i) \/ Capture(i) \/ CaptureFails(i)
         \/ Hook(i) \/ Succeeds(i) \/ Fails(i)
         \/ RecordLoads(i) \/ RecordOpens(i) \/ RecordSaves(i)
    \/ RunGroup
    \/ \E m \in Prompts : UndoStarts(m) \/ Revert(m)
    \/ \E f \in Files : UndoRestores(f)
    \/ UndoEnds \/ KeepAll \/ Abort \/ Crash \/ Resume

Spec == Init /\ [][Next]_vars

Symmetry == Permutations(Files) \cup Permutations(Texts)

-----------------------------------------------------------------------------

(* OneWriterPerFile: of the calls that may still write, no two are for the
   same file, whichever way each spells its path, symbolic links aside: the
   guard reserves the resolved path from the start of beforeToolCall to the end
   of the tool.  The tools' result is then the same in whatever order a group
   runs (_fileMutationBusy, afterToolCall). *)
OneWriterPerFile ==
    \A i, j \in DOMAIN active :
        /\ i # j
        /\ {active[i].pc, active[j].pc} \subseteq {"safety", "capture", "hook", "ready"}
        => FileOf(active[i].call) # FileOf(active[j].call)

(* UndoReachesStart: at any moment, in the middle of calls, undos and after a
   crash, undoing to prompt #m would give back the disk as it was before #m:
   the pre-image of a file is in memory and in the session file before the
   file is first changed, and the earliest one wins.  A prompt numbered in the
   middle of another one's calls has no such disk, nor has one that an undo or
   a revert has gone behind; after a failed write of the session file the
   promise is the memory's alone until the next one.  Nothing is promised after
   an undo or a Keep All that overlapped calls, a pre-image that could not be
   read, a crash while the session file was behind, and a revert to a prompt
   whose versions are not those of RevertReachesStart
   (EditCheckpointManager, _captureEditCheckpoint). *)
UndoReachesStart ==
    ~raced =>
        \A bs \in (IF up THEN {batches} ELSE {}) \cup (IF unsaved THEN {} ELSE {saved}) :
            \A m \in 1..prompt :
                start[m] # << >> => Restored(EarliestPreImages(bs, m)) = start[m]

(* RevertReachesStart: `trek revert --prompt m` would give back the disk as it
   was before prompt #m, whenever no changed file still waits for its record,
   and goes on to do so after reverts.  Except after two records overlapped, a
   crash cut one short, an aborted tool wrote and failed, or a prompt was
   numbered in the middle of calls, each of which leaves the history with a
   gap, and after an undo, which the history does not hear of
   (TrekVersionStore). *)
RevertReachesStart ==
    /\ ~raced /\ ~gap /\ ~undone
    /\ \A i \in DOMAIN active : active[i].pc \notin {"load", "open", "save"}
    => \A m \in 1..prompt :
         start[m] # << >> => Restored(EarliestVersions(LoadManifest, m)) = start[m]
=============================================================================
