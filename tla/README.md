# Verification of trek's agent core

TLA+ models of the parts of trek that carry its concurrency, ordering and
recovery logic: the agent loop and its tool execution, the `Agent` class, the
`AgentHarness` and its session file, the coding agent's session (prompts, retries,
compaction, undo and version history), its persisted form, the planner that
groups tool calls, and the queue that serializes file mutations.  TLC checks the
models on small instances; TLAPS proves their safety invariants for every value of
their constants.

`PROJECT.json` lists the runs with their configurations, for example
`tlc -config Agent.cfg Agent`; `tlapm AgentProofs.tla` checks the proofs of a
proof module.

## 1. The system

trek is a TypeScript monorepo: `packages/agent` (a provider-independent agent),
`packages/ai` (providers), `packages/coding-agent` (the application: tools,
sessions, extensions, modes) and `packages/tui`.  It is single-threaded: code
runs from one `await` to the next without interruption, and everything that is
awaited (a provider, a tool, an event listener, an extension hook, a file) may
take any time, fail, or call back into the agent.  This is where the hard cases
come from, and a step of a model runs from one such await to the next.

### Inventory

| Component | State | Operations | Works with | What makes it correct |
| --- | --- | --- | --- | --- |
| Tool execution (`agent-loop.ts`, `executeToolCalls`) | status of each call of a message, results emitted | prepare, run, finalize, emit result, next group, terminate | hooks, listeners, abort signal, `partitionToolCalls` | results in source order, groups one after another, every started call answered, always ends |
| Turns (`agent-loop.ts`, `runLoop`) | loop context, pending messages | inject, ask, execute tools, poll steering and follow-ups | queues of the `Agent` | the model sees the transcript, no message lost or doubled |
| `Agent` (`agent.ts`) | transcript, queues, active run, pending tools | prompt, continue, steer, followUp, abort, reset, clear, modes | the loop through `processEvents` | runs settle, flags tell the truth, failures are contained |
| `AgentHarness` | phase, run promise, abort controller, pending session writes, three queues | prompt/skill/template, steer, followUp, nextTurn, writes, compact, navigateTree, abort | loop, session, hooks | writes kept once and in order, one operation at a time, phase released |
| Harness session (`harness/session`) | entries, leaf, JSONL file | asynchronous appends, moveTo, open | file system, harness | a file that parses opens to a tree, reopening gives the leaf of memory |
| `SessionManager` (coding agent) | entries, leaf, indexes, JSONL file, append descriptor | append, label, branch, extract, reopen, fork | file system | what is acknowledged is durable, file and memory agree, tree well-founded |
| Tool schedule (`process-schedule.ts`) | groups under construction | classify, plan | `executeToolCalls` | partition in order, no dependent calls together |
| File mutation queue | chains by key, registration queue | register, run, release | edit and write tools | one at a time for a key, in order, no leak, no starvation |
| Agent session (`agent-session.ts`), prompts | queues, last answer, retry count, overflow flag, abort controllers, pending bash results | prompt, steer, followUp, abort, compact, retry, auto-compaction, bash | `Agent`, `SessionManager`, the front ends | context well formed and persisted, nothing stranded, recovery bounded, accepted prompts delivered |
| Agent session, tool hooks | file ownership, idempotency caches, applied edits | beforeToolCall, afterToolCall | tools, checkpoints, trek store | one writer for a file, repeated calls refused |
| Edit checkpoints (`checkpoint-manager.ts`) | pre-images by prompt | capture, undo, keepAll, hydrate | agent session | undo gives back the state before the prompt, after a crash too |
| Trek store (`trek-store/store.ts`) | manifest, version artifacts | record, restoreToPrompt | agent session, `trek revert` | revert gives back the state before the prompt |
| Compaction (both packages) | none (entries of the session) | boundary, cut, summary, context, branch summary | sessions | nothing is forgotten, cuts never split a call from its result |
| Front ends (`rpc-mode.ts`, `interactive-mode.ts`) | messages held during a compaction | prompt command, submit, hold, flush, Escape | agent session | what was accepted is delivered |
| Providers, TUI, modes, extensions, settings, auth, package manager, export, memory, reflective loop, safety | mostly I/O, formatting, configuration, predicates | | | |

The hard behaviours, each at its line, are the `hazards` of `PROJECT.json`; where a
property covers a hazard only in part, its note says which cases are excepted.

### How the parts meet in the models

`Agent` extends `ToolBatch` (the tool calls of a turn are a batch whose
variables are part of the agent's state) and `PendingMessageQueue` (the drain of
a queue), which `AgentHarness` uses too.  `ToolTurn` composes `ToolSchedule` and
`ToolBatch`: the groups that one plans are the groups that the other executes.
`FileMutationQueue` instantiates the abstract `FileLocks`.  `SessionManager`,
`AgentSession` and `FileMutationQueue` share `SeqFilter`: its `Keep` is
`Array.prototype.filter`, as a recursive function that can be reasoned about.
Modules whose proofs are kept together name their specifications apart
(`ScheduleSpec`, `SessionSpec`, `QueueSpec`, `StorageSpec`).  `AgentSession` keeps
of a run what the session sees of it, and of a compaction only that there is a
cut; `Compaction` is about the cut, and `EditHistory` about the hooks around the
tools of a run.

## 2. The modules

### ToolBatch

The calls `1..size` of one assistant message, in source order.  `plan` gives
each call its group; sequential execution is the plan in which each call is a
group of its own, which is what the loop of `executeToolCallsSequential` does.
`status` follows a call through `tool_execution_start` ("started"),
`prepareToolCall` ("prepared", or at once "ended" for an immediate result),
`executePreparedToolCall` ("running") and `tool_execution_end` ("ended").
`PrepareImmediate`, `PrepareRunnable`, `StartNextCall`, `RunGroup`,
`FinishTool`, `EmitResult`, `NextGroup` and `FinishBatch` are the steps between
the awaits; `Abort` may happen between any two of them, and `Throw` is a listener
that rejects at `tool_execution_start`, at `tool_execution_end` or at a result
message, after which tools that run end on their own (`OrphanEnds`).  Left out:
names, arguments and contents; partial results (`tool_execution_update`).

### PendingMessageQueue, Agent

`pc` is where the loop is; "idle" is the absence of `activeRun`.  `transcript`
is `_state.messages`, `context` the loop's own messages, `pending` what the loop
has taken from a queue and not announced.  The loop's actions follow `runLoop`
in order; `Throw...` actions are listeners and hooks that reject at each
kind of await, `Unwind` and `HandleRunFailure` what `runWithLifecycle` makes of
it.  `orphans` are the tools that outlive a failed run.  The application's calls
are actions enabled whenever the code allows them: that `prompt` and `continue`
throw while a run is active is the guard `~Active`.  `gone` is a history
variable: messages cleared, reset, or in flight when their run failed, so that
`MessagesConserved` says where every message is.  Streaming of one answer is one
step: `message_update` changes only the partial message shown.

### AgentHarness

A run is one call of `prompt`, `skill` or `promptFromTemplate` with its own
program counter, because `phase` is all that a new operation asks for (`MayStart`),
and it is idle again before the `agent_end` and `settled` listeners of a run and its
last flush: the next operation may start in one of them, or beside them.  Two things
then go wrong in the code, and history variables say to what: writes that were
pending while two flushes were under way at once (`crowded`, `exposed`), and
operations met by a run that fails after its `agent_end`, whose `catch` makes the
harness idle and whose failure report comes late (`late`, `disturbed`, `mixed`).  The
properties hold of everything else.  `FlushPeek` and `FlushAppend` are the two
halves of an iteration of `flushPendingSessionWrites`, before and after the
awaited append.  `Throws` is any hook, listener or session append that rejects;
`recovering` says that `emitRunFailure` is already under way.  `compact` and
`navigateTree` are one structural operation with a begin and an end: between
them they touch none of this state.  The session's appends are atomic here, and
the queue modes are the default.

### SessionManager

All operations are synchronous, so each is an action.  An entry is its id,
parent, type and target; `Types` keeps the distinctions the code makes (user,
assistant, label, cleared label, others).  The file is a sequence of lines; a
line that was cut off has no newline, and the next append continues it
(`Extend`), as the bytes in the file do.  An append or a rewrite that fails may leave
nothing, whole lines, or a last line that is cut off, with all of its JSON or a part.
`damaged` is a history variable: since the file was opened a line of it was cut off,
or the rewrite of an extracted session failed before its header while the manager
takes the file as written (`Damage`); what the code appends after that may be lost,
or stand in a file without header.  `Reopen` is a
restart or a resume: memory is rebuilt from the file alone.  `failed` is a
history variable: the entries whose append threw.  Left out: migration of old
versions, the in-memory mode and listing; that the
rewrite of an unreadable file in `setSessionFile` and the write of `forkFrom`
succeed is assumed.

### FileLocks, FileMutationQueue, MCFileMutationQueue

Calls are numbered in the order they are made.  `ResolveKey` and `Register` are
the two sides of the await of `realpath`; `MyTurn` is the registration queue;
`behind` is the chain a call waits for.  `Real` gives the file a path stands
for, so that links can be modelled; files appear and vanish while operations run
(`Mutate`).  `FileLocks` is the promise: a line for each key, first come first
served, fair.  `Lines` and `Holders` are the refinement mapping: the line of a key
is its live calls in their order.

### ToolSchedule, ToolTurn

`ToolSchedule`: one turn of the loop of `planToolGroups` for each step.
`classifyCall` becomes `Kind` and `Target`; of a command only `bashMutates`
matters.  `ToolTurn`: a batch of calls of every kind is planned (`PlanStep`, as
`agent.partitionToolCalls` does) and executed (`Execute`, then the actions of
`ToolBatch`), or executed sequentially without a plan.

### AgentSession

An input is one call of `prompt()` with a program counter: "input" (the hooks of
the input run), "preflight" (`_checkCompaction` before sending), "send",
"running", then `_handlePostAgentRun` ("post", "sleep", "compacting",
"continue") until "finish".  `frontEnd` is the RPC mode, which sends any prompt at
any time, or the interactive mode, which sends typed input only as
`setupEditorSubmitHandler` allows, holds it during a compaction and flushes it at
`compaction_end` (`FlushHeld`).  RPC's `steer` and `follow_up` queue a message
whatever the agent does (`QueueDirectly`); if no prompt is underway that would come
to it, it waits for the next one (`strays`).  A compaction may take any of the last
`MaxCuts` cut points.  Answers differ in why they stop and in what
`_checkCompaction` and `_isRetryableError` make of them; an answer's era is the
number of compactions before its request, which stands for the comparison of
timestamps.  `CompactStarts`, `CompactPrepares` and `CompactEnds` are `compact()`
between its awaits: while it runs the session does not listen to the agent.
History variables: `overlapped` (two prompts underway), `cut` (a run that the
session did not hear), `burst` (errors in a row; a good answer and whatever the user
does, a new prompt included, starts the count anew: `Intervened`).  Left out: the model ladder
(`_maybeEscalate...`), which makes a run continue with another model; the
reflective loop; extension commands; retries and auto-compaction switched off.

### EditHistory

A file is one text, a path is a file and a spelling.  A call goes through
"safety", "capture" and "hook" (the awaits of `beforeToolCall`), is "ready", runs
when its group does, and after success writes its version ("load", "open",
"save": the awaits of `TrekVersionStore.record`).  `written` and `Joins` are the
planner's part.  `UndoStarts`, `UndoRestores` and `UndoEnds` are the steps of
`_undoSuffix`; `Crash` drops memory, `Resume` is `hydrate`, and `Revert` is
`trek revert` while the session is down, as one step.  A prompt that comes while
another one's calls are in hand is numbered, and refused by the agent later
(`PromptOverlaps`): the calls go on under its number.  A save of the session file may
fail, which rejects `beforeToolCall` and leaks the reservation of the path
(`Capture`).  History variables: `start` (the disk when each prompt began, none for an
overlapping prompt or one that an undo or a revert went behind), `raced` (an undo or a
Keep All overlapped calls, a pre-image could not be read, a crash came while the
session file was behind, a revert had no sound versions), `gap` (records or prompts
overlapped, a record was cut short, or an aborted tool wrote and failed), `undone`,
`unsaved`.  A path is resolved as `resolveToCwd` does: a symbolic link is another
file.  Left out: `mv`, git commits, dry run, edits that change nothing.

### Compaction

Entries are numbered as they are written, so the path to the leaf is a set of
numbers.  `FromBoundary`, `CutPoints`, `CutAt`, `findCutPoint`, `Prepared` and
`Summary` follow `compaction.ts`; a summary is the set of messages it was made
from.  The message that spends the token budget is a free choice.  A compaction
is prepared in `CompactStarts` and written at the leaf of a later moment in
`CompactEnds`; between them entries are appended, the leaf is moved
(`navigateTree` has no guard), a run goes on, or the other compaction starts.
`lost` notes what a summary fails to take over from the one before it, and `from`
the leaf that a compaction was prepared at.  `Astray` and `Moved` are the paths with
a compaction that was prepared on another path, so that its first kept entry, or only
`from`, is not on this one.  `Room`, the bound on entries, also keeps compactions and
branch summaries from starting without space for the entry they end in.

### HarnessSession

`AppendStarts`, `ReadsLeaf`, `Lands` and `Commits` are an append between its
awaits: the id, the leaf, the line in the file, memory.  `MoveStarts` is
`setLeafId`, and with a summary `SummaryStarts` follows.  Ids follow
`generateEntryId`: the first 8 digits of a UUIDv7 are the same for 65.5 seconds
(`window`), and a whole UUID is taken once they are in use.  `AppendFails` and
`Crash` may leave nothing, a part, or the whole of a line (`Leaves`).  A file with a
part of a line (`torn`) does not open.  One whose last line lacks only its newline
(`bare`) opens, and the next append joins that line and is lost with it.  A rejected
append whose line is in the file is unknown to memory until the file is opened
again (`astray`).  Left out: labels
and the repositories that create, fork and list sessions.

## 3. What is checked

### Runs that pass

| Run | Bounds | Shows |
| --- | --- | --- |
| `tool_turn` | 3 calls of every kind, 2 paths, planned or sequential | results in source order, groups as barriers, started calls answered, no call unanswered unless aborted or terminating, dependent calls apart in the plan and in time, commands alone, every batch ends |
| `agent` | 2 messages, 1 tool turn of 2 calls, both queue modes | the model is asked with the transcript, messages conserved, results follow their calls, every run settles |
| `agent_harness` | 2 runs of 1 tool turn, 1 structural operation, 2 writes, 1 queued message; 2 requests other than runs in all | with runs and operations that overlap: writes kept once and in order, messages saved at most once, phase held and released, transcript in order, but for what two flushes at once or a failure after `agent_end` have touched; everything settles |
| `session_manager` | 3 entries, all faults | acknowledged entries are durable and the file has a header (unless it is damaged), indexes agree with a reload, the file follows memory, extraction keeps labels |
| `file_mutation_queue` | 3 calls, a file with a link and another file | one at a time for a key, chains live, every call settles, refinement of `FileLocks` |
| `agent_session` | 2 inputs of both front ends, RPC's steer and follow_up among them, 1 retry, 2 cut points, 3 events (answers other than a plain stop, aborts, bash results, /compact) | tool calls and results stay together, context and file agree, nothing is stranded at rest but strays, recovery is bounded |
| `edit_history` | 2 files with 2 spellings each, 2 texts, 2 prompts, 2 calls, 2 of operator actions, crashes, overlapping prompts and failed saves | one writer for a file, undo and revert reach the start of each prompt, outside `raced` and `gap` |
| `compaction` | 6 entries, 2 compactions of both kinds, 1 other entry or navigation | every message is in the context or the summary, results keep their calls, but for compactions written after the leaf was moved |
| `harness_session` | 2 callers, 3 lines, 2 clock windows, 2 faults | lines refer back, memory is what reopening a file that parses gives |

The bounds are chosen so that the interesting case has room: two calls in one
group and one in another (3 calls); a message in the loop while another is
queued (2); a second run behind a first one that fails, with a write pending from each
phase; an entry before, at and after a fault (3); a call behind a chain behind a
chain (3); a prompt beside another, with a retry and an overflow between them; two
calls, in one group or in two prompts, and an undo or a crash at each step; a first compaction, a turn behind its
cut, and a second compaction (6 entries); two lines in flight with one before
them, and a failed append before a crash (3 lines, 2 faults).  Deadlock checking is off where the system may rest: an agent or a
session nobody calls, a batch or a plan that is complete.

### Fairness

Weak fairness on the steps the event loop drives: the loop's own steps, the ends
of tools, the steps of a run, of a structural operation, of a batch and of a
queue call.  It says that providers, tools, hooks and listeners settle, which
the code assumes throughout (it has no timeouts of its own at this level), and
that a continuation that is ready runs, which the JavaScript event loop
guarantees.  Nothing is assumed of the application and of faults: no fairness on
prompts, aborts, resets or throws.  That runs end although the model may ask for
tools again and again is due to the bound on tool turns and messages.

### Runs that show a disagreement

| Run | Disagreement |
| --- | --- |
| `session_accepted` | two RPC prompts pass their preflight before either reaches the agent; both are acknowledged and the later one is lost |
| `compaction_forgets` | a compaction that splits the turn right behind the previous cut drops what the previous summary covered |
| `session_extract` | extracting a path with a label entry in its middle cuts the conversation at the label |

Their `findings` in `PROJECT.json` quote the code and the sentence it departs from.

### Further divergences met while modelling

They follow from the same models and are not kept as runs.  Agent and harness:

- A grouped batch terminates when one group does (`agent-loop.ts:407`), where
  `packages/agent/README.md:113` asks for every result of the batch; the calls of
  later groups are then unanswered, and steering messages may be injected
  although README:347 says that all tool calls have finished.
- `waitForIdle` resolves while other tools of a group still run, after a
  `tool_execution_end` listener threw (`agent-loop.ts:527`; `agent.ts:324`).
- `reset()` in a run clears `isStreaming` (`agent.ts:333`; `types.ts:354`).
- A listener that throws at `agent_end` makes a second `agent_end` (`agent.ts:497`; `agent.ts:247`).
- An operation started while a run unwinds (from an `agent_end` listener, say) makes
  two flushes interleave: a write is saved twice, another dropped, and two may change
  places (`agent-harness.ts:506` and `:531`; `docs/agent-harness.md:16`, `:88`, `:305`).
  If the unwinding run fails after its `agent_end`, it makes the harness idle in the
  middle of the other operation (`:531`, `:638`; `docs/agent-harness.md:108`) and saves
  its failure behind the other's messages (`:543`; `docs/agent-harness.md:9`).  These
  are what `exposed`, `disturbed` and `mixed` except.
- `compact`, `navigateTree` and a failing start return to idle without flushing the
  writes queued meanwhile (`agent-harness.ts:760`, `:638`; `docs/agent-harness.md:88`).
- `AgentHarness.abort()` before `before_agent_start` has finished reaches no run
  (`agent-harness.ts:584`; `docs/agent-harness.md:200`).
- Overlapping appends of a harness session get the same short id within 65.5
  seconds, so that one shadows the other, become siblings, and may be in another
  order in the file than in memory: then the leaf after reopening differs
  (`jsonl-storage.ts:35`, `session.ts:132`).  A torn line makes the file unreadable;
  so does the next append after a line that lost only its newline.  An append that is
  rejected with its line in the file leaves memory without that line, and its id may
  be used again.  A move with a summary is two lines.

Coding agent session:

- A prompt sent over RPC during `compact()` is run and neither heard nor saved
  (`agent-session.ts:5058`).
- With two messages held during a compaction, `flushCompactionQueue` can deliver one
  twice or strand it; a refused held prompt stays held.  A run whose answer was not
  heard leaves queued messages (`agent-session.ts:4226`).
- An aborted answer ends a retry as a success (`agent-session.ts:2004`).  An answer
  that silently exceeds the window resets the overflow flag and may be compacted
  for again and again (`docs/custom-provider.md:582`).
- A call aborted during `beforeToolCall` keeps the ownership of its file and its
  in-flight key: later edits of the file are refused with "Another edit ... is
  already running in this turn" (`agent-session.ts:1332`).  So does one whose
  checkpoint cannot be saved (`agent-session.ts:1062`).
- A prompt that is later refused as overlapping has changed the prompt number for the
  calls under way (`agent-session.ts:4458`), whose pre-images and versions then go under it.
- A message that RPC's `steer` or `follow_up` sends to an idle session waits for the
  next prompt (`rpc-mode.ts:415`).
- Writing x, y and x again to a file in one prompt is refused, the last write with
  "This exact write already completed" (`agent-session.ts:1368`).
- An undo or Keep All between the capture and the write leaves the file without
  pre-image.  Overlapping records lose versions, and a manifest read while it is
  being written counts as empty (`store.ts:57`, `:83`).  The manifest is shared by
  sessions whose prompt numbers start anew.
- `navigateTree` has no guard against a run or a compaction (`/tree` is handled before
  the check at `interactive-mode.ts:2951`): a compaction can be written on a branch
  without its first kept entry, a tool result on a branch without its call, and a
  compaction prepared on one branch may, on another, keep a result and drop its call.
  A manual compaction may overlap an automatic one.
- A trailing tool result larger than the budget keeps everything; a cut at a user
  message behind a `model_change` counts as a split turn; custom messages and branch
  summaries do not count for the budget (`compaction.ts:387`).  A branch summary does
  not hold what is appended while it is made.

Session file and tools:

- After a torn append the next entry is lost (`session-manager.ts:955`), and after
  a failed rewrite in `createBranchedSession` entries go to a file without header
  (`session-manager.ts:1553`).
- A missing file and a link to it get two keys (`file-mutation-queue.ts:22`).
- A read and a later write of one path share a group (`process-schedule.ts:110`).

## 4. What is proved

For every value of the constants that satisfies the named assumptions, by
induction over the steps.  Each theorem of `PROJECT.json` that names a property
states what a run checks, an invariant or an action property.  Hardly any of these is
inductive alone; what had to be added is what the design relies on.

- **ToolTurnProofs** (any number of calls, any plan, planner and executor together).
  Of the batch: `BatchTypeCorrect`, `ResultsOrdered`, `GroupsRunInTurn`,
  `BatchLeavesNothing`, `BatchAnswersAll`.  The inductive invariant ties the cursor,
  the calls emitted and the statuses to the stage: calls after `next` wait
  (`Frontier`), exactly the calls before the cursor are answered, and they have ended
  (`Answered`), the calls of earlier groups are before the cursor
  (`EarlierGroupsOut`), and each stage allows only its own statuses, so that nothing
  runs in "prepare" and "check" and nothing is merely prepared in "run" (`StageOK`).
  Of the planner: `LaterCallsSeeWrites`, `MutatingCommandsAlone`; the strengthening
  says that `written` holds the target of every write of the open group.
  `TurnRefines` is a refinement proof: a step of the composition is a step of
  `ToolSchedule` or leaves it alone, and likewise of `ToolBatch`.  It needs that the
  groups come out in source order and are not empty (`OrderInv`), since only then are
  they a plan that `ToolBatch` accepts.  With `ExecutesThePlan` (the batch that runs
  is the planned one) the invariants of the two parts give what neither can say
  alone: `WritesEndBeforeLaterCalls` and `MutatingCommandsRunAlone`, about calls that
  run at the same time.
- **AgentProofs** (any number of messages, tool turns and calls, both queue modes).
  `BatchOfTurn` says that the batch variables obey the invariant of `ToolBatch`
  throughout, and that there is no batch outside tool execution and the unwinding
  of a failure; `BatchesOfRunsKeepTheirPromises` follows from it.
  `MessagesAreConserved` counts: each submitted message occurs once in the queues,
  the loop, the transcript and `gone` together, and later ones nowhere
  (`ConservedInv`).
  `ModelIsAskedWithTranscript` needs, at each program counter, what the transcript
  is the end of: the context, which lacks the results of the calls under way or
  already has the prompt (`SeenInv`), since `reset` may empty the transcript at any
  time.  `ResultsFollowCalls` ties the end of the transcript to the position in
  the batch (`FollowInv`).
- **AgentHarnessProofs** (any number of runs, turns, writes and queued messages).
  All of it without assumption on how operations overlap: a run may be started at any
  point at which `phase` is idle, while earlier runs unwind.  `PhaseInv` says for each
  program counter of a run whether it holds the phase (`Holding`); until a failure
  after `agent_end` meets another operation there is one holder at a time
  (`OneHolder`), and from then on until all have ended every run in progress is
  `mixed` (`RunsHoldThePhase`, `ReturnedRunsReleaseThePhase`).  `WritesInv`: the
  pending writes are in order and behind every busy write of the session, and none is
  lost (`WritesKept`); one flush alone has the oldest of them between its peek and its
  shift (`AloneInv`), and while there are several all that is pending is exposed
  (`CrowdedInv`), so that what they double or drop is too (`WritesAreKeptOnce`,
  `FlushKeepsOrder`).  `QueueInv` sees the session, the three queues and the messages
  in flight of each run as places, and no message in two of them
  (`QueuedMessagesAreHeldOnce`).  `TranscriptInv` says what each run has saved and still
  holds, and that runs save in turn but for mixed ones (`RunsAreSavedInOrder`).
  Of its session file (any number of callers, lines, faults and clock windows):
  `FileOpensToATree` needs that whatever a write under way refers to is in memory
  (`RefersToKnown`), and that what is in memory is in the file (`FileIsAhead`), also
  if appends overlap.  `MemoryAgreesWithFile` needs that the file is memory and
  the lines that have landed and are not committed (`FileIsMemoryAndLanded`), as long
  as no rejected append has its line there; its
  part about order and ids, for writes that do not overlap, needs that ids are
  bounded by the last UUID and new until their line lands (`IdsBounded`,
  `NewUntilLanded`).  A line that a failed append or a crash leaves whole is judged
  like one that has landed (`FileGrows`).
- **SeqFilterProofs**.  The library's induction theorems cannot be used for data here,
  because they take the property as an operator; `InductionOnNat` and `InductionOnSeq`
  take it as a set, and follow from the existence of minimal elements (`WFMin`).  With
  them: that the recursive function of `Keep` exists, and what `Keep` does with an
  element more, a concatenation and a second selection.
- **SessionManagerProofs** (any number of entries, any faults, reopenings, branches and
  extractions).  `SessionInv`: ids grow along the session and parents come before
  their children, after the header (`Ordered`); what the file parses to is a selection
  of memory (`FileFollowsMemory`); the indexes are those of a reload
  (`IndexMatchesEntries`); and as long as the file is not `damaged` it ends with a
  newline and has the header first, whatever other writes failed (`CleanFile`), and
  all that was acknowledged (`AcknowledgedIsDurable`).  Parsing, the label index and the path to an entry are
  recursive functions, shown to exist and then followed along the file.
  `AcknowledgedEntriesAreDurable`, `FileIsSelectionOfMemory`, `IndexesAreKept` and
  `HeaderComesFirst` are invariants; `ExtractionKeepsLabels` is an action property.
- **AgentSessionProofs** (any number of prompts, retries and events, both front ends).
  The invariant is built in layers, each proved with the ones before it.  `StoreInv`:
  every step does one of five things to transcript and file (`Effect`: nothing, plain
  messages, an answer, a result, a compaction), and each keeps them equal but for
  answers dropped; this gives `TranscriptIsPersisted`, even for prompts that overlap.
  The others hold until prompts overlap or a run is not heard (`Undisturbed`).
  `ControlInv`: at most one prompt is busy, and owns the run and the controllers
  (`Owned`); queued and held inputs are not busy (`Waiters`).  `PairsInv`: a call is
  open at the end of both exactly while its tools run (`SessionPairsHold`).  `HeadOK`
  and `Begun`: a transcript begins with a message, and is not empty once a run has
  started.  `ServedInv`: a queued message that is no stray, a pending bash result and a retry
  count have a prompt that is still to come to them, and a held message has a compaction that will
  flush it (`SessionLeavesNothing`).  `RecoveryInv`: at each place, how many errors in a
  row the retry count and the overflow flag allow (`SessionRecoveryBounded`).
- **CompactionProofs** (sessions of any length, any number of compactions).
  `CompactionInv` judges an entry by what is before it, so that it stays good as the
  session grows: a compaction keeps from an entry on the path it was prepared at,
  covers or has lost what is before it (`Covered`), and its cut parts no result from
  its call on any path through that leaf (`CutOK`); no message is between a call and
  its result (`AnswersAt`), and a compaction being prepared stays good for
  wherever the leaf goes after that (`PreparedOK`).  `CompactionForgetsNothing` and
  `CompactionKeepsCalls` follow.  That `getBranch` follows the parents, and that the
  path to an entry of a path begins that path, is proved from least counterexamples.
- **EditToolProofs**.  Of `EditHistory` (any files, spellings, texts, prompts and
  calls): `WritersKeptApart`: a call that may still write owns its file, and an `rm`,
  which owns nothing, is alone (`GuardInv`).  Undo and revert are proved together
  (`EditInvariant`), since a revert that relies on sound versions leaves a disk from
  which undo works as well.  `UndoGivesBackTheDisk`: every call has a pre-image before
  it can write (`CapturedInTime`), the session file has the pre-images of memory
  unless its last write failed (`SavedInTime`), an undo under way has put back all it
  has no longer to do (`UndoOK`), and what undo goes by, now or after a restart
  (`Promised`), reaches the disk of each prompt that has one.
  `RevertGivesBackTheDisk`: the disk before prompt m is, file by file, the earliest
  version since m, or what the prompt under way began with if a call has written the
  file and not yet recorded it, or the disk of now (`RevertWorks`); calls are of a
  prompt that has a disk (`Dated`); the earliest version is that by prompt and then by
  position.  Both until one of the cases in the properties' comments (`raced`, `gap`,
  `undone`).
  Of `FileMutationQueue` (any number of calls, any paths and links):
  `QueueTypeCorrect`, `KeysAreSerialized`, `ChainsStayLive`.  The strengthening
  says that calls register in their order (`RegisteredInOrder`) and that a live
  call with live calls of its key ahead of it is chained behind the last of them
  (`ChainedBehindTheLast`): this, with `ChainsAreLive`, is why it cannot start
  before they are gone.  `QueueImplementsLocks` is the refinement of `FileLocks`
  without its fairness: a registration appends to the line of its key, an operation
  begins or ends only as its head, and no other step touches the lines.

The assumptions are those named in the modules, which TLC evaluates on every run:
bounds are natural numbers (`MaxCalls` a positive one), `Real` is idempotent on
the paths, `Absent` is not a text, a batch of `ToolTurn` has at most `MaxCalls`
calls (`TurnAssumption`), the clock has a first window (`ClockAssumption`), and the
queue modes, front ends and kinds of compaction are among those of the code.

Only model-checked: liveness under fairness (`TurnEnds`, `RunSettles`,
`HarnessSettles`, `EveryCallSettles`) and the fairness of `FileLocks` in
`ImplementsLocks`, for which the prover has no rules.  Every invariant of the passing
runs is also a theorem, without further hypotheses.

## 5. Not modelled

- Providers, user interfaces, formatting, configuration and generated tables (see
  `components`), which are most of the repository's lines: I/O and pure functions
  whose answers the models take as arbitrary, with no state that two actors share.
- Of the agent session: the model ladder and local models, the reflective loop,
  memory, lessons and workflows, child agents.  They choose models and texts by
  heuristics, and no document says what they promise of the state modelled here.
- Event payloads, tool contents and texts; token counts.
- Version migration and listing of sessions; the session repositories of the
  harness; the harness's copy of the compaction algorithm, which is that of
  `Compaction`.

## 6. State of the project

Done: the models of section 2, and the theorems of section 4 about all of them.

What would extend it: the model ladder in `AgentSession` (a run that continues with
another model), the queue modes of `AgentHarness`, labels and the repositories of the
harness session, and renames in `EditHistory`.  A change to the code at a line of
`map` calls for the run and the theorems that name its definition.
