---------------------------- MODULE HarnessSession ----------------------------
(***************************************************************************)
(* The session of the agent harness and its file: Session                  *)
(* (packages/agent/src/harness/session/session.ts) over                    *)
(* JsonlSessionStorage (jsonl-storage.ts).  Nothing serialises the writes  *)
(* of the session: each one names its entry, reads the leaf, appends a     *)
(* line to the file and only then changes memory, with an await after each *)
(* of these steps.  Writes of several callers may overlap; an append may   *)
(* fail, and the process may crash with a line half written, or whole but  *)
(* for its newline: such a file opens, and the next line joins the last.   *)
(*                                                                         *)
(* generateEntryId takes the first 8 digits of a UUIDv7, which are the     *)
(* high bits of its clock: one value in a window of 65.5 s.  A whole UUID  *)
(* is used once that value is taken.                                       *)
(***************************************************************************)
EXTENDS Integers, Sequences, FiniteSets, SequencesExt

CONSTANTS
    Callers,        \* who writes to the session at a time
    MaxLines,       \* bound: lines of the file
    MaxWindows,     \* bound: windows of the clock, the short ids
    MaxFaults       \* bound: failed appends and crashes

ASSUME BoundsAssumption == {MaxLines, MaxWindows, MaxFaults} \subseteq Nat
ASSUME ClockAssumption == MaxWindows > 0

VARIABLES
    disk,           \* the lines of the file after the header
    torn,           \* a line of the file does not parse
    bare,           \* the last line of the file lacks its newline
    entries, leaf,  \* the storage's memory: entries, currentLeafId (0: null)
    up,             \* the storage is open
    window, whole,  \* the clock; counter of the whole UUIDs
    op,             \* the write of each caller
    faults,         \* counter for the bound
    astray,         \* history: a write was rejected with its line in the file
    overlapped      \* history: a write began before another had ended, or a
                    \* rejected one never ended, its line being in the file

memory == <<entries, leaf>>
file == <<disk, torn, bare>>
storageVars ==
    <<file, memory, up, window, whole, op, faults, astray, overlapped>>

(***************************************************************************)
(* Entries.  A leaf entry moves the leaf to its target, any other becomes  *)
(* the leaf.                                                               *)
(***************************************************************************)
Line(id, parent) == [type |-> "entry", id |-> id, parent |-> parent]
LeafLine(id, parent, target) ==
    [type |-> "leaf", id |-> id, parent |-> parent, target |-> target]

Ids(lines) == {lines[i].id : i \in DOMAIN lines}

leafIdAfterEntry(line) == IF line.type = "leaf" THEN line.target ELSE line.id

(* loadJsonlStorage: the leaf is what the last line makes it. *)
LeafOf(lines) == IF lines = << >> THEN 0 ELSE leafIdAfterEntry(Last(lines))

(* generateEntryId, checked against the entries in memory. *)
NewId == IF window \in Ids(entries) THEN MaxWindows + whole + 1 ELSE window
TakesWhole == whole' = IF window \in Ids(entries) THEN whole + 1 ELSE whole

(***************************************************************************)
(* Writing.                                                                *)
(***************************************************************************)
Idle == [at |-> "idle"]
Named(id) == [at |-> "named", id |-> id]
Writing(line, summary) == [at |-> "writing", line |-> line, summary |-> summary]
Landed(line, summary) == [at |-> "landed", line |-> line, summary |-> summary]

InFlight == {c \in Callers : op[c] # Idle}
Set(c, state) == op' = [op EXCEPT ![c] = state]
Lines == Len(entries) + Cardinality(InFlight)

Begins(c) ==
    /\ up
    /\ op[c] = Idle
    /\ Lines < MaxLines
    /\ overlapped' = (overlapped \/ InFlight # {})

(* appendMessage, appendModelChange...: await createEntryId(). *)
AppendStarts(c) ==
    /\ Begins(c)
    /\ Set(c, Named(NewId))
    /\ TakesWhole
    /\ UNCHANGED <<file, memory, up, window, faults, astray>>

(* await getLeafId(), then the append to the file begins. *)
ReadsLeaf(c) ==
    /\ op[c].at = "named"
    /\ Set(c, Writing(Line(op[c].id, leaf), FALSE))
    /\ UNCHANGED <<file, memory, up, window, whole, faults, astray, overlapped>>

(* moveTo: setLeafId makes its line at once.  With a summary, its entry    *)
(* follows (SummaryStarts).                                                *)
MoveStarts(c, target, summary) ==
    /\ Begins(c)
    /\ target \in {0} \cup Ids(entries)
    /\ Set(c, Writing(LeafLine(NewId, leaf, target), summary))
    /\ TakesWhole
    /\ UNCHANGED <<file, memory, up, window, faults, astray>>

(* The line is in the file; after one without a newline, both are lost. *)
Lands(c) ==
    /\ op[c].at = "writing"
    /\ torn' = (torn \/ bare)
    /\ disk' = IF torn' THEN disk ELSE Append(disk, op[c].line)
    /\ Set(c, Landed(op[c].line, op[c].summary))
    /\ UNCHANGED <<bare, memory, up, window, whole, faults, astray, overlapped>>

(* As it would be if memory did not wait for the file.                     *)
CommitsEarly(c) ==
    /\ op[c].at \in {"writing", "landed"}
    /\ op[c].line \notin Range(entries)
    /\ entries' = Append(entries, op[c].line)
    /\ leaf' = leafIdAfterEntry(op[c].line)
    /\ IF op[c].at = "landed" THEN Set(c, Idle) ELSE UNCHANGED op
    /\ UNCHANGED <<file, up, window, whole, faults, astray, overlapped>>

(* The rest of appendEntry and of setLeafId: memory follows the file.  The *)
(* summary of a move is named here, and hangs from the target.             *)
Commits(c) ==
    /\ op[c].at = "landed"
    /\ entries' = Append(entries, op[c].line)
    /\ leaf' = leafIdAfterEntry(op[c].line)
    /\ Set(c, IF op[c].summary
              THEN [at |-> "summary", parent |-> op[c].line.target] ELSE Idle)
    /\ UNCHANGED <<file, up, window, whole, faults, astray, overlapped>>

SummaryStarts(c) ==
    /\ op[c].at = "summary"
    /\ Lines <= MaxLines
    /\ Set(c, Writing(Line(NewId, op[c].parent), FALSE))
    /\ TakesWhole
    /\ UNCHANGED <<file, memory, up, window, faults, astray, overlapped>>

(* What an append that does not succeed leaves of its line: nothing, a     *)
(* part, or the whole, perhaps without its newline.                        *)
Leaves(line) ==
    \/ UNCHANGED file
    \/ torn' = TRUE /\ UNCHANGED <<disk, bare>>
    \/ /\ ~torn /\ ~bare
       /\ disk' = Append(disk, line)
       /\ bare' \in BOOLEAN
       /\ UNCHANGED torn

(* appendFile returns an error: the write is rejected and memory is as it  *)
(* was.                                                                    *)
AppendFails(c) ==
    /\ faults < MaxFaults
    /\ op[c].at = "writing"
    /\ Leaves(op[c].line)
    /\ astray' = (astray \/ disk' # disk)
    /\ overlapped' = (overlapped \/ disk' # disk)
    /\ Set(c, Idle)
    /\ faults' = faults + 1
    /\ UNCHANGED <<memory, up, window, whole>>

Crash ==
    /\ up
    /\ faults < MaxFaults
    /\ \/ UNCHANGED file
       \/ \E c \in Callers : op[c].at = "writing" /\ Leaves(op[c].line)
    /\ up' = FALSE
    /\ entries' = << >> /\ leaf' = 0
    /\ op' = [c \in Callers |-> Idle]
    /\ faults' = faults + 1
    /\ UNCHANGED <<window, whole, astray, overlapped>>

(* As it would be if the leaf were the last entry and not the last target. *)
OpenAtLastEntry ==
    /\ ~up /\ ~torn
    /\ up' = TRUE
    /\ astray' = FALSE
    /\ entries' = disk
    /\ leaf' = IF disk = << >> THEN 0 ELSE Last(disk).id
    /\ UNCHANGED <<file, window, whole, op, faults, overlapped>>

(* JsonlSessionStorage.open; a line that does not parse makes it throw. *)
Open ==
    /\ ~up /\ ~torn
    /\ up' = TRUE
    /\ astray' = FALSE
    /\ entries' = disk
    /\ leaf' = LeafOf(disk)
    /\ UNCHANGED <<file, window, whole, op, faults, overlapped>>

Tick ==
    /\ window < MaxWindows
    /\ window' = window + 1
    /\ UNCHANGED <<file, memory, up, whole, op, faults, astray, overlapped>>

StorageInit ==
    /\ disk = << >> /\ torn = FALSE /\ bare = FALSE
    /\ entries = << >> /\ leaf = 0
    /\ up = TRUE
    /\ window = 1 /\ whole = 0
    /\ op = [c \in Callers |-> Idle]
    /\ faults = 0 /\ astray = FALSE /\ overlapped = FALSE

StorageNext ==
    \/ \E c \in Callers :
        \/ AppendStarts(c)
        \/ ReadsLeaf(c)
        \/ \E target \in 0 .. MaxWindows + whole, summary \in BOOLEAN :
              MoveStarts(c, target, summary)
        \/ Lands(c)
        \/ Commits(c)
        \/ SummaryStarts(c)
        \/ AppendFails(c)
    \/ Crash
    \/ Open
    \/ Tick

StorageSpec == StorageInit /\ [][StorageNext]_storageVars

Symmetry == Permutations(Callers)

(***************************************************************************)
(* Properties.                                                             *)
(***************************************************************************)
(* The file is a tree: a line refers, as parent or as target, only to      *)
(* lines before it, even when writes overlap and appends fail.  So a file  *)
(* that opens, opens to a tree; one with a line that does not parse does   *)
(* not open (loadJsonlStorage throws), and this says nothing of it.        *)
LinesReferBack ==
    \A i \in DOMAIN disk :
        LET before == {0} \cup Ids(SubSeq(disk, 1, i - 1)) IN
        /\ disk[i].parent \in before
        /\ disk[i].type = "leaf" => disk[i].target \in before

(* docs/agent-harness.md: "Reopening storage must reconstruct the current  *)
(* leaf from the latest persisted leaf-affecting entry."  With no write    *)
(* under way, memory has the lines of a file that opens and no other; if   *)
(* writes never overlapped it has them in order, has the leaf that         *)
(* reopening would give, and no two entries share an id.  Not so once an   *)
(* append was rejected with its line in the file: until the file is opened *)
(* again memory lacks that line, and its id may be given to another.       *)
MemoryIsTheFile ==
    up /\ ~torn /\ ~astray /\ InFlight = {} =>
        /\ Range(entries) = Range(disk)
        /\ Len(entries) = Len(disk)
        /\ ~overlapped => /\ entries = disk
                          /\ leaf = LeafOf(disk)
                          /\ IsInjective([i \in DOMAIN disk |-> disk[i].id])

================================================================================
