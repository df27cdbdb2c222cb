---------------------------- MODULE SessionManager ----------------------------
(***************************************************************************)
(* A persisted session (packages/coding-agent/src/core/session-manager.ts, *)
(* SessionManager): a tree of entries kept in memory with a leaf pointer   *)
(* and indexes, and its JSONL file, written lazily and by appending.       *)
(*                                                                         *)
(* All operations are synchronous, so each is one step.  What makes them   *)
(* hard is the file: a write may fail, or leave a line behind that is cut  *)
(* off, and the process may die between any two steps and open the file    *)
(* again.  file holds the lines of the current session's file; a session   *)
(* that is switched away from keeps its file as it is.                     *)
(***************************************************************************)
EXTENDS Integers, Sequences, FiniteSets, SequencesExt, SeqFilter

CONSTANT
    MaxId           \* bound: entries ever created

ASSUME MaxIdAssumption == MaxId \in Nat

VARIABLES
    fileEntries,    \* the entries in memory, the header first
    leafId,         \* position in the tree, Null before the first entry
    flushed,
    hasAssistant,
    labelsById,     \* the targets that have a label, in Map order
    appendFd,       \* "closed", "current" file, or a "previous" one
    fileExists,
    file,           \* the lines of the current session file
    lastId,         \* ids given out so far
    failed,         \* entries whose append threw
    damaged         \* history: a write broke the file, see Damage

memory == <<fileEntries, leafId, flushed, hasAssistant, labelsById>>
disk == <<appendFd, fileExists, file>>
vars == <<memory, disk, lastId, failed, damaged>>

(***************************************************************************)
(* Entries.  "unlabel" is a label entry that clears the label of target.   *)
(***************************************************************************)
Null == 0
Types == {"user", "assistant", "custom", "summary", "label", "unlabel"}
Entry(id, parent, type, target) ==
    [id |-> id, parent |-> parent, type |-> type, target |-> target]
Header == Entry(Null, Null, "session", Null)

IdsOf(s) == {e.id : e \in Range(s)}
byId == IdsOf(fileEntries) \ {Null}
IsLabel(e) == e.type \in {"label", "unlabel"}
ContainsAssistant(s) == \E e \in Range(s) : e.type = "assistant"

(***************************************************************************)
(* Lines.  A write puts whole lines down; one that is cut off leaves a     *)
(* last line without newline, of which all of the JSON or only a part is   *)
(* there.  The next append continues that line, which then parses no more. *)
(***************************************************************************)
Garbage == Entry(Null, Null, "garbage", Null)
Line(e, nl) == [json |-> e, newline |-> nl]
Lines(s) == [k \in 1..Len(s) |-> Line(s[k], TRUE)]

Extend(lines, chunk) ==
    IF lines # <<>> /\ chunk # <<>> /\ ~Last(lines).newline
      THEN Front(lines) \o <<Line(Garbage, Head(chunk).newline)>> \o Tail(chunk)
      ELSE lines \o chunk

(* What a write of chunk that fails may leave behind. *)
WholeLines(chunk) == {SubSeq(chunk, 1, k) : k \in 0..(Len(chunk) - 1)}
CutOff(chunk) ==
    UNION {{Append(SubSeq(chunk, 1, k), Line(json, FALSE)) :
                json \in {Garbage, chunk[k + 1].json}} : k \in 0..(Len(chunk) - 1)}

(***************************************************************************)
(* Two failures break the file for the appends to come: a write cut off    *)
(* inside a line, which the next line then continues, and the rewrite of   *)
(* an extracted session that fails before its first line, as the manager   *)
(* still believes the file written (session-manager.ts:1553).              *)
(***************************************************************************)
Unterminated(lines) == lines # <<>> /\ ~Last(lines).newline
Damage(lines, written) == Unterminated(lines) \/ (written /\ lines = <<>>)

(***************************************************************************)
(* loadEntriesFromFile: lines that do not parse are skipped, and without a *)
(* header first the file counts as empty.                                  *)
(***************************************************************************)
Jsons(lines) == [k \in 1..Len(lines) |-> lines[k].json]
Parsed(lines) == Keep(Jsons(lines), Range(Jsons(lines)) \ {Garbage})

LoadEntriesFromFile(lines) ==
    LET parsed == Parsed(lines) IN
    IF parsed # <<>> /\ parsed[1] = Header THEN parsed ELSE <<>>

(***************************************************************************)
(* The index of labels, and getBranch: the path from the root to an entry, *)
(* as far as the parents are known.                                        *)
(***************************************************************************)
WithLabel(labels, target) ==
    IF target \in Range(labels) THEN labels ELSE Append(labels, target)
WithoutLabel(labels, target) == Keep(labels, Range(labels) \ {target})

ApplyLabel(labels, e) ==
    CASE e.type = "label"   -> WithLabel(labels, e.target)
      [] e.type = "unlabel" -> WithoutLabel(labels, e.target)
      [] OTHER              -> labels

LabelIndex(s) ==
    LET labels[k \in 0..Len(s)] ==
            IF k = 0 THEN <<>> ELSE ApplyLabel(labels[k - 1], s[k])
    IN  labels[Len(s)]

EntryWithId(s, id) == CHOOSE x \in Range(s) : x.id = id

GetBranch(s, from) ==
    LET branch[id \in 0..MaxId] ==
            IF id \notin IdsOf(s) \ {Null} THEN <<>>
            ELSE Append(branch[EntryWithId(s, id).parent], EntryWithId(s, id))
    IN  branch[from]

(* An index rebuilt without clearing what it said before. *)
BuildIndexKeepsAssistant(s) ==
    /\ fileEntries' = s
    /\ leafId' = Last(s).id
    /\ hasAssistant' = (hasAssistant \/ ContainsAssistant(s))
    /\ labelsById' = LabelIndex(s)

(***************************************************************************)
(* _buildIndex: what memory holds of the entries s, the header included.   *)
(***************************************************************************)
BuildIndex(s) ==
    /\ fileEntries' = s
    /\ leafId' = Last(s).id
    /\ hasAssistant' = ContainsAssistant(s)
    /\ labelsById' = LabelIndex(s)

(***************************************************************************)
(* newSession: nothing is written before the first assistant message.      *)
(***************************************************************************)
StartEmpty ==
    /\ fileEntries' = <<Header>>
    /\ leafId' = Null
    /\ hasAssistant' = FALSE
    /\ labelsById' = <<>>

Init ==
    /\ fileEntries = <<Header>>
    /\ leafId = Null
    /\ flushed = FALSE
    /\ hasAssistant = FALSE
    /\ labelsById = <<>>
    /\ appendFd = "closed"
    /\ fileExists = FALSE
    /\ file = <<>>
    /\ lastId = 0
    /\ failed = {}
    /\ damaged = FALSE

(* A switch that leaves the descriptor open. *)
SwitchWithoutClose == appendFd' = IF appendFd = "closed" THEN "closed" ELSE "previous"

(***************************************************************************)
(* _closeAppendFd: done before the manager turns to another file.          *)
(***************************************************************************)
ClosesAppendFd == appendFd' = "closed"

NewSession ==
    /\ StartEmpty
    /\ flushed' = FALSE
    /\ ClosesAppendFd
    /\ fileExists' = FALSE
    /\ file' = <<>>
    /\ failed' = {}
    /\ damaged' = FALSE
    /\ UNCHANGED lastId

-----------------------------------------------------------------------------
(***************************************************************************)
(* _persistBatch.  Without an assistant message nothing is written unless  *)
(* the file is there already; the first one writes all entries to a file   *)
(* that must not exist ("wx"); after that entries are appended.            *)
(***************************************************************************)
DeferWrite(ok) ==
    /\ ~flushed /\ ~hasAssistant'
    /\ ok
    /\ UNCHANGED <<disk, flushed>>

FirstFlush(ok) ==
    /\ ~flushed /\ hasAssistant'
    /\ appendFd' = "closed"
    /\ \/ /\ ok /\ ~fileExists
          /\ fileExists' = TRUE /\ flushed' = TRUE
          /\ file' = Lines(fileEntries')
       \/ /\ ~ok
          /\ UNCHANGED <<fileExists, file, flushed>>
       \/ /\ ~ok /\ ~fileExists
          /\ fileExists' = TRUE /\ UNCHANGED flushed
          /\ file' \in WholeLines(Lines(fileEntries')) \cup CutOff(Lines(fileEntries'))

(* An append that writes all entries again. *)
WrittenAll(chunk) == Extend(file, Lines(fileEntries'))

(* A write goes to the file the descriptor was opened on. *)
Written(chunk) == IF appendFd = "previous" THEN file ELSE Extend(file, chunk)

WriteJsonlChunk(chunk, ok) ==
    /\ flushed
    /\ \/ /\ ok
          /\ appendFd' = IF appendFd = "closed" THEN "current" ELSE appendFd
          /\ fileExists' = TRUE
          /\ file' = Written(chunk)
       \/ /\ ~ok /\ appendFd = "closed"
          /\ UNCHANGED disk
       \/ /\ ~ok
          /\ appendFd' = IF appendFd = "closed" THEN "current" ELSE appendFd
          /\ fileExists' = TRUE
          /\ \E part \in WholeLines(chunk) \cup CutOff(chunk) : file' = Written(part)
    /\ UNCHANGED flushed

(***************************************************************************)
(* _appendEntries: memory first, then the file.  If the write throws the   *)
(* entries stay in memory.                                                 *)
(***************************************************************************)
AppendEntries(new, ok) ==
    /\ lastId + Len(new) <= MaxId
    /\ lastId' = lastId + Len(new)
    /\ fileEntries' = fileEntries \o new
    /\ leafId' = Last(new).id
    /\ hasAssistant' = (hasAssistant \/ ContainsAssistant(new))
    /\ DeferWrite(ok) \/ FirstFlush(ok) \/ WriteJsonlChunk(Lines(new), ok)
    /\ failed' = IF ok THEN failed ELSE failed \cup IdsOf(new)
    /\ damaged' = (damaged \/ Unterminated(file'))

(* appendMessage and the other appends of one entry at the leaf. *)
AppendMessage(type, ok) ==
    /\ AppendEntries(<<Entry(lastId + 1, leafId, type, Null)>>, ok)
    /\ UNCHANGED labelsById

AppendCustomEntries(n, ok) ==
    /\ AppendEntries([k \in 1..n |-> Entry(lastId + k, IF k = 1 THEN leafId ELSE lastId + k - 1,
                                           "custom", Null)], ok)
    /\ UNCHANGED labelsById

AppendLabelChange(target, type, ok) ==
    /\ target \in byId
    /\ LET e == Entry(lastId + 1, leafId, type, target) IN
       /\ AppendEntries(<<e>>, ok)
       /\ labelsById' = IF ok THEN ApplyLabel(labelsById, e) ELSE labelsById

(***************************************************************************)
(* Moving the leaf.  Nothing of it is written to the file.                 *)
(***************************************************************************)
Branch(id) ==
    /\ id \in byId
    /\ leafId' = id
    /\ UNCHANGED <<fileEntries, flushed, hasAssistant, labelsById, disk,
                   lastId, failed, damaged>>

ResetLeaf ==
    /\ leafId' = Null
    /\ UNCHANGED <<fileEntries, flushed, hasAssistant, labelsById, disk,
                   lastId, failed, damaged>>

BranchWithSummary(from, ok) ==
    /\ from \in byId \cup {Null}
    /\ AppendEntries(<<Entry(lastId + 1, from, "summary", Null)>>, ok)
    /\ UNCHANGED labelsById

(***************************************************************************)
(* createBranchedSession: the path to leaf without its label entries, and  *)
(* after it a new label entry for each label that is set on the path.      *)
(***************************************************************************)
Unlabelled(path) == Keep(path, {e \in Range(path) : ~IsLabel(e)})
PathWithoutLabels(leaf) == Unlabelled(GetBranch(fileEntries, leaf))

(* An extraction that forgets the labels. *)
LabelsToWriteNone(path) == <<>>

LabelsToWrite(path) == Keep(labelsById, IdsOf(path))

BranchedEntries(leaf) ==
    LET path == PathWithoutLabels(leaf)
        targets == LabelsToWrite(path)
        lastEntryId == IF path = <<>> THEN Null ELSE Last(path).id
    IN  <<Header>> \o path \o
        [k \in 1..Len(targets) |->
            Entry(lastId + k, IF k = 1 THEN lastEntryId ELSE lastId + k - 1,
                  "label", targets[k])]

(* _rewriteFile of a new file; the flag flushed is set after it. *)
RewriteFile(ok) ==
    \/ /\ ok
       /\ fileExists' = TRUE /\ flushed' = TRUE
       /\ file' = Lines(fileEntries')
    \/ /\ ~ok
       /\ UNCHANGED flushed
       /\ \/ fileExists' = FALSE /\ file' = <<>>
          \/ /\ fileExists' = TRUE
             /\ file' \in WholeLines(Lines(fileEntries')) \cup CutOff(Lines(fileEntries'))

CreateBranchedSession(leaf, ok) ==
    /\ leaf \in byId
    /\ ClosesAppendFd
    /\ lastId' = lastId + Len(LabelsToWrite(PathWithoutLabels(leaf)))
    /\ lastId' <= MaxId
    /\ BuildIndex(BranchedEntries(leaf))
    /\ IF hasAssistant' THEN RewriteFile(ok)
       ELSE /\ ok /\ flushed' = FALSE
            /\ fileExists' = FALSE /\ file' = <<>>
    /\ failed' = IF ok THEN {} ELSE IdsOf(fileEntries')
    /\ damaged' = Damage(file', flushed')

-----------------------------------------------------------------------------
(* A file without header that is taken as it is. *)
FreshFileUntouched == file

(* A file without valid header is truncated and gets one. *)
FreshFile == Lines(<<Header>>)

(***************************************************************************)
(* The process dies, or the user resumes the session: setSessionFile loads *)
(* the file.  One without a valid header is started afresh.                *)
(***************************************************************************)
Reopen ==
    /\ ClosesAppendFd
    /\ failed' = {}
    /\ LET loaded == LoadEntriesFromFile(file) IN
       \/ /\ ~fileExists
          /\ StartEmpty
          /\ flushed' = FALSE
          /\ UNCHANGED <<fileExists, file>>
       \/ /\ fileExists /\ loaded = <<>>
          /\ StartEmpty
          /\ flushed' = TRUE
          /\ fileExists' = TRUE
          /\ file' = FreshFile
       \/ /\ fileExists /\ loaded # <<>>
          /\ BuildIndex(loaded)
          /\ flushed' = TRUE
          /\ UNCHANGED <<fileExists, file>>
    /\ damaged' = Unterminated(file')
    /\ UNCHANGED lastId

(* forkFrom: a new file with the entries that load from this one. *)
ForkFrom ==
    LET loaded == LoadEntriesFromFile(file) IN
    /\ fileExists /\ loaded # <<>>
    /\ BuildIndex(loaded)
    /\ flushed' = TRUE
    /\ ClosesAppendFd
    /\ file' = Lines(loaded)
    /\ failed' = {}
    /\ damaged' = FALSE
    /\ UNCHANGED <<fileExists, lastId>>

(* The immediate that _writeJsonlChunk sets, or dispose. *)
CloseAppendFd ==
    /\ appendFd # "closed"
    /\ appendFd' = "closed"
    /\ UNCHANGED <<memory, fileExists, file, lastId, failed, damaged>>

Next ==
    \/ \E ok \in BOOLEAN :
          \/ \E type \in {"user", "assistant"} : AppendMessage(type, ok)
          \/ AppendCustomEntries(2, ok)
          \/ \E target \in byId, type \in {"label", "unlabel"} :
                AppendLabelChange(target, type, ok)
          \/ \E from \in byId \cup {Null} : BranchWithSummary(from, ok)
          \/ \E leaf \in byId : CreateBranchedSession(leaf, ok)
    \/ \E id \in byId : Branch(id)
    \/ ResetLeaf \/ NewSession \/ Reopen \/ ForkFrom \/ CloseAppendFd

Spec == Init /\ [][Next]_vars

-----------------------------------------------------------------------------
(***************************************************************************)
(* Properties.                                                             *)
(***************************************************************************)
\* docs/sessions.md:7 "Sessions auto-save": once the file is being written, an
\* entry whose append returned normally is read back when the session is
\* opened again, whatever writes failed before it and whatever file the manager
\* was switched from, as long as no write damaged this file: left a line cut off
\* in it since it was opened, or failed to give it its header (Damage).
AcknowledgedIsDurable ==
    flushed /\ ~damaged => \A e \in Range(fileEntries) :
                  e.id \notin failed => e \in Range(LoadEntriesFromFile(file))

\* The file never holds an entry twice, one that memory does not know, or two
\* in another order: neither lazy flush, append, extraction nor recovery
\* duplicates or reorders lines.
FileFollowsMemory ==
    Parsed(file) = Keep(fileEntries, Range(Parsed(file)))

\* The indexes kept up to date by each append are those _buildIndex computes
\* from the entries when the session is opened (as long as no append threw).
IndexMatchesEntries ==
    /\ hasAssistant = ContainsAssistant(fileEntries)
    /\ failed = {} => labelsById = LabelIndex(fileEntries)

\* session-manager.ts:831: no message is appended to a file that has no session
\* header (which breaks the session): what parses of the file loads, after any
\* failed write, switch and recovery.  Excepted is a damaged file: there the code
\* does append without a header, after the rewrite of an extracted session that
\* failed before its first line, or behind a header that was cut off.
NoAppendWithoutHeader ==
    ~damaged /\ Parsed(file) # <<>> => LoadEntriesFromFile(file) # <<>>

Conversation(s, leaf) == Unlabelled(GetBranch(s, leaf))

\* session-manager.ts:1485: the extracted session holds the path from the root
\* to the leaf: the conversation read from it is the one read before, in a
\* session of which no append failed.
ExtractKeepsPath ==
    [][\A leaf \in byId :
          failed = {} /\ CreateBranchedSession(leaf, TRUE)
              => Conversation(fileEntries', leafId') = Conversation(fileEntries, leaf)]_vars

\* createBranchedSession takes the labels along: in the extracted session the
\* entries of the path that had a label have one, and no other entry has.
\* (failed' = {} holds after every extraction that succeeds.)
ExtractKeepsLabels ==
    [][\A leaf \in byId :
          failed' = {} /\ CreateBranchedSession(leaf, TRUE)
              => Range(labelsById')
                    = Range(labelsById) \cap IdsOf(PathWithoutLabels(leaf))]_vars
=============================================================================
