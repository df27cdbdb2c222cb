------------------------------ MODULE Compaction ------------------------------
(***************************************************************************)
(* What a model still knows of a conversation after its session has been   *)
(* compacted and its tree walked: the cut (findCutPoint), what is          *)
(* summarised (prepareCompaction, compact) of                              *)
(* packages/coding-agent/src/core/compaction/compaction.ts, the context    *)
(* built from the entries (buildSessionContext of core/session-manager.ts) *)
(* and navigateTree of core/agent-session.ts.  The harness of              *)
(* packages/agent has the same algorithm in src/harness/compaction.        *)
(*                                                                         *)
(* Entries are numbered as they are written, so a path from the root has   *)
(* increasing numbers and is kept as a set.  A summary is the set of the   *)
(* messages it was made from.  Token counts are left out: the walk back    *)
(* from the newest message may spend its budget at any message, or never.  *)
(* A summary is awaited; whatever does not wait for it goes on meanwhile.  *)
(***************************************************************************)
EXTENDS Integers, Sequences, FiniteSetsExt

CONSTANTS
    Ways,           \* who may compact: a subset of {"auto", "manual"}
    MaxEntries,     \* bound: entries of the session
    MaxCompactions, \* bound: compactions written and in progress
    MaxAsides       \* bound: navigations of the tree, and entries that are
                    \* neither of a run nor of a compaction

ASSUME WaysAssumption == Ways \subseteq {"auto", "manual"}
ASSUME BoundsAssumption == {MaxEntries, MaxCompactions, MaxAsides} \subseteq Nat

VARIABLES
    log,            \* the entries of the session
    leaf,           \* leafId, 0 for none
    running, call,  \* a run is under way; the call it awaits a result of, or 0
    compacting,     \* the compaction prepared and being summarised, per way
    branching,      \* the targets of the branch summary in progress
    asides          \* counter for the bound

vars == <<log, leaf, running, call, compacting, branching, asides>>

(***************************************************************************)
(* The tree of entries.  "calls" is an assistant message with a tool call, *)
(* "setting" stands for every entry that is no message: model_change,      *)
(* label, session_info...                                                  *)
(***************************************************************************)
MessageEntries == {"user", "assistant", "calls", "result", "bash"}
UserRole == {"user", "bash", "custom", "branch"}
Shows == MessageEntries \cup {"custom", "branch"}   \* getMessageFromEntry

Entries == 1 .. Len(log)
Kind(i) == log[i].kind

getBranch(from) ==
    LET up[i \in 0 .. from] ==
            IF i = 0 THEN {} ELSE up[log[i].parent] \cup {i}
    IN up[from]

Path == getBranch(leaf)
Messages(ids) == {i \in ids : Kind(i) \in Shows}

(* The number of the latest compaction on the path, 0 if there is none.    *)
Latest(path) == Max({0} \cup {i \in path : Kind(i) = "compaction"})

(* buildSessionContext: the messages sent along with the latest summary.   *)
Context(path) ==
    LET last == Latest(path) IN
    Messages(IF last = 0 THEN path
             ELSE {i \in path : \/ i > last
                                \/ log[last].keep \in path
                                   /\ i \in log[last].keep .. last})

(***************************************************************************)
(* The cut.                                                                *)
(***************************************************************************)
(* As it would be if the entries kept last time were not looked at again.  *)
FromBoundaryAfter(path) == {i \in path : i > Latest(path)}

(* boundaryStart: from the first entry that the previous compaction kept.  *)
FromBoundary(path) ==
    LET last == Latest(path) IN
    IF last = 0 THEN path
    ELSE IF log[last].keep \in path THEN {i \in path : i >= log[last].keep}
    ELSE {i \in path : i > last}

(* As it would be if a tool result could come first.                       *)
CutPointsAny(range) == Messages(range)

(* findValidCutPoints. *)
CutPoints(range) == {i \in Messages(range) : Kind(i) # "result"}

(* The first cut point at or after the message that spent the budget, and  *)
(* the entries before it that are not messages.                            *)
CutAt(range, spent) ==
    LET after == {c \in CutPoints(range) : c >= spent}
        cut == Min(IF spent = 0 \/ after = {} THEN CutPoints(range) ELSE after)
    IN Min({i \in range : /\ i <= cut
                          /\ \A j \in range : i <= j /\ j < cut =>
                                Kind(j) \notin MessageEntries \cup {"compaction"}})

(* findCutPoint: the first entry kept, and where the turn it splits begins *)
(* (0 when it splits none).                                                *)
findCutPoint(range, spent) ==
    IF CutPoints(range) = {} THEN [keep |-> Min(range), turn |-> 0]
    ELSE LET keep == CutAt(range, spent) IN
         [keep |-> keep,
          turn |-> IF Kind(keep) = "user" THEN 0
                   ELSE Max({0} \cup {i \in range : i <= keep /\ Kind(i) \in UserRole})]

(* compact(): the messages that the new summary is made from.  With a      *)
(* split turn and no message before it, "No prior history." takes the      *)
(* place of the summary that the previous one is passed to.                *)
Summary(history, prefix, previous) ==
    prefix \cup IF prefix # {} /\ history = {} THEN {} ELSE history \cup previous

(* prepareCompaction and compact on the entries of a path.  The code keeps *)
(* neither the leaf of that moment (from) nor what the summary dropped     *)
(* (lost): they are there for the properties.                              *)
Prepared(path, spent) ==
    LET last == Latest(path)
        range == FromBoundary(path)
        cut == findCutPoint(range, spent)
        end == IF cut.turn = 0 THEN cut.keep ELSE cut.turn
        history == Messages({i \in range : i < end})
        prefix == Messages({i \in range : end <= i /\ i < cut.keep})
        previous == IF last = 0 THEN {} ELSE log[last].covers
        made == Summary(history, prefix, previous)
    IN [from |-> leaf, keep |-> cut.keep, covers |-> made,
        lost |-> (previous \ made) \cup IF last = 0 THEN {} ELSE log[last].lost]

(***************************************************************************)
(* The conversation.                                                       *)
(***************************************************************************)
Room == Len(log) < MaxEntries      \* nothing that ends in an entry starts without
Aside == asides < MaxAsides /\ asides' = asides + 1

Append1(entry) == /\ Room
                  /\ log' = Append(log, entry)
                  /\ leaf' = Len(log) + 1

Entry(kind) == [kind |-> kind, parent |-> leaf]

(* A prompt, a steering or follow-up message, or a message of an           *)
(* extension; without a run only a prompt starts one.                      *)
Say(kind) ==
    /\ call = 0
    /\ Append1(Entry(kind))
    /\ running' = (running \/ kind = "user")
    /\ IF kind = "user" THEN UNCHANGED asides ELSE Aside
    /\ UNCHANGED <<call, compacting, branching>>

(* The model answers a run, or agent.continue() after a compaction or a    *)
(* retry.                                                                  *)
Answers == call = 0 /\ (running \/ Context(Path) # {})

Answer ==
    /\ Answers
    /\ Append1(Entry("assistant"))
    /\ running' = FALSE
    /\ UNCHANGED <<call, compacting, branching, asides>>

CallTool ==
    /\ Answers
    /\ Append1(Entry("calls"))
    /\ call' = Len(log) + 1
    /\ running' = TRUE
    /\ UNCHANGED <<compacting, branching, asides>>

ToolResult ==
    /\ call # 0
    /\ Append1([kind |-> "result", parent |-> leaf, call |-> call])
    /\ call' = 0
    /\ UNCHANGED <<running, compacting, branching, asides>>

(* recordBashResult without a run. *)
Bash ==
    /\ ~running
    /\ Aside
    /\ Append1(Entry("bash"))
    /\ UNCHANGED <<running, call, compacting, branching>>

(* setModel, setThinkingLevel, setSessionName, labels: at any time.        *)
Set ==
    /\ Aside
    /\ Append1(Entry("setting"))
    /\ UNCHANGED <<running, call, compacting, branching>>

(***************************************************************************)
(* Compaction.  The automatic one follows a run or precedes a prompt; the  *)
(* manual one aborts the run, which is no longer listened to.              *)
(***************************************************************************)
Compactions == Cardinality({i \in Entries : Kind(i) = "compaction"})
               + Cardinality({way \in Ways : compacting[way] # {}})

CompactStarts(way, spent) ==
    /\ Room /\ Compactions < MaxCompactions
    /\ compacting[way] = {}
    /\ way = "auto" => ~running
    /\ leaf # 0 /\ Kind(leaf) # "compaction"
    /\ spent \in {0} \cup {i \in FromBoundary(Path) : Kind(i) \in MessageEntries}
    /\ compacting' = [compacting EXCEPT ![way] = {Prepared(Path, spent)}]
    /\ running' = (running /\ way = "auto")
    /\ call' = IF way = "auto" THEN call ELSE 0
    /\ UNCHANGED <<log, leaf, branching, asides>>

(* appendCompaction, at the leaf of that moment. *)
CompactEnds(way) ==
    \E p \in compacting[way] :
        /\ Append1([kind |-> "compaction", parent |-> leaf, from |-> p.from,
                    keep |-> p.keep, covers |-> p.covers, lost |-> p.lost])
        /\ compacting' = [compacting EXCEPT ![way] = {}]
        /\ UNCHANGED <<running, call, branching, asides>>

(* Aborted, or the summary failed. *)
CompactFails(way) ==
    /\ compacting[way] # {}
    /\ compacting' = [compacting EXCEPT ![way] = {}]
    /\ UNCHANGED <<log, leaf, running, call, branching, asides>>

(***************************************************************************)
(* navigateTree, with no guard against a run or a compaction.              *)
(***************************************************************************)
NewLeaf(target) ==
    IF Kind(target) \in {"user", "custom"} THEN log[target].parent ELSE target

(* collectEntriesForBranchSummary: what the old path has below the deepest *)
(* entry that it shares with the target's.                                 *)
Left(target) ==
    {i \in Path : i > Max({0} \cup (Path \cap getBranch(target)))}

Navigate(target) ==
    /\ Aside
    /\ target # leaf
    /\ leaf' = NewLeaf(target)
    /\ UNCHANGED <<log, running, call, compacting, branching>>

SummariseStarts(target) ==
    /\ Room /\ Aside
    /\ target # leaf
    /\ branching = {}
    /\ Left(target) # {}
    /\ branching' = {target}
    /\ UNCHANGED <<log, leaf, running, call, compacting>>

SummariseEnds ==
    \E target \in branching :
        /\ Append1([kind |-> "branch", parent |-> NewLeaf(target)])
        /\ branching' = {}
        /\ UNCHANGED <<running, call, compacting, asides>>

SummariseFails ==
    /\ branching # {}
    /\ branching' = {}
    /\ UNCHANGED <<log, leaf, running, call, compacting, asides>>

Init ==
    /\ log = << >> /\ leaf = 0
    /\ running = FALSE /\ call = 0
    /\ compacting = [way \in Ways |-> {}]
    /\ branching = {}
    /\ asides = 0

Next ==
    \/ \E kind \in {"user", "custom"} : Say(kind)
    \/ Answer
    \/ CallTool
    \/ ToolResult
    \/ Bash
    \/ Set
    \/ \E way \in Ways, spent \in 0 .. Len(log) : CompactStarts(way, spent)
    \/ \E way \in Ways : CompactEnds(way) \/ CompactFails(way)
    \/ \E target \in Entries : Navigate(target) \/ SummariseStarts(target)
    \/ SummariseEnds
    \/ SummariseFails

Spec == Init /\ [][Next]_vars

(***************************************************************************)
(* Properties.                                                             *)
(***************************************************************************)
(* A compaction that was written on a path without its first kept entry:   *)
(* the leaf was moved above that entry while it was summarising.           *)
Astray == \E i \in Path : Kind(i) = "compaction" /\ log[i].keep \notin Path

(* Every message on the current path reaches the model: it is in the       *)
(* context or it went into the latest summary, through compactions one     *)
(* after the other or at once, whatever is appended while a summary is     *)
(* being made and wherever the tree is entered again.  The exceptions are  *)
(* what a split turn without history drops (SummariesAccumulate) and a     *)
(* compaction gone astray.                                                 *)
NothingForgotten ==
    LET last == Latest(Path)
        summarised == IF last = 0 THEN {} ELSE log[last].covers \cup log[last].lost
    IN ~Astray => Messages(Path) \subseteq Context(Path) \cup summarised

(* A compaction that was written on a path without the entry that it was   *)
(* prepared at: the leaf was moved while it was summarising.               *)
Moved == \E i \in Path : Kind(i) = "compaction" /\ log[i].from \notin Path

(* "Never cut at tool results (they must follow their tool call)": a tool  *)
(* result in the context comes with the call it answers, if that is on the *)
(* path (it is not when the leaf was moved while the tool ran).  A cut     *)
(* chosen on one branch and written on another may come between the two.   *)
ResultsKeepTheirCall ==
    ~Moved => \A i \in Context(Path) :
        Kind(i) = "result" => log[i].call \in Context(Path) \cup (Entries \ Path)

(* docs/compaction.md: the summary is generated "passing the previous      *)
(* summary as iterative context when present", for a split turn too        *)
(* ("History summary: Previous context (if any)"): what one summary covers *)
(* the next one covers.  It does not when the turn that is split begins    *)
(* where the previous compaction began to keep.                            *)
SummariesAccumulate ==
    \A i \in Entries : Kind(i) = "compaction" => log[i].lost = {}

================================================================================
