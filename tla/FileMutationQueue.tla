-------------------------- MODULE FileMutationQueue --------------------------
(***************************************************************************)
(* withFileMutationQueue                                                   *)
(* (packages/coding-agent/src/core/tools/file-mutation-queue.ts): the edit *)
(* and write tools run their file operations through it, so that           *)
(* operations on one file run one after another.                           *)
(*                                                                         *)
(* The calls are numbered in the order they are made.  A call registers    *)
(* when the registrations before it are through: it resolves its path to a *)
(* key (the real path, or the path itself while the file is missing), then *)
(* chains itself behind the last call that has the same key.               *)
(***************************************************************************)
EXTENDS SeqFilter, Functions

CONSTANTS
    N,              \* the number of calls
    Paths,          \* the paths they may name
    Real,           \* the file each path stands for (realpath)
    InitiallyThere  \* the files that exist at the start

ASSUME NAssumption == N \in Nat
ASSUME PathsAssumption == /\ Real \in [Paths -> Paths]
                          /\ \A p \in Paths : Real[Real[p]] = Real[p]
ASSUME FilesAssumption == InitiallyThere \subseteq Range(Real)

None == 0
QueueCalls == 1..N     \* in the order they are made

VARIABLES
    pc,      \* where each call is
    path,    \* the path it was made with
    key,     \* its key, once resolved
    behind,  \* the call whose chain it awaits (currentQueue), or None
    tail,    \* fileMutationQueues: the last call chained under each key
    there    \* the files that exist

queueVars == <<pc, path, key, behind, tail, there>>

Locations == {"new", "registering", "resolved", "waiting", "running", "done",
              "rejected"}

QueueInit ==
    /\ pc = [c \in QueueCalls |-> "new"]
    /\ path \in [QueueCalls -> Paths]
    /\ key = path
    /\ behind = [c \in QueueCalls |-> None]
    /\ tail = [p \in Paths |-> None]
    /\ there = InitiallyThere

CallMade(c) ==
    /\ pc[c] = "new"
    /\ \A d \in QueueCalls : d < c => pc[d] # "new"
    /\ pc' = [pc EXCEPT ![c] = "registering"]
    /\ UNCHANGED <<path, key, behind, tail, there>>

(* registrationQueue: every earlier call has registered, or failed to. *)
MyTurn(c) == \A d \in QueueCalls : d < c => pc[d] \notin {"new", "registering", "resolved"}

(***************************************************************************)
(* getMutationQueueKey                                                     *)
(***************************************************************************)
GetMutationQueueKey(p) == IF Real[p] \in there THEN Real[p] ELSE p

ResolveKey(c) ==
    /\ pc[c] = "registering"
    /\ MyTurn(c)
    /\ key' = [key EXCEPT ![c] = GetMutationQueueKey(path[c])]
    /\ pc' = [pc EXCEPT ![c] = "resolved"]
    /\ UNCHANGED <<path, behind, tail, there>>

(* realpath fails with something else than a missing path. *)
ResolveFails(c) ==
    /\ pc[c] = "registering"
    /\ MyTurn(c)
    /\ pc' = [pc EXCEPT ![c] = "rejected"]
    /\ UNCHANGED <<path, key, behind, tail, there>>

(* A registration that starts a new chain although one is there. *)
RegisterUnchained(c) ==
    /\ pc[c] = "resolved"
    /\ behind' = [behind EXCEPT ![c] = None]
    /\ tail' = [tail EXCEPT ![key[c]] = c]
    /\ pc' = [pc EXCEPT ![c] = "waiting"]
    /\ UNCHANGED <<path, key, there>>

Register(c) ==
    /\ pc[c] = "resolved"
    /\ behind' = [behind EXCEPT ![c] = tail[key[c]]]
    /\ tail' = [tail EXCEPT ![key[c]] = c]
    /\ pc' = [pc EXCEPT ![c] = "waiting"]
    /\ UNCHANGED <<path, key, there>>

(* A chain that only the first call of a key gets through. *)
ReleasedOnlyEmpty(c) == c = None

(***************************************************************************)
(* A chain resolves when the call that made it has released it.            *)
(***************************************************************************)
Released(c) == c \in {None} \cup {d \in QueueCalls : pc[d] = "done"}

Begin(c) ==
    /\ pc[c] = "waiting"
    /\ Released(behind[c])
    /\ pc' = [pc EXCEPT ![c] = "running"]
    /\ UNCHANGED <<path, key, behind, tail, there>>

(* fn creates, replaces or removes its file while it runs. *)
Mutate(c) ==
    /\ pc[c] = "running"
    /\ there' \in {there \cup {Real[path[c]]}, there \ {Real[path[c]]}}
    /\ UNCHANGED <<pc, path, key, behind, tail>>

(* A finally that removes whatever chain is there. *)
FinishDropsChain(c) ==
    /\ pc[c] = "running"
    /\ pc' = [pc EXCEPT ![c] = "done"]
    /\ tail' = [tail EXCEPT ![key[c]] = None]
    /\ UNCHANGED <<path, key, behind, there>>

(* A finally that leaves the chain in the map. *)
FinishKeepsChain(c) ==
    /\ pc[c] = "running"
    /\ pc' = [pc EXCEPT ![c] = "done"]
    /\ UNCHANGED <<path, key, behind, tail, there>>

(* fn settles either way; finally releases the chain. *)
Finish(c) ==
    /\ pc[c] = "running"
    /\ pc' = [pc EXCEPT ![c] = "done"]
    /\ tail' = IF tail[key[c]] = c THEN [tail EXCEPT ![key[c]] = None] ELSE tail
    /\ UNCHANGED <<path, key, behind, there>>

Step(c) == ResolveKey(c) \/ Register(c) \/ Begin(c) \/ Finish(c)

QueueNext == \E c \in QueueCalls : CallMade(c) \/ Step(c) \/ ResolveFails(c) \/ Mutate(c)

(* Registrations, chains and operations that can go on do so. *)
QueueSpec ==
    /\ QueueInit
    /\ [][QueueNext]_queueVars
    /\ \A c \in QueueCalls : WF_queueVars(Step(c))

-----------------------------------------------------------------------------
(***************************************************************************)
(* Properties.                                                             *)
(***************************************************************************)
Live(c) == pc[c] \in {"waiting", "running"}

\* Types of the state of the queue: each call's place, and the chains.
TypeOK ==
    /\ pc \in [QueueCalls -> Locations]
    /\ path \in [QueueCalls -> Paths] /\ key \in [QueueCalls -> Paths]
    /\ behind \in [QueueCalls -> QueueCalls \cup {None}]
    /\ tail \in [Paths -> QueueCalls \cup {None}]
    /\ there \subseteq Paths

\* Operations with one key never run together, and one that is ahead in the
\* order of the calls runs first.
OneAtATime ==
    \A c, d \in QueueCalls : c < d /\ key[c] = key[d] /\ Live(c) => pc[d] # "running"

\* The map holds the chains of calls that wait or run, under their own key, and
\* the last of them: no chain is left behind, none is dropped too early.
ChainsAreLive ==
    /\ \A p \in Paths : tail[p] # None => Live(tail[p]) /\ key[tail[p]] = p
    /\ \A c \in QueueCalls : Live(c) => c <= tail[key[c]]

\* Every call settles: it is rejected, or gets its turn and finishes.
EveryCallSettles ==
    \A c \in QueueCalls : pc[c] = "registering" ~> pc[c] \in {"done", "rejected"}

(***************************************************************************)
(* The calls with one key that wait or run form the line of that key.      *)
(***************************************************************************)
LiveOf(k) == {c \in QueueCalls : Live(c) /\ key[c] = k}
UpTo(n) == [c \in 1..n |-> c]
Lines == [k \in Paths |-> Keep(UpTo(N), LiveOf(k))]
Holders == {c \in QueueCalls : pc[c] = "running"}

Locks == INSTANCE FileLocks
            WITH Calls <- QueueCalls, Keys <- Paths, line <- Lines, holding <- Holders

\* withFileMutationQueue is a first-come-first-served lock for each key:
\* registration, chaining and release implement FileLocks, fairness included.
ImplementsLocks == Locks!Spec
=============================================================================
