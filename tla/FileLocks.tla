------------------------------ MODULE FileLocks ------------------------------
(***************************************************************************)
(* What a queue of file operations promises: under each key the operations *)
(* run one at a time, in the order they arrived, and each gets its turn.   *)
(***************************************************************************)
EXTENDS Integers, Sequences

CONSTANTS Calls, Keys

VARIABLES
    line,     \* for each key, the operations that wait or run, oldest first
    holding   \* the operations that run

vars == <<line, holding>>

InLine(c) == \E k \in Keys : \E i \in 1..Len(line[k]) : line[k][i] = c
IsFirst(c, k) == line[k] # <<>> /\ Head(line[k]) = c

Init ==
    /\ line = [k \in Keys |-> <<>>]
    /\ holding = {}

Arrive(c, k) ==
    /\ ~InLine(c)
    /\ line' = [line EXCEPT ![k] = Append(@, c)]
    /\ UNCHANGED holding

Enter(c, k) ==
    /\ IsFirst(c, k)
    /\ c \notin holding
    /\ holding' = holding \cup {c}
    /\ UNCHANGED line

Leave(c, k) ==
    /\ IsFirst(c, k)
    /\ c \in holding
    /\ line' = [line EXCEPT ![k] = Tail(@)]
    /\ holding' = holding \ {c}

Next == \E c \in Calls, k \in Keys : Arrive(c, k) \/ Enter(c, k) \/ Leave(c, k)

Spec ==
    /\ Init
    /\ [][Next]_vars
    /\ \A c \in Calls, k \in Keys : WF_vars(Enter(c, k)) /\ WF_vars(Leave(c, k))
=============================================================================
