------------------------- MODULE PendingMessageQueue -------------------------
(***************************************************************************)
(* The queue of steering or follow-up messages of an Agent                 *)
(* (packages/agent/src/agent.ts, PendingMessageQueue).  A drain takes all  *)
(* messages or only the oldest, by the queue's mode at that moment.        *)
(***************************************************************************)
EXTENDS Integers, Sequences

QueueMode == {"all", "one-at-a-time"}

(* A drain that leaves in the queue what it takes. *)
LeftKept(q, mode) == q

(***************************************************************************)
(* What drain() returns, and what it leaves in the queue.                  *)
(***************************************************************************)
Drained(q, mode) == IF mode = "all" \/ q = <<>> THEN q ELSE <<Head(q)>>

Left(q, mode) == IF mode = "all" \/ q = <<>> THEN <<>> ELSE Tail(q)
=============================================================================
