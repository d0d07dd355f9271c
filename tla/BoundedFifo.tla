---------------------------- MODULE BoundedFifo ----------------------------
(***************************************************************************)
(* What the event ring promises, as operators on a sequence: a FIFO of at  *)
(* most Cap elements in which a push onto a full queue evicts the oldest   *)
(* element, and a pop takes the oldest elements, at most max of them.      *)
(* DropOldestQueue makes a specification of it, PhQueue implements that    *)
(* specification with a circular array, and Sender uses these operators.   *)
(***************************************************************************)
EXTENDS Naturals, Sequences

CONSTANT Cap          \* capacity (max_queue, never below PH_QUEUE_MIN_CAP)

Full(q) == Len(q) = Cap

(* The queue after a push, and what the push evicts.                       *)
Pushed(q, e) == Append(IF Full(q) THEN Tail(q) ELSE q, e)
Evicted(q) == IF Full(q) THEN {Head(q)} ELSE {}

(* How many elements a pop of at most max takes, which ones, and the rest. *)
Taken(q, max) == IF Len(q) < max THEN Len(q) ELSE max
Batch(q, max) == SubSeq(q, 1, Taken(q, max))
Rest(q, max) == SubSeq(q, Taken(q, max) + 1, Len(q))
=============================================================================
