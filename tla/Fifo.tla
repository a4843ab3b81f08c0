--------------------------------- MODULE Fifo ---------------------------------
(***************************************************************************)
(* What a queue of src/src/queue.rs promises: a sequence of at most Capacity  *)
(* values, first in first out, that a full queue refuses to extend. out is     *)
(* what the last operation returned.                                         *)
(***************************************************************************)
EXTENDS Integers, Sequences

CONSTANTS Values, Capacity

VARIABLES items, out

Nothing == [op |-> "none", ok |-> TRUE]

FifoInit == items = << >> /\ out = Nothing

\* The value comes back to the caller when there is no room.
Push(v) ==
  \/ /\ Len(items) < Capacity
     /\ items' = Append(items, v) /\ out' = [op |-> "push", ok |-> TRUE]
  \/ /\ Len(items) = Capacity
     /\ out' = [op |-> "push", ok |-> FALSE, value |-> v] /\ UNCHANGED items

Pop ==
  \/ items # << >> /\ out' = [op |-> "pop", ok |-> TRUE, value |-> Head(items)]
                   /\ items' = Tail(items)
  \/ items = << >> /\ out' = [op |-> "pop", ok |-> FALSE] /\ UNCHANGED items

Front ==
  \/ items # << >> /\ out' = [op |-> "front", ok |-> TRUE, value |-> Head(items)]
                   /\ UNCHANGED items
  \/ items = << >> /\ out' = [op |-> "front", ok |-> FALSE] /\ UNCHANGED items

Clear == items' = << >> /\ out' = Nothing

FifoNext == (\E v \in Values : Push(v)) \/ Pop \/ Front \/ Clear

FifoSpec == FifoInit /\ [][FifoNext]_<<items, out>>
=============================================================================
