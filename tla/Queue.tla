-------------------------------- MODULE Queue --------------------------------
(***************************************************************************)
(* Queue<T, N> of src/src/queue.rs: a ring of N slots, a head and a length.         *)
(* out is what the last operation returned. A queue has a single owner.       *)
(***************************************************************************)
EXTENDS Integers, Sequences

CONSTANTS
  Capacity,     \* N
  Events        \* values that are queued

ASSUME QueueAssumption == Capacity \in Nat

VARIABLES slots, head, len, out

queue  == <<slots, head, len, out>>
Cells  == 0 .. Capacity - 1
Vacant == [some |-> FALSE]
Some(e) == [some |-> TRUE, value |-> e]

Nothing == [op |-> "none", ok |-> TRUE]

QueueInit == slots = [i \in Cells |-> Vacant] /\ head = 0 /\ len = 0 /\ out = Nothing

Full == len = Capacity
Failed(op) == out' = [op |-> op, ok |-> FALSE]

\* Mutant: the tail does not wrap with the head.
TailUnwrapped == IF head + len < Capacity THEN head + len ELSE Capacity - 1

TailSlot == (head + len) % Capacity

Push(e) ==
  \/ /\ Full
     /\ out' = [op |-> "push", ok |-> FALSE, value |-> Some(e)]
     /\ UNCHANGED <<slots, head, len>>
  \/ /\ ~Full
     /\ slots' = [slots EXCEPT ![TailSlot] = Some(e)] /\ len' = len + 1
     /\ out' = [op |-> "push", ok |-> TRUE]
     /\ UNCHANGED head

Pop ==
  /\ len # 0
  /\ out' = [op |-> "pop", ok |-> TRUE, value |-> slots[head]]
  /\ slots' = [slots EXCEPT ![head] = Vacant]
  /\ head' = (head + 1) % Capacity /\ len' = len - 1

PopEmpty == len = 0 /\ Failed("pop") /\ UNCHANGED <<slots, head, len>>

PeekFront ==
  /\ \/ len # 0 /\ out' = [op |-> "front", ok |-> TRUE, value |-> slots[head]]
     \/ len = 0 /\ Failed("front")
  /\ UNCHANGED <<slots, head, len>>

Clear == slots' = [i \in Cells |-> Vacant] /\ head' = 0 /\ len' = 0 /\ out' = Nothing

QueueNext == (\E e \in Events : Push(e)) \/ Pop \/ PopEmpty \/ PeekFront \/ Clear

-----------------------------------------------------------------------------
\* The queued options, in the order they leave.
Items == [k \in 1 .. len |-> slots[(head + k - 1) % Capacity]]
=============================================================================
