------------------------------ MODULE Devices -------------------------------
(***************************************************************************)
(* The device registers the library drives, as xtask/src/machine.rs (the    *)
(* reference interpreter of the board) defines them: the one-byte TextIO    *)
(* latch with its control register, and the GPIO edge latches. The outside  *)
(* world delivers a byte or moves an input pin between two instructions.    *)
(***************************************************************************)
EXTENDS Integers, FiniteSets

CONSTANTS
  Pins,         \* GPIO pins
  MaxBytes,     \* bound: bytes the outside world sends, numbered in order
  MaxEdges      \* bound: input changes the outside world makes

ASSUME DeviceAssumption == MaxBytes \in Nat /\ MaxEdges \in Nat

VARIABLES
  ctrl,         \* TEXT_CTRL: [received |-> bit 6, enabled |-> bit 7]
  data,         \* TEXT_DATA: the number of the byte in the latch
  ien,          \* GPIO IEN, as the set of pins whose bit is set
  rising, falling,   \* GPIO edge latches
  inputs,       \* levels driven from outside
  moves         \* input changes so far

device == <<ctrl, data, ien, rising, falling, inputs, moves>>

Control == [received : BOOLEAN, enabled : BOOLEAN]

DevicesInit ==
  /\ ctrl = [received |-> FALSE, enabled |-> FALSE] /\ data = 0
  /\ ien = {} /\ rising = {} /\ falling = {} /\ inputs = {} /\ moves = 0

DevicesTypeOK ==
  /\ ctrl \in Control /\ data \in 0 .. MaxBytes
  /\ ien \subseteq Pins /\ rising \subseteq Pins /\ falling \subseteq Pins
  /\ inputs \subseteq Pins /\ moves \in 0 .. MaxEdges

\* Machine::pending: the level of the interrupt request line.
Pending ==
  \/ ctrl.received /\ ctrl.enabled
  \/ (rising \cup falling) \cap ien # {}

\* Rig::receive: the next byte enters the empty latch.
Receive ==
  /\ ~ctrl.received /\ data < MaxBytes
  /\ data' = data + 1
  /\ ctrl' = [ctrl EXCEPT !.received = TRUE]
  /\ UNCHANGED <<ien, rising, falling, inputs, moves>>

\* Rig::toggle and Machine::set_inputs: a level change latches its edge.
Toggle(pin) ==
  /\ moves < MaxEdges
  /\ moves' = moves + 1
  /\ IF pin \in inputs
     THEN inputs' = inputs \ {pin} /\ falling' = falling \cup {pin} /\ UNCHANGED rising
     ELSE inputs' = inputs \cup {pin} /\ rising' = rising \cup {pin} /\ UNCHANGED falling
  /\ UNCHANGED <<ctrl, data, ien>>

\* Register stores: the control register and the GPIO registers are plain memory.
WriteCtrl(received, enabled) ==
  /\ ctrl' = [received |-> received, enabled |-> enabled]
  /\ UNCHANGED <<data, ien, rising, falling, inputs, moves>>

WriteIen(mask) ==
  /\ ien' = mask
  /\ UNCHANGED <<ctrl, data, rising, falling, inputs, moves>>

WriteRising(bits) ==
  /\ rising' = bits
  /\ UNCHANGED <<ctrl, data, ien, falling, inputs, moves>>

WriteFalling(bits) ==
  /\ falling' = bits
  /\ UNCHANGED <<ctrl, data, ien, rising, inputs, moves>>
=============================================================================
