----------------------------- MODULE GpioOutput -----------------------------
(***************************************************************************)
(* Direction and output calls of the GPIO driver (gpio.rs), one register      *)
(* access of the foreground per step. An interrupt callback may run between   *)
(* any two of them, unless the foreground made its call with the sources      *)
(* masked; the foreground waits for it, so a call of the callback is one      *)
(* step. Registers are sets of pins; the levels outside are arbitrary at each *)
(* load. Ghosts want, way and stale say what the calls asked of each pin, and *)
(* which pins a callback changed during the foreground's call.                *)
(***************************************************************************)
EXTENDS Integers, Sequences

CONSTANTS Pins, Masks     \* the masks calls are made with

ASSUME GpioAssumption == Masks \subseteq SUBSET Pins

VARIABLES
  dir,          \* DIR: pins that are inputs
  latches,      \* the output latches behind VALUE
  call,         \* the foreground's call: [name, mask, value], or Idle
  todo,         \* its accesses left
  d, v, t,      \* its loaded direction, value, and toggle's value
  shielded,     \* it runs with the sources masked
  want,         \* per pin: the level last driven on it as an output, if known
  way,          \* per pin: the direction last configured, if known
  stale         \* pins the callback changed during it

device == <<dir, latches>>
locals == <<d, v, t>>
asked  == <<want, way, stale>>
output == <<device, locals, call, todo, shielded, asked>>

Idle  == [name |-> "idle", mask |-> {}, value |-> {}]
Names == {"direct", "inputs", "outputs", "write", "masked", "toggle"}

\* Only write and write_masked have a value; write is of every pin.
Calls == {c \in [name : Names, mask : Masks \cup {Pins}, value : SUBSET Pins] :
            /\ c.value \subseteq c.mask
            /\ IF c.name = "write" THEN c.mask = Pins ELSE c.mask \in Masks
            /\ c.name \in {"write", "masked"} \/ c.value = {}}

\* Machine::new: every pin is an input, every latch low.
OutputInit ==
  /\ dir = Pins /\ latches = {}
  /\ call = Idle /\ todo = << >> /\ d = {} /\ v = {} /\ t = {} /\ shielded = FALSE
  /\ want = [p \in Pins |-> "any"] /\ way = [p \in Pins |-> "in"] /\ stale = {}

\* What a load of VALUE may return: outside levels of inputs, latches of outputs.
Readings == {levels \cup (latches \ dir) : levels \in SUBSET dir}

-----------------------------------------------------------------------------
(* What a call stores, given what it has loaded. *)

Selected(c, loadedDir) == c.mask \ loadedDir

\* Mutant: the selected bits are set but never cleared.
MaskedOred(c, level, loadedDir, old) == old \cup (level \cap Selected(c, loadedDir))

Masked(c, level, loadedDir, old) ==
  (old \ Selected(c, loadedDir)) \cup (level \cap Selected(c, loadedDir))

\* The levels a call drives; toggle's are the inverse of what it sampled.
Drive(c, sampled) == IF c.name = "toggle" THEN c.mask \ sampled ELSE c.value

NewOut(c, loadedDir, old, sampled) ==
  CASE c.name = "write" -> c.value
    [] c.name \in {"masked", "toggle"} -> Masked(c, Drive(c, sampled), loadedDir, old)
    [] OTHER -> latches

NewDir(c, loadedDir) ==
  CASE c.name = "direct" -> c.mask
    [] c.name = "inputs" -> loadedDir \cup c.mask
    [] c.name = "outputs" -> loadedDir \ c.mask
    [] OTHER -> dir

\* What the call means for each pin: undone are pins its loads were stale about.
Driven(c, loadedDir) ==
  CASE c.name = "write" -> Pins
    [] c.name \in {"masked", "toggle"} -> Selected(c, loadedDir)
    [] OTHER -> {}

Meaning(c, loadedDir, sampled, undone) ==
  /\ way' = [p \in Pins |->
       IF c.name \in {"direct", "inputs"} /\ p \in c.mask THEN "in"
       ELSE IF c.name = "direct" \/ (c.name = "outputs" /\ p \in c.mask) THEN "out"
       ELSE IF c.name \in {"inputs", "outputs"} /\ p \in undone THEN "any" ELSE way[p]]
  /\ want' = [p \in Pins |->
       IF p \in dir' THEN "any"
       ELSE IF p \in Driven(c, loadedDir) THEN (IF p \in Drive(c, sampled) THEN "high" ELSE "low")
       ELSE IF p \in undone THEN "any" ELSE want[p]]

Store(c, loadedDir, old, sampled, undone) ==
  /\ latches' = NewOut(c, loadedDir, old, sampled)
  /\ dir' = NewDir(c, loadedDir)
  /\ Meaning(c, loadedDir, sampled, undone)

-----------------------------------------------------------------------------
(* The foreground's call, as the sequence of its register accesses. *)

WriteMasked == <<"direction", "read", "store">>

Accesses(name) ==
  CASE name \in {"inputs", "outputs"} -> <<"direction", "store">>
    [] name \in {"direct", "write"} -> <<"store">>
    [] name = "masked" -> WriteMasked
    [] name = "toggle" -> <<"sample">> \o WriteMasked

Begin ==
  /\ todo = << >>
  /\ \E c \in Calls : call' = c /\ todo' = Accesses(c.name)
  /\ shielded' \in BOOLEAN
  /\ UNCHANGED <<device, locals, asked>>

Access(name) == todo # << >> /\ Head(todo) = name /\ todo' = Tail(todo)

Load(name) == Access(name) /\ UNCHANGED <<device, call, shielded, asked>>

SampleLevels    == Load("sample") /\ UNCHANGED <<d, v>>
             /\ t' \in Readings
Direction == Load("direction") /\ d' = dir /\ UNCHANGED <<v, t>>
Read      == Load("read") /\ UNCHANGED <<d, t>>
             /\ v' \in Readings

\* The store ends the call; nothing of it is left.
ForegroundStore ==
  /\ Access("store")
  /\ Store(call, d, v, t, stale)
  /\ call' = Idle /\ d' = {} /\ v' = {} /\ t' = {} /\ shielded' = FALSE /\ stale' = {}

\* A call of the callback, between two accesses of the foreground.
Differ(x, y) == (x \ y) \cup (y \ x)

OutputAdmitted == ~shielded

OutputCallback ==
  /\ OutputAdmitted
  /\ \E c \in Calls, old, sampled \in Readings : Store(c, dir, old, sampled, {})
  /\ stale' = IF todo = << >> THEN {} ELSE stale \cup Differ(latches, latches') \cup Differ(dir, dir')
  /\ UNCHANGED <<locals, call, todo, shielded>>

OutputNext == Begin \/ SampleLevels \/ Direction \/ Read \/ ForegroundStore \/ OutputCallback

OutputSpec == OutputInit /\ [][OutputNext]_output

-----------------------------------------------------------------------------
\* Registers and locals are sets of pins; a call is in progress while it has accesses left.
OutputTypeOK ==
  /\ dir \subseteq Pins /\ latches \subseteq Pins /\ stale \subseteq Pins
  /\ call \in Calls \cup {Idle} /\ shielded \in BOOLEAN /\ (call = Idle <=> todo = << >>)
  /\ d \subseteq Pins /\ v \subseteq Pins /\ t \subseteq Pins
  /\ want \in [Pins -> {"any", "high", "low"}] /\ way \in [Pins -> {"any", "in", "out"}]

\* A pin that stayed an output keeps the level last driven on it, by whichever
\* actor and through every call about other pins, unless a callback changed it
\* inside an unmasked read-modify-write of the foreground (gpio.rs, 62).
OutputsHold == \A p \in Pins \ dir : want[p] # "any" => (p \in latches <=> want[p] = "high")

\* A pin keeps the direction last configured, with the same exception.
DirectionsHold == \A p \in Pins : way[p] # "any" => (p \in dir <=> way[p] = "in")

\* Masking the sources closes the window: a masked call leaves no pin in doubt
\* that was not in doubt when it began (runtime.rs, 41, around gpio.rs, 63).
MaskedCallsExact ==
  [][shielded => \A p \in Pins \ dir' : want[p] # "any" => want'[p] # "any"]_output

\* A call about one pin neither changes the level nor the direction of another, whichever
\* actor makes it; the exception needs an unmasked read-modify-write (gpio.rs, 34 to 80).
PinsHold == [](OutputTypeOK /\ OutputsHold /\ DirectionsHold) /\ MaskedCallsExact

-----------------------------------------------------------------------------
\* "Only selected currently-output bits are updated" (gpio.rs, 62): a write about
\* some pins leaves the output latch of every pin that was not selected as it is,
\* even with the sources masked.
OnlySelectedUpdated ==
  [][shielded /\ call.name \in {"masked", "toggle"} /\ call' = Idle
       => Differ(latches, latches') \subseteq call.mask]_output
=============================================================================
