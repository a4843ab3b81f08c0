--------------------------------- MODULE Rig ---------------------------------
(***************************************************************************)
(* How xtask types at a firmware (machine.rs, Rig::send) and judges its echo    *)
(* (scenarios.rs): the tester puts a byte into the one-byte latch, runs the     *)
(* engine in bounded pieces until the byte is taken, and lets it settle. The   *)
(* firmware polls as examples/text_echo.rs does, at any speed, or not at all.  *)
(* Bytes are numbered in the order they are sent.                             *)
(***************************************************************************)
EXTENDS Integers, Sequences

CONSTANTS
  TypedBytes,   \* bytes to send
  Attempts      \* pieces run until a byte must be taken, 50 in the code

ASSUME RigAssumption == TypedBytes \in Nat /\ Attempts \in Nat \ {0}

VARIABLES
  tester, sent, tries,      \* Rig::send: where it is, bytes sent, pieces run
  received, latch,          \* bit 6 of TEXT_CTRL, and TEXT_DATA
  firmware, held,           \* the firmware: where it is, the byte it holds
  echo                      \* what it has written

typing  == <<tester, sent, tries>>
device  == <<received, latch>>
program == <<firmware, held, echo>>
rigVars == <<typing, device, program>>

RigInit ==
  /\ tester = "boot" /\ sent = 0 /\ tries = 0
  /\ received = FALSE /\ latch = 0
  /\ firmware = "poll" /\ held = 0 /\ echo = << >>

Running == tester \in {"boot", "run", "settle"}
TesterTo(place) == tester' = place /\ UNCHANGED <<sent, tries, device, program>>

\* The first run of a scenario, before anything is sent.
Booted == tester = "boot" /\ TesterTo("receive")

\* An engine stops with an error, whatever it was running.
EngineFails == Running /\ TesterTo("failed")

-----------------------------------------------------------------------------
(* Rig::send *)

\* receive; both engines refuse a byte while another waits.
Receive ==
  /\ tester = "receive" /\ sent < TypedBytes
  /\ IF received
     THEN TesterTo("overwrite")
     ELSE /\ latch' = sent + 1 /\ received' = TRUE
          /\ sent' = sent + 1 /\ tries' = 0 /\ tester' = "run"
          /\ UNCHANGED program

\* Mutant: the tester does not look at the status after a piece.
TakenUnchecked == TRUE

Taken == ~received

\* A piece of the run is over.
PieceEnds ==
  /\ tester = "run" /\ tries' = tries + 1
  /\ tester' = IF Taken THEN "settle" ELSE IF tries' = Attempts THEN "timeout" ELSE "run"
  /\ UNCHANGED <<sent, device, program>>

Settled == tester = "settle" /\ TesterTo("receive")

Complete == [k \in 1 .. TypedBytes |-> k]

\* scenarios.rs: the text ends with what was sent.
Judge ==
  /\ tester = "receive" /\ sent = TypedBytes
  /\ TesterTo(IF echo = Complete THEN "passed" ELSE "failed")

-----------------------------------------------------------------------------
(* The firmware, while the engine runs: TextIo::try_read, then put_byte. *)

Steps(from, to) == Running /\ firmware = from /\ firmware' = to /\ UNCHANGED typing

Poll == Steps("poll", "read") /\ received /\ UNCHANGED <<device, held, echo>>

ReadData == Steps("read", "acknowledge") /\ held' = latch /\ UNCHANGED <<device, echo>>

Acknowledge ==
  Steps("acknowledge", "put") /\ received' = FALSE /\ UNCHANGED <<latch, held, echo>>

PutByte == Steps("put", "poll") /\ echo' = Append(echo, held) /\ UNCHANGED <<device, held>>

RigNext ==
  \/ Booted \/ EngineFails \/ Receive \/ PieceEnds \/ Settled \/ Judge
  \/ Poll \/ ReadData \/ Acknowledge \/ PutByte

RigSpec == RigInit /\ [][RigNext]_rigVars

-----------------------------------------------------------------------------
\* What the firmware has taken: written, or held since it acknowledged.
Took == Len(echo) + (IF firmware = "put" THEN 1 ELSE 0)

\* However slow the firmware is, send never overwrites a byte: it is echoed once and in its
\* turn, a byte is sent only when every earlier one was taken, and a firmware that never takes
\* one ends in an error, not in a lost byte (machine.rs send, textio.rs try_read).
SendDelivers ==
  /\ tester # "overwrite"
  /\ \A k \in DOMAIN echo : echo[k] = k
  /\ tester \in {"receive", "settle", "passed"} => Took = sent
  /\ tester = "timeout" => Took = sent - 1
=============================================================================
