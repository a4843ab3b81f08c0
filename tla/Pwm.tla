--------------------------------- MODULE Pwm ---------------------------------
(***************************************************************************)
(* Pwm of src/src/input.rs, asked for its level at every tick of a wrapping    *)
(* counter, as examples/gpio_pwm.rs does. shape is not in the code: the levels  *)
(* of the last ticks, as many as a period, since the duty was last set.        *)
(***************************************************************************)
EXTENDS Time, Sequences, FiniteSets

CONSTANT PwmPeriods     \* periods asked for, valid or not; u16 in the code

\* A period counts in half the bits of a tick.
ASSUME PwmAssumption == PwmPeriods \subseteq Nat /\ \A p \in PwmPeriods : p < 2 * Half

VARIABLES tick, period, duty, shape

pwm == <<tick, period, duty, shape>>

\* Pwm::new refuses a period of zero and a duty above the period.
Accepted(p, d) == p # 0 /\ d <= p

PwmInit ==
  /\ tick \in Ticks /\ shape = << >>
  /\ \E p \in PwmPeriods : \E d \in 0 .. p : Accepted(p, d) /\ period = p /\ duty = d

\* Mutant: the last tick of the duty is one too far.
LevelInclusive(t) == t % period <= duty

Level(t) == t % period < duty

\* The last ticks, as many as a period.
LastPeriod(levels) == IF Len(levels) > period THEN Tail(levels) ELSE levels

Tick ==
  /\ shape' = LastPeriod(Append(shape, Level(tick)))
  /\ tick' = WrapAdd(tick, 1)
  /\ UNCHANGED <<period, duty>>

\* set_duty; a refused duty changes nothing.
SetDuty == \E d \in 0 .. period :
  duty' = d /\ shape' = << >> /\ UNCHANGED <<tick, period>>

PwmNext == Tick \/ SetDuty

PwmSpec == PwmInit /\ [][PwmNext]_pwm

-----------------------------------------------------------------------------
HighTicks == Cardinality({k \in DOMAIN shape : shape[k]})

\* The counter wrapped during these ticks.
Wrapped == tick < Len(shape)

\* Where the counter's wrap leaves the phase, and how far that is from a whole period.
Jump == (2 * Half) % period
Off  == IF Jump < period - Jump THEN Jump ELSE period - Jump

\* Over any period of ticks in a row the output is high for exactly the duty, wherever the
\* period begins; only a period that the counter's wrap cuts is off, by no more than the wrap
\* shifts the phase, and not at all if the period divides the counter's range (input.rs level).
DutyHeld ==
  Len(shape) = period =>
    IF Wrapped THEN duty - Off <= HighTicks /\ HighTicks <= duty + Off ELSE HighTicks = duty
=============================================================================
