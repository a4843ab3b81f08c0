------------------------------ MODULE Debouncer ------------------------------
(***************************************************************************)
(* Debouncer of src/src/input.rs: a level changes when threshold consecutive  *)
(* samples disagree with it. edge is what the last sample returned.           *)
(***************************************************************************)
EXTENDS Integers

CONSTANTS
  MaxCount,     \* u16::MAX
  Thresholds    \* thresholds passed to new

ASSUME DebouncerAssumption == MaxCount \in Nat \ {0} /\ Thresholds \subseteq 0 .. MaxCount

VARIABLES threshold, count, stable, candidate, edge

debouncer == <<threshold, count, stable, candidate, edge>>

DebouncerInit ==
  /\ \E t \in Thresholds : threshold = IF t = 0 THEN 1 ELSE t
  /\ count = 0 /\ stable \in BOOLEAN /\ candidate = stable /\ edge = "None"

\* The count a sample is added to, and the sum, saturating.
CountOf(v) == IF v # candidate THEN 0 ELSE count
Counted(v) == IF CountOf(v) < MaxCount THEN CountOf(v) + 1 ELSE MaxCount

Agreed(v) == Counted(v) >= threshold

Settled(v) ==
  /\ v = stable
  /\ count' = 0 /\ candidate' = v /\ edge' = "None"
  /\ UNCHANGED <<threshold, stable>>

Counting(v) ==
  /\ v # stable /\ ~Agreed(v)
  /\ count' = Counted(v) /\ candidate' = v /\ edge' = "None"
  /\ UNCHANGED <<threshold, stable>>

\* Mutant: the stable level is not updated.
RecognisedAgain(v) ==
  /\ v # stable /\ Agreed(v)
  /\ count' = 0 /\ candidate' = v /\ edge' = IF v THEN "Rising" ELSE "Falling"
  /\ UNCHANGED <<threshold, stable>>

Recognised(v) ==
  /\ v # stable /\ Agreed(v)
  /\ stable' = v /\ count' = 0 /\ candidate' = v
  /\ edge' = IF v THEN "Rising" ELSE "Falling"
  /\ UNCHANGED threshold

Sample(v) == Settled(v) \/ Counting(v) \/ Recognised(v)

=============================================================================
