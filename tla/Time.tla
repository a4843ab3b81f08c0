-------------------------------- MODULE Time --------------------------------
(***************************************************************************)
(* The wrapping tick arithmetic of src/src/time.rs at a parametric width:    *)
(* ticks count modulo 2*Half, where the code has Half = 2^31.               *)
(***************************************************************************)
EXTENDS Integers

CONSTANT Half

ASSUME TimeAssumption == Half \in Nat \ {0}

Ticks == 0 .. 2 * Half - 1

MaxInterval == Half - 1

\* u32::wrapping_add and wrapping_sub
WrapAdd(a, b) == (a + b) % (2 * Half)
WrapSub(a, b) == (a - b) % (2 * Half)

\* now.wrapping_sub(deadline) as i32 >= 0
Reached(now, deadline) == WrapSub(now, deadline) < Half
=============================================================================
