---------------------------- MODULE MCGpioOutput ----------------------------
(***************************************************************************)
(* GpioOutput alone, for the disagreement with its comment: two pins, so that *)
(* a call about one can disturb the other.                                    *)
(***************************************************************************)
EXTENDS GpioOutput
=============================================================================
