-------------------------- MODULE MCFirmwareTests ---------------------------
(***************************************************************************)
(* FirmwareTests alone, for the disagreement about fetching.                  *)
(***************************************************************************)
EXTENDS FirmwareTests
=============================================================================
