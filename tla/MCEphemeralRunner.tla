------------------------- MODULE MCEphemeralRunner -------------------------
(***************************************************************************)
(* Instances of EphemeralRunner for TLC. The configurations                *)
(* EphemeralRunner*.cfg give the constants.                                *)
(***************************************************************************)
EXTENDS EphemeralRunner
=============================================================================
