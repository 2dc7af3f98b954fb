----------------------------- MODULE MCScaleSet -----------------------------
(***************************************************************************)
(* Instances of ScaleSet for TLC: runner names are interchangeable.         *)
(***************************************************************************)
EXTENDS ScaleSet, TLC

RunnerSymmetry == Permutations(Runners)
=============================================================================
