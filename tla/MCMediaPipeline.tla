-------------------------- MODULE MCMediaPipeline --------------------------
(***************************************************************************)
(* TLC instance of MediaPipeline.                                          *)
(***************************************************************************)
EXTENDS MediaPipeline, TLC

Symmetry == Permutations(Runs)

=============================================================================
