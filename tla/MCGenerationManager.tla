------------------------- MODULE MCGenerationManager -------------------------
(***************************************************************************)
(* GenerationManager for TLC.                                              *)
(***************************************************************************)
EXTENDS GenerationManager, TLC

Symmetry == Permutations(Caller)
==============================================================================
