---------------------------- MODULE MCOverrideTable ----------------------------
(***************************************************************************)
(* OverrideTable for TLC.                                                  *)
(***************************************************************************)
EXTENDS OverrideTable, TLC

Symmetry == Permutations(Caller) \union Permutations(Key) \union Permutations(Value)
==============================================================================
