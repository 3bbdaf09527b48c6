---------------------------- MODULE MCObjectStore ----------------------------
(***************************************************************************)
(* ObjectStore for TLC.                                                    *)
(***************************************************************************)
EXTENDS ObjectStore, TLC

Symmetry == Permutations(Client) \union Permutations(Object)
==============================================================================
