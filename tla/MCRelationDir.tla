----------------------------- MODULE MCRelationDir -----------------------------
(* Small instance: two symbols share the local name p1. *)
EXTENDS RelationDir, TLC

CONSTANTS p1, a, qa, root, r1, r2

MCLocal == (a :> p1) @@ (qa :> p1) @@ (root :> NoPart)

\* r2 is the relation that comes second to the slot.
MCMaxGeneration == (r1 :> 4) @@ (r2 :> 1)

\* The two symbols are alike.
Symmetric == Permutations({a, qa})
==============================================================================
