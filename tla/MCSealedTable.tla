----------------------------- MODULE MCSealedTable -----------------------------
(* Small instance: a table, its child at the one name, and a second table on  *)
(* the first one's lane with the next generation and nonces of its own.       *)
EXTENDS SealedTable, TLC

CONSTANTS table, child, other, l1, l2, n1

MCOrigin == (table :> table) @@ (child :> table) @@ (other :> other)
MCLaneOf == (table :> l1) @@ (child :> l2) @@ (other :> l1)
MCChildLane == (l1 :> (n1 :> l2)) @@ (l2 :> (n1 :> NoLane))
MCGeneration == (table :> 1) @@ (child :> 1) @@ (other :> 2)

Symmetry == Permutations(Caller) \union Permutations(Secret) \union Permutations(Nonce)
            \union Permutations(Value)
==============================================================================
