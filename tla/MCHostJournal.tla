---------------------------- MODULE MCHostJournal ----------------------------
(***************************************************************************)
(* HostJournal for TLC: a few callers and items, chains of a few entries.  *)
(***************************************************************************)
EXTENDS HostJournal, TLC

CONSTANTS MaxExpected, \* longest expected head
          MaxBatch,    \* longest batch
          MaxPrefix    \* longest v1 prefix

MCExpected == BoundedSeq(Item, MaxExpected)
MCBatches == BoundedSeq(Item, MaxBatch)
MCPrefixes == BoundedSeq(Item, MaxPrefix)

Symmetry == Permutations(Caller) \union Permutations(Item)
==============================================================================
