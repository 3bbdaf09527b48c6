--------------------------- MODULE MCMemoryJournal ---------------------------
(***************************************************************************)
(* MemoryJournal for TLC.                                                  *)
(***************************************************************************)
EXTENDS MemoryJournal, TLC

CONSTANTS MaxExpected, \* longest expected head
          MaxBatch     \* longest batch

MCExpected == BoundedSeq(Item, MaxExpected)
MCBatches == BoundedSeq(Item, MaxBatch)

Symmetry == Permutations(Caller) \union Permutations(Item)
==============================================================================
