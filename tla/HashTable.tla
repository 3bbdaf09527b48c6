------------------------------- MODULE HashTable -------------------------------
(***************************************************************************)
(* HashTable: the in-memory table.  One reader-writer lock guards the map, *)
(* every method is one critical section, and so each operator below is one *)
(* step of a table that several callers share.  compare_exchange compares  *)
(* expressions, which here are the values themselves; it takes the         *)
(* expression of the replacement before it takes the lock and that of the  *)
(* stored value under it.  A value whose expression asks the same table is *)
(* left out: it would wait for the lock its own caller holds.              *)
(***************************************************************************)
CONSTANTS Slot,          \* the keys
          Absent         \* the key is not in the map

VARIABLE map             \* the map: an entry, or Absent, for each key

HashInit == map = [k \in Slot |-> Absent]

HashSet(k, v) == map' = [map EXCEPT ![k] = v]

HashDel(k) == map' = [map EXCEPT ![k] = Absent]

HashClear == map' = [k \in Slot |-> Absent]

\* What compare_exchange reports as observed decides.
Matches(k, expected) == map[k] = expected

\* An exchange that is made, one that is refused changes nothing; expected and replacement are Absent for "no entry".
HashExchange(k, expected, replacement) ==
    /\ Matches(k, expected)
    /\ map' = [map EXCEPT ![k] = replacement]
==============================================================================
