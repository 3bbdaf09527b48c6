------------------------------ MODULE JournalLog ------------------------------
(***************************************************************************)
(* What a journal promises to its callers, whatever backend stores it: one *)
(* append-only log, extended only under the newest lease, whose            *)
(* acknowledged entries stay for ever and whose post-commit actions run at *)
(* most once each, in log order.  HostJournal and MemoryJournal are shown  *)
(* to implement this module.                                               *)
(*                                                                         *)
(* An entry's canonical id hashes its sequence number, its predecessor's   *)
(* id, its kind and its payload ids, so an id stands for the whole chain   *)
(* of entries that ends there.  A head is therefore the sequence of items  *)
(* (kind and payload) of that chain; the empty sequence is "no head".      *)
(***************************************************************************)
EXTENDS Naturals, SequencesExt

CONSTANTS Caller,   \* the threads and processes that call Journal<B>
          Item,     \* the kind and payload of one entry
          MaxFence  \* the largest writer generation, that of a u64

VARIABLES log,      \* the committed chain
          fence,    \* the newest writer generation
          lease,    \* lease[c]: the fence of the Lease value c holds, 0 if none
          calls,    \* the chains whose post-commit action has run, in order
          acked     \* the chains a publish has been answered Ok for

vars == <<log, fence, lease, calls, acked>>

Holds(c) == lease[c] # 0 /\ lease[c] = fence

Init == /\ log \in Seq(Item)
        /\ fence \in Nat
        /\ lease = [c \in Caller |-> 0]
        /\ calls = <<>>
        /\ acked = {}

\* A new writer generation; every older lease is worth nothing from here on.
Acquire(c) == /\ fence < MaxFence
              /\ fence' = fence + 1
              /\ lease' = [lease EXCEPT ![c] = fence + 1]
              /\ UNCHANGED <<log, calls, acked>>

\* A Lease is a value: its holder may hand a copy to another thread.
Share(c, d) == /\ lease' = [lease EXCEPT ![d] = lease[c]]
               /\ UNCHANGED <<log, fence, calls, acked>>

\* A whole batch enters the log at once, under the newest lease.
Commit(c) == /\ Holds(c)
             /\ log' \in Seq(Item)
             /\ IsStrictPrefix(log, log')
             /\ UNCHANGED <<fence, lease, calls, acked>>

\* A writer of the first storage format, cut off by the first lease.
LegacyCommit(item) == /\ \A c \in Caller : lease[c] = 0
                      /\ log' = Append(log, item)
                      /\ UNCHANGED <<fence, lease, calls, acked>>

\* The action of the newest commit, under the exclusion of that commit.
Act(c) == /\ Holds(c)
          /\ \A i \in 1..Len(calls) : IsStrictPrefix(calls[i], log)
          /\ calls' = Append(calls, log)
          /\ UNCHANGED <<log, fence, lease, acked>>

\* Answer Ok for a chain of the log: a fresh commit or an exact redelivery.
Acknowledge(chain) == /\ chain # <<>>
                      /\ acked' = acked \union {chain}
                      /\ UNCHANGED <<log, fence, lease, calls>>

Next == \/ \E c \in Caller : Acquire(c) \/ Commit(c) \/ Act(c)
        \/ \E c, d \in Caller : Share(c, d)
        \/ \E item \in Item : LegacyCommit(item)
        \/ \E chain \in Prefixes(log) : Acknowledge(chain)

Spec == Init /\ [][Next]_vars
===============================================================================
