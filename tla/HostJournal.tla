------------------------------ MODULE HostJournal ------------------------------
(***************************************************************************)
(* HostDirJournalBackend under Journal<B>: a journal over a host directory *)
(* whose "state" leaf is compared and swapped as a whole, and whose other  *)
(* leaves are immutable and content-addressed.                             *)
(*                                                                         *)
(* One action is one call of the directory port (or one read of the        *)
(* journal, whose leaves never change once written).  Callers interleave   *)
(* between any two of them, and a caller can stop at any of them: the      *)
(* process dies, the port reports an error, or a failpoint of the test     *)
(* build fires.                                                            *)
(*                                                                         *)
(* Heads are chains of items: see JournalLog.                              *)
(***************************************************************************)
EXTENDS Naturals, SequencesExt

CONSTANTS Caller,        \* threads and processes that call the journal
          Item,          \* kind and payload of one entry; names its object too
          Expected,      \* heads a caller may pass as the expected head
          Batches,       \* entry batches a caller may publish
          Acts,          \* FALSE: publish, TRUE: publish_then
          Datums,        \* items whose object a caller may put with put_datum
          FirstPrefixes, \* v1 chains that may be on disk when the system starts
          MaxFence,      \* the largest fence (u64::MAX)
          MaxNamespaces, \* reservations before reserve_namespace gives up
          WorkBound,     \* work_bound: entries a read will walk
          NoCaller       \* nobody holds the guarded exchange

ASSUME InputsAreTyped == /\ Expected \subseteq Seq(Item)
                          /\ Batches \subseteq Seq(Item)
                          /\ FirstPrefixes \subseteq Seq(Item)
                          /\ Acts \subseteq BOOLEAN /\ Datums \subseteq Item
ASSUME BoundsAreNat == /\ MaxFence \in Nat \ {0}
                       /\ MaxNamespaces \in Nat /\ WorkBound \in Nat
ASSUME NoCallerIsNone == NoCaller \notin Caller

VARIABLES
    state,        \* the "state" leaf
    objects,      \* items whose object file is under objects-v2
    leaves,       \* entry leaves under namespaces-v2
    descriptors,  \* v1 chains with a descriptor under compat-v1
    reserved,     \* namespaces 1..reserved carry a format marker
    guard,        \* the caller inside a guarded exchange of the state leaf
    old,          \* the v1 state a writer of the first format has captured
    pc,           \* where a caller is, or how its last call ended
    lease,        \* the fence of the Lease it holds, 0 if none
    adm,          \* the Admission being published
    seen,         \* the state leaf it read ("observed")
    draft,        \* the state leaf it will exchange for it ("replacement")
    done,         \* entry leaves of the batch it has published
    calls,        \* history: chains whose after_commit has run, in order
    acked         \* history: chains whose publish returned Ok

store == <<objects, leaves, descriptors, reserved>>
local == <<adm, seen, draft, done>>
history == <<calls, acked>>
vars == <<state, store, guard, old, pc, lease, local, history>>

-------------------------------------------------------------------------------
\* The state leaf.  `base` is the v1 chain the prefix descriptor names and
\* `loc` the chain whose leaf head_location names, <<>> standing for None.

Leaf(format, fence, ns, base, head, loc) ==
    [format |-> format, fence |-> fence, ns |-> ns,
     base |-> base, head |-> head, loc |-> loc]

NoState == Leaf("none", 0, 0, <<>>, <<>>, <<>>)

Fence == 0..MaxFence

Envelope == [format : {"none", "v1", "v2"}, fence : Fence, ns : 0..MaxNamespaces,
             base : Seq(Item), head : Seq(Item), loc : Seq(Item)]

\* An Admission; `acts` says it came from publish_then and not from publish.
Admission == [fence : Fence, expected : Seq(Item), batch : Seq(Item),
              objs : SUBSET Item, acts : BOOLEAN]

NoAdmission == [fence |-> 0, expected |-> <<>>, batch |-> <<>>,
                objs |-> {}, acts |-> FALSE]

Upto(chain, n) == SubSeq(chain, 1, n)

\* A physical entry: its path holds the namespace and the entry id (the chain),
\* and its bytes the location of its predecessor in the same namespace.
EntryLeaf(ns, chain, prior) == [ns |-> ns, entry |-> chain, prior |-> prior]

\* The leaf an envelope's locator chain must meet for the n-th entry.
LeafAt(e, n) == EntryLeaf(e.ns, Upto(e.head, n),
                          IF n = Len(e.base) + 1 THEN <<>> ELSE Upto(e.head, n - 1))

\* read_v2 and verify_state find the marker, the prefix, every leaf and object.
Closed(e) ==
    e.format = "v2" =>
        /\ e.ns \in 1..reserved
        /\ e.base # <<>> => e.base \in descriptors
        /\ IsPrefix(e.base, e.head)
        /\ e.loc = IF e.head = e.base THEN <<>> ELSE e.head
        /\ \A n \in Len(e.base) + 1 .. Len(e.head) :
              LeafAt(e, n) \in leaves /\ e.head[n] \in objects

Readable(e) == Closed(e) /\ Len(e.head) <= WorkBound

\* Mutated form: the boundary is taken one step late.
ExhaustedLate(e) == e.fence > MaxFence

\* checked_add on the fence.
FenceExhausted(e) == e.fence >= MaxFence

\* verify_batch: the payloads are known and no known entry contradicts the batch.
BatchVerifies(e, expected, batch, objs) ==
    LET chain == expected \o batch
        known == IF Len(chain) < Len(e.head) THEN Len(chain) ELSE Len(e.head)
    IN /\ batch # <<>>
       /\ \A i \in 1..Len(batch) : batch[i] \in objs \union Range(e.head)
       /\ known > Len(expected) => Upto(chain, known) = Upto(e.head, known)

-------------------------------------------------------------------------------
\* A caller between two calls: its last call ended with WrongHead, or in any
\* other way (Ok, StaleLease, WriteRefused, a verification or a port error).
Outcomes == {"idle", "wrong_head"}

Steps == {"acquire", "describe", "reserve", "select",
          "admit", "confirm", "publish", "act", "reply"}

Ready(c) == pc[c] \in Outcomes

Goto(c, step) == pc' = [pc EXCEPT ![c] = step]

\* The call returns; what it held on the stack is gone.
Return(c, outcome) ==
    /\ pc' = [pc EXCEPT ![c] = outcome]
    /\ adm' = [adm EXCEPT ![c] = NoAdmission]
    /\ seen' = [seen EXCEPT ![c] = NoState]
    /\ draft' = [draft EXCEPT ![c] = NoState]
    /\ done' = [done EXCEPT ![c] = 0]

\* The chain c's batch would make the log.
Target(c) == adm[c].expected \o adm[c].batch

\* Mutated form: the exchange compares less than the bytes of the leaf.
SameFence(c) == state.format = seen[c].format /\ state.fence = seen[c].fence

\* The state leaf still holds the bytes c read.
SameBytes(c) == state = seen[c]

\* ... or does not wait for the exclusion.
ExchangesInside(c) == SameBytes(c)

\* compare_exchange, when nobody excludes c: it swaps the leaf or reports a mismatch.
Exchanges(c) == guard = NoCaller /\ SameBytes(c)
Misses(c) == guard = NoCaller /\ ~SameBytes(c)

Init ==
    /\ state \in {NoState} \union
                 {Leaf("v1", 1, 0, <<>>, chain, <<>>) : chain \in FirstPrefixes}
    /\ objects = {} /\ leaves = {} /\ descriptors = {} /\ reserved = 0
    /\ guard = NoCaller
    /\ old = state
    /\ pc = [c \in Caller |-> "idle"]
    /\ lease = [c \in Caller |-> 0]
    /\ adm = [c \in Caller |-> NoAdmission]
    /\ seen = [c \in Caller |-> NoState]
    /\ draft = [c \in Caller |-> NoState]
    /\ done = [c \in Caller |-> 0]
    /\ calls = <<>>
    /\ acked = {}

-------------------------------------------------------------------------------
\* acquire_lease

StartAcquire(c) ==
    /\ Ready(c)
    /\ Goto(c, "acquire")
    /\ UNCHANGED <<state, store, guard, old, lease, local, history>>

\* What stands between the state leaf that was read and a new lease.
FirstStep(e) == CASE e.format = "v2" -> "select"
                  [] e.format = "v1" /\ e.head # <<>> -> "describe"
                  [] OTHER -> "reserve"

\* One turn of the loop: read the state leaf and verify what it selects.
ReadForLease(c) ==
    /\ pc[c] = "acquire"
    /\ IF ~Readable(state) \/ (state.format = "v2" /\ FenceExhausted(state))
       THEN Return(c, "idle")
       ELSE /\ seen' = [seen EXCEPT ![c] = state]
            /\ Goto(c, FirstStep(state))
            /\ draft' = [draft EXCEPT ![c] =
                            IF state.format = "v2" THEN [state EXCEPT !.fence = @ + 1]
                                                   ELSE NoState]
            /\ UNCHANGED <<adm, done>>
    /\ UNCHANGED <<state, store, guard, old, lease, history>>

\* install_v2 first makes the verified v1 prefix durable as a descriptor ...
Describe(c) ==
    /\ pc[c] = "describe"
    /\ descriptors' = descriptors \union {seen[c].head}
    /\ Goto(c, "reserve")
    /\ UNCHANGED <<state, objects, leaves, reserved, guard, old, lease, local, history>>

\* ... then reserves a namespace no other coordinator has, and drafts the envelope.
Reserve(c) ==
    /\ pc[c] = "reserve"
    /\ IF FenceExhausted(seen[c]) \/ reserved = MaxNamespaces
       THEN Return(c, "idle") /\ UNCHANGED reserved
       ELSE /\ reserved' = reserved + 1
            /\ draft' = [draft EXCEPT ![c] =
                 Leaf("v2", seen[c].fence + 1, reserved + 1, seen[c].head, seen[c].head, <<>>)]
            /\ Goto(c, "select")
            /\ UNCHANGED <<adm, seen, done>>
    /\ UNCHANGED <<state, objects, leaves, descriptors, guard, old, lease, history>>

\* The exchange that makes the new fence (and format) the journal's; a miss retries.
SelectFence(c) ==
    /\ pc[c] = "select"
    /\ \/ /\ Exchanges(c)
          /\ state' = draft[c]
          /\ lease' = [lease EXCEPT ![c] = draft[c].fence]
          /\ Return(c, "idle")
       \/ /\ Misses(c)
          /\ Return(c, "acquire")
          /\ UNCHANGED <<state, lease>>
    /\ UNCHANGED <<store, guard, old, history>>

\* A Lease is Clone: callers may share one.
ShareLease(c, d) ==
    /\ Ready(d)
    /\ lease[c] # 0 /\ lease[c] # lease[d]
    /\ lease' = [lease EXCEPT ![d] = lease[c]]
    /\ UNCHANGED <<state, store, guard, old, pc, local, history>>

-------------------------------------------------------------------------------
\* publish and publish_then

\* verified_admission: read the journal, verify it and the batch against it.
StartPublish(c, expected, batch, objs, acts) ==
    /\ Ready(c)
    /\ lease[c] # 0
    /\ IF Readable(state) /\ BatchVerifies(state, expected, batch, objs)
       THEN /\ Goto(c, "admit")
            /\ adm' = [adm EXCEPT ![c] = [fence |-> lease[c], expected |-> expected,
                                          batch |-> batch, objs |-> objs, acts |-> acts]]
            /\ UNCHANGED <<seen, draft, done>>
       ELSE Return(c, "idle")
    /\ UNCHANGED <<state, store, guard, old, lease, history>>

\* Mutated form: a batch below the head is taken for one that is in the log.
RedeliversByLength(c) == Len(Target(c)) <= Len(state.head)

\* Every entry of the batch is an entry of the log.
Redelivers(c) == IsPrefix(Target(c), state.head)

\* admit_with_action: read the state leaf again and choose what the batch is to it.
Admit(c) ==
    /\ pc[c] = "admit"
    /\ \/ state.format # "v2" /\ Return(c, "idle")
       \/ state.format = "v2" /\ state.fence # adm[c].fence /\ Return(c, "idle")
       \/ /\ state.format = "v2" /\ state.fence = adm[c].fence
          /\ \/ /\ state.head = adm[c].expected
                /\ seen' = [seen EXCEPT ![c] = state]
                /\ Goto(c, "publish")
                /\ UNCHANGED <<adm, draft, done>>
             \/ /\ state.head # adm[c].expected
                /\ IF ~Readable(state) THEN Return(c, "idle")
                   ELSE IF ~Redelivers(c) THEN Return(c, "wrong_head")
                   ELSE /\ seen' = [seen EXCEPT ![c] = state]
                        /\ Goto(c, "confirm")
                        /\ UNCHANGED <<adm, draft, done>>
    /\ UNCHANGED <<state, store, guard, old, lease, history>>

\* Mutated form: a redelivery runs the action again.
ConfirmAndAct(c) ==
    /\ pc[c] = "confirm"
    /\ Exchanges(c)
    /\ guard' = c
    /\ Goto(c, "act")
    /\ UNCHANGED <<state, store, old, lease, local, history>>

\* An exact redelivery: exchange the state leaf for itself and answer Ok.
Confirm(c) ==
    /\ pc[c] = "confirm"
    /\ \/ /\ Exchanges(c)
          /\ acked' = acked \union {Target(c)}
          /\ Return(c, "idle")
       \/ /\ Misses(c)
          /\ Return(c, "wrong_head")
          /\ UNCHANGED acked
    /\ UNCHANGED <<state, store, guard, old, lease, calls>>

\* put_object for each object of the admission that is not on disk yet.
PutObject(c) ==
    /\ pc[c] = "publish"
    /\ \E o \in adm[c].objs \ objects : objects' = objects \union {o}
    /\ UNCHANGED <<state, leaves, descriptors, reserved, guard, old, pc, lease, local, history>>

\* The predecessor the next entry of c's batch is linked to.
Prior(c) == IF done[c] = 0 THEN seen[c].loc
            ELSE Upto(Target(c), Len(adm[c].expected) + done[c])

\* Then each entry of the batch, an immutable leaf linked to the last; the object of
\* a payload the admission does not carry has to be found on disk.
PutEntry(c) ==
    /\ pc[c] = "publish"
    /\ adm[c].objs \subseteq objects
    /\ done[c] < Len(adm[c].batch)
    /\ LET n == Len(adm[c].expected) + done[c] + 1
       IN IF adm[c].batch[done[c] + 1] \in objects
          THEN /\ leaves' = leaves \union {EntryLeaf(seen[c].ns, Upto(Target(c), n), Prior(c))}
               /\ done' = [done EXCEPT ![c] = @ + 1]
               /\ UNCHANGED <<pc, adm, seen, draft>>
          ELSE Return(c, "idle") /\ UNCHANGED leaves
    /\ UNCHANGED <<state, objects, descriptors, reserved, guard, old, lease, history>>

\* Mutated form: the head is exchanged once the objects are there.
ObjectsDurable(c) == adm[c].objs \subseteq objects

\* Every entry of the batch is published.
BatchDurable(c) == done[c] = Len(adm[c].batch)

\* Every leaf is durable: the envelope with the new head and its locator replaces
\* the one that was read.  With an action the caller keeps the leaf to itself.
CommitHead(c) ==
    /\ pc[c] = "publish"
    /\ BatchDurable(c)
    /\ \/ /\ Exchanges(c)
          /\ state' = [seen[c] EXCEPT !.head = Target(c), !.loc = Target(c)]
          /\ guard' = IF adm[c].acts THEN c ELSE NoCaller
          /\ Goto(c, IF adm[c].acts THEN "act" ELSE "reply")
          /\ UNCHANGED local
       \/ /\ Misses(c)
          /\ Return(c, "wrong_head")
          /\ UNCHANGED <<state, guard>>
    /\ UNCHANGED <<store, old, lease, history>>

\* Mutated form: the exclusion outlives its action.
AfterCommitHolding(c) ==
    /\ pc[c] = "act"
    /\ calls' = Append(calls, Target(c))
    /\ Goto(c, "reply")
    /\ UNCHANGED <<state, store, guard, old, lease, local, acked>>

\* after_commit runs on the committing thread; then the exclusion ends.
AfterCommit(c) ==
    /\ pc[c] = "act"
    /\ calls' = Append(calls, Target(c))
    /\ guard' = NoCaller
    /\ Goto(c, "reply")
    /\ UNCHANGED <<state, store, old, lease, local, acked>>

Reply(c) ==
    /\ pc[c] = "reply"
    /\ acked' = acked \union {Target(c)}
    /\ Return(c, "idle")
    /\ UNCHANGED <<state, store, guard, old, lease, calls>>

\* put_datum: an object becomes durable and is nobody's payload yet.
PutDatum(c, item) ==
    /\ Ready(c)
    /\ objects' = objects \union {item}
    /\ UNCHANGED <<state, leaves, descriptors, reserved, guard, old, pc, lease, local, history>>

\* The caller dies, or a call of the port fails, between any two port calls; the
\* operating system gives up an exclusion a dead caller held.
Crash(c) ==
    /\ ~Ready(c)
    /\ Return(c, "idle")
    /\ guard' = IF guard = c THEN NoCaller ELSE guard
    /\ UNCHANGED <<state, store, old, lease, history>>

-------------------------------------------------------------------------------
\* A writer of the first format, still running: it captures the v1 state and
\* later exchanges it for one entry more.

OldCapture ==
    /\ state.format = "v1"
    /\ old # state
    /\ old' = state
    /\ UNCHANGED <<state, store, guard, pc, lease, local, history>>

OldPublish(item) ==
    /\ old.format = "v1"
    /\ Append(old.head, item) \in FirstPrefixes
    /\ guard = NoCaller
    /\ state = old
    /\ state' = [old EXCEPT !.head = Append(@, item)]
    /\ UNCHANGED <<store, guard, old, pc, lease, local, history>>

-------------------------------------------------------------------------------
Publish(c) == \E expected \in Expected, batch \in Batches, acts \in Acts :
                 \E objs \in SUBSET Range(batch) :
                    StartPublish(c, expected, batch, objs, acts)

Continue(c) == \/ ReadForLease(c) \/ Describe(c) \/ Reserve(c) \/ SelectFence(c)
               \/ Admit(c) \/ Confirm(c) \/ PutObject(c) \/ PutEntry(c)
               \/ CommitHead(c) \/ AfterCommit(c) \/ Reply(c)

Next == \/ \E c \in Caller : StartAcquire(c) \/ Publish(c) \/ Continue(c) \/ Crash(c)
        \/ \E c, d \in Caller : ShareLease(c, d)
        \/ \E c \in Caller, item \in Datums : PutDatum(c, item)
        \/ OldCapture
        \/ \E item \in Item : OldPublish(item)

Spec == Init /\ [][Next]_vars

\* A caller that has begun a call goes on with it; nobody has to begin one.
FairSpec == Spec /\ \A c \in Caller : WF_vars(Continue(c))

-------------------------------------------------------------------------------
\* Properties

\* Every variable stays in its type.
TypeOK ==
    /\ state \in Envelope /\ old \in Envelope
    /\ objects \subseteq Item
    /\ leaves \subseteq [ns : 0..MaxNamespaces, entry : Seq(Item), prior : Seq(Item)]
    /\ descriptors \subseteq Seq(Item)
    /\ reserved \in 0..MaxNamespaces
    /\ guard \in Caller \union {NoCaller}
    /\ pc \in [Caller -> Outcomes \union Steps]
    /\ lease \in [Caller -> Fence]
    /\ adm \in [Caller -> Admission]
    /\ seen \in [Caller -> Envelope]
    /\ draft \in [Caller -> Envelope]
    /\ done \in [Caller -> Nat]
    /\ calls \in Seq(Seq(Item))
    /\ acked \subseteq Seq(Item)

\* host.rs:28-33, admission.rs:38: objects and entry leaves are durable before the
\* exchange that selects them.  Whatever step a crash falls on, the state leaf on
\* disk names a prefix, a namespace, entry leaves and payload objects that exist.
CommittedClosure == Closed(state)

\* A publish that returned Ok, fresh or redelivered, is in the log for ever after,
\* through lost races, newer leases and the change of format.
AckedSurvives == \A chain \in acked : IsPrefix(chain, state.head)

\* admission.rs:38-42: the action of a commit runs at most once, for a committed
\* chain, in log order, whatever is redelivered by whichever caller.
ActionsInOrder ==
    /\ \A i \in 1..Len(calls) : IsPrefix(calls[i], state.head)
    /\ \A i, j \in 1..Len(calls) : i < j => IsStrictPrefix(calls[i], calls[j])

\* sim-storage-port lib.rs:149-150: between a guarded commit and the return of its
\* action the head and the fence are the ones that commit selected.
ActionUnderExclusion ==
    \A c \in Caller : pc[c] = "act" => /\ guard = c
                                       /\ state.head = Target(c)
                                       /\ state.fence = lease[c]

\* Once the second format is selected its namespace and prefix never change, the
\* fence never falls and the head never loses an entry.
EnvelopeAdvances ==
    [][/\ IsPrefix(state.head, state'.head)
       /\ state.fence <= state'.fence
       /\ state.format = "v2" => /\ state'.format = "v2"
                                 /\ state'.ns = state.ns /\ state'.base = state.base]_state

\* The backend implements the log of JournalLog: it commits only under the newest
\* lease, acts once, and answers Ok only for what the log holds.
Log == INSTANCE JournalLog WITH log <- state.head, fence <- state.fence

ImplementsLog == Log!Spec

\* Every call that is begun returns: the retry loop of acquire_lease ends, and no
\* caller waits for ever on another's exclusion.
CallsReturn == \A c \in Caller : ~Ready(c) ~> Ready(c)
===============================================================================
