----------------------------- MODULE MemoryJournal -----------------------------
(***************************************************************************)
(* MemoryBackend under Journal<B>.  Two mutexes: `inner` is held for the   *)
(* length of one action of this module, `admission` from the commit of a   *)
(* batch to the return of its post-commit action, which may panic and so   *)
(* poison the mutex.  Reads and put_datum take `inner` only, and so run    *)
(* beside a post-commit action.                                            *)
(*                                                                         *)
(* Heads are chains of items: see JournalLog.                              *)
(***************************************************************************)
EXTENDS Naturals, SequencesExt

CONSTANTS Caller,    \* threads that call the journal
          Item,      \* kind and payload of one entry; names its object too
          Expected,  \* heads a caller may pass as the expected head
          Batches,   \* entry batches a caller may publish
          Acts,      \* FALSE: publish, TRUE: publish_then
          Datums,    \* items whose object a caller may put with put_datum
          MaxFence,  \* the largest fence (u64::MAX)
          MaxLog,    \* no call is begun once the log is longer: bounds the model
          NoCaller   \* nobody holds the admission mutex

ASSUME InputsAreTyped == /\ Expected \subseteq Seq(Item)
                         /\ Batches \subseteq Seq(Item)
                         /\ Acts \subseteq BOOLEAN /\ Datums \subseteq Item
ASSUME BoundsAreNat == MaxFence \in Nat /\ MaxLog \in Nat
ASSUME NoCallerIsNone == NoCaller \notin Caller

VARIABLES
    log,       \* Inner.state.entries and .head: the chain of committed entries
    objects,   \* Inner.state.objects and .datums
    fence,     \* Inner.fence
    admission, \* who holds the admission mutex across an action
    poisoned,  \* a thread panicked while it held that mutex
    pc, lease, adm,
    calls,     \* history: chains whose after_commit has run to its end, in order
    acked      \* history: chains whose publish returned Ok

vars == <<log, objects, fence, admission, poisoned, pc, lease, adm, calls, acked>>

\* An Admission; `acts` says it came from publish_then and not from publish.
Admission == [fence : Nat, expected : Seq(Item), batch : Seq(Item),
              objs : SUBSET Item, acts : BOOLEAN]

NoAdmission == [fence |-> 0, expected |-> <<>>, batch |-> <<>>,
                objs |-> {}, acts |-> FALSE]

Target(c) == adm[c].expected \o adm[c].batch

\* verify_state: every payload the log names is a stored object.
Verifies == Range(log) \subseteq objects

\* No stored entry contradicts the chain a batch leads to.
Agrees(expected, batch) ==
    LET chain == expected \o batch
        known == IF Len(chain) < Len(log) THEN Len(chain) ELSE Len(log)
    IN known > Len(expected) => SubSeq(chain, 1, known) = SubSeq(log, 1, known)

\* Mutated form: the payloads of a batch are not looked for.
BatchAgrees(expected, batch, objs) == batch # <<>> /\ Agrees(expected, batch)

\* verify_batch: the payloads are known and no stored entry contradicts the batch.
BatchVerifies(expected, batch, objs) ==
    /\ batch # <<>>
    /\ Range(batch) \subseteq objs \union objects
    /\ Agrees(expected, batch)

\* How a call ended: with WrongHead, with ConflictingDelivery, or in any other way.
Outcomes == {"idle", "wrong_head", "conflict"}

Steps == {"admit", "act", "reply"}

Ready(c) == pc[c] \in Outcomes

Goto(c, step) == pc' = [pc EXCEPT ![c] = step]

Return(c, outcome) == /\ pc' = [pc EXCEPT ![c] = outcome]
                      /\ adm' = [adm EXCEPT ![c] = NoAdmission]

Init == /\ log = <<>> /\ objects = {} /\ fence = 0
        /\ admission = NoCaller /\ poisoned = FALSE
        /\ pc = [c \in Caller |-> "idle"]
        /\ lease = [c \in Caller |-> 0]
        /\ adm = [c \in Caller |-> NoAdmission]
        /\ calls = <<>> /\ acked = {}

-------------------------------------------------------------------------------
\* checked_add on the fence.
FenceExhausted == fence >= MaxFence

\* acquire_lease, when nobody is inside an admission.
AcquireLease(c) ==
    /\ Ready(c)
    /\ admission = NoCaller
    /\ ~poisoned
    /\ ~FenceExhausted
    /\ fence' = fence + 1
    /\ lease' = [lease EXCEPT ![c] = fence + 1]
    /\ UNCHANGED <<log, objects, admission, poisoned, pc, adm, calls, acked>>

\* A Lease is Clone: callers may share one.
ShareLease(c, d) ==
    /\ Ready(d)
    /\ lease[c] # 0 /\ lease[c] # lease[d]
    /\ lease' = [lease EXCEPT ![d] = lease[c]]
    /\ UNCHANGED <<log, objects, fence, admission, poisoned, pc, adm, calls, acked>>

\* verified_admission: a snapshot of the state is verified, and the batch against it.
StartPublish(c, expected, batch, objs, acts) ==
    /\ Ready(c)
    /\ lease[c] # 0
    /\ Len(log) <= MaxLog
    /\ IF Verifies /\ BatchVerifies(expected, batch, objs)
       THEN /\ Goto(c, "admit")
            /\ adm' = [adm EXCEPT ![c] = [fence |-> lease[c], expected |-> expected,
                                          batch |-> batch, objs |-> objs, acts |-> acts]]
       ELSE Return(c, "idle")
    /\ UNCHANGED <<log, objects, fence, admission, poisoned, lease, calls, acked>>

\* Every entry of the batch is stored under its sequence number.
Redelivers(c) == IsPrefix(Target(c), log)

\* Mutated form: an older lease passes for the newest.
LiveLoosely(c) == adm[c].fence <= fence

\* The admission's fence is the newest.
Live(c) == adm[c].fence = fence

\* admit_then takes the mutex ...
Entered(c) == pc[c] = "admit" /\ admission = NoCaller

\* ... and is refused: the mutex is poisoned, the lease stale, or the head another's.
Refuse(c) ==
    /\ Entered(c)
    /\ \/ (poisoned \/ ~Live(c)) /\ Return(c, "idle")
       \/ /\ ~poisoned /\ Live(c)
          /\ adm[c].expected # log /\ ~Redelivers(c)
          /\ Return(c, IF Len(adm[c].expected) < Len(log) THEN "conflict" ELSE "wrong_head")
    /\ UNCHANGED <<log, objects, fence, admission, poisoned, lease, calls, acked>>

\* ... or finds the batch in the log already, and runs no action.
Redeliver(c) ==
    /\ Entered(c) /\ ~poisoned /\ Live(c)
    /\ adm[c].expected # log /\ Redelivers(c)
    /\ acked' = acked \union {Target(c)}
    /\ Return(c, "idle")
    /\ UNCHANGED <<log, objects, fence, admission, poisoned, lease, calls>>

\* The holder of the mutex after c's commit.
Holder(c) == IF adm[c].acts THEN c ELSE NoCaller

\* ... or commits: objects, entries and head at once, under `inner`.
Commit(c) ==
    /\ Entered(c) /\ ~poisoned /\ Live(c)
    /\ adm[c].expected = log
    /\ objects' = objects \union adm[c].objs
    /\ log' = Target(c)
    /\ admission' = Holder(c)
    /\ Goto(c, IF adm[c].acts THEN "act" ELSE "reply")
    /\ UNCHANGED <<fence, poisoned, lease, adm, calls, acked>>

\* Mutated form: the action is run and the mutex kept.
AfterCommitHolding(c) ==
    /\ pc[c] = "act"
    /\ calls' = Append(calls, Target(c))
    /\ Goto(c, "reply")
    /\ UNCHANGED <<log, objects, fence, admission, poisoned, lease, adm, acked>>

\* The action returns, and the mutex is given up.
AfterCommit(c) ==
    /\ pc[c] = "act"
    /\ calls' = Append(calls, Target(c))
    /\ admission' = NoCaller
    /\ Goto(c, "reply")
    /\ UNCHANGED <<log, objects, fence, poisoned, lease, adm, acked>>

\* The action panics: the guard is dropped while unwinding and the mutex poisoned.
Panic(c) ==
    /\ pc[c] = "act"
    /\ admission' = NoCaller
    /\ poisoned' = TRUE
    /\ Return(c, "idle")
    /\ UNCHANGED <<log, objects, fence, lease, calls, acked>>

Reply(c) ==
    /\ pc[c] = "reply"
    /\ acked' = acked \union {Target(c)}
    /\ Return(c, "idle")
    /\ UNCHANGED <<log, objects, fence, admission, poisoned, lease, calls>>

\* put_datum, from any thread that shares the backend: it takes `inner` only.
PutDatum(item) ==
    /\ objects' = objects \union {item}
    /\ UNCHANGED <<log, fence, admission, poisoned, pc, lease, adm, calls, acked>>

-------------------------------------------------------------------------------
Publish(c) == \E expected \in Expected, batch \in Batches, acts \in Acts :
                 \E objs \in SUBSET Range(batch) :
                    StartPublish(c, expected, batch, objs, acts)

Continue(c) == \/ Refuse(c) \/ Redeliver(c) \/ Commit(c)
               \/ AfterCommit(c) \/ Panic(c) \/ Reply(c)

Next == \/ \E c \in Caller : AcquireLease(c) \/ Publish(c) \/ Continue(c)
        \/ \E c, d \in Caller : ShareLease(c, d)
        \/ \E item \in Datums : PutDatum(item)

Spec == Init /\ [][Next]_vars

\* A thread inside a call goes on.  The mutex need not be fair: it is held from one
\* step to the next only across an action, each action belongs to a new commit, and a
\* caller that never gets to its own commit has others commit, which the bound ends.
FairSpec == Spec /\ \A c \in Caller : WF_vars(Continue(c))

-------------------------------------------------------------------------------
\* Properties

\* Every variable stays in its type.
TypeOK ==
    /\ log \in Seq(Item)
    /\ objects \subseteq Item
    /\ fence \in 0..MaxFence
    /\ admission \in Caller \union {NoCaller}
    /\ poisoned \in BOOLEAN
    /\ pc \in [Caller -> Outcomes \union Steps]
    /\ lease \in [Caller -> 0..MaxFence]
    /\ adm \in [Caller -> Admission]
    /\ calls \in Seq(Seq(Item))
    /\ acked \subseteq Seq(Item)

\* verify.rs:94-136: whatever batches were admitted on whatever snapshots, the state
\* verifies.  A payload was checked against a snapshot taken before the commit.
StateVerifies == Verifies

\* memory.rs:137-145: while an action runs, the head and the fence stay those of its
\* commit.
ActionUnderExclusion ==
    \A c \in Caller : pc[c] = "act" => log = Target(c) /\ fence = lease[c]

\* Every call that is begun returns, even when another caller's action panics.
CallsReturn == \A c \in Caller : ~Ready(c) ~> Ready(c)

\* The backend implements the log of JournalLog.
Log == INSTANCE JournalLog

ImplementsLog == Log!Spec
===============================================================================
