--------------------------- MODULE HostJournalProofs ---------------------------
(***************************************************************************)
(* What HostJournal guarantees for every number of callers, items, leases  *)
(* and namespaces.  First the types; then an invariant that says what a    *)
(* caller knows at each step of a call, preserved by that caller's own     *)
(* steps and, because the store only grows and the head only advances, by  *)
(* everybody else's; then the properties and the refinement of JournalLog. *)
(* Last come the object files that publications share with the object      *)
(* store, and its index: the theorems about ObjectStore, a specification   *)
(* of its own, with callers and variables of its own.                      *)
(***************************************************************************)
EXTENDS HostJournal, ObjectStore, Integers, SequenceTheorems, FiniteSetTheorems, TLAPS

-------------------------------------------------------------------------------
\* Chains: a head is the items that lead to it

\* A prefix agrees with the chain on every entry it has: what matching two entries
\* by sequence number (verify_batch, admit_with_action) comes to.
LEMMA PrefixByEntries ==
    ASSUME NEW S, NEW s \in Seq(S), NEW t \in Seq(S)
    PROVE  IsPrefix(s, t) <=> /\ Len(s) <= Len(t)
                              /\ \A i \in 1..Len(s) : s[i] = t[i]
<1>1. /\ Len(s) \in Nat /\ Len(t) \in Nat
      /\ \A i \in 1..Len(s) : s[i] \in S
      /\ \A i \in 1..Len(t) : t[i] \in S
  BY LenProperties, ElementOfSeq
<1>2. /\ SubSeq(s, 1, Len(s)) = s
  BY SubSeqFull
<1>3. SUFFICES ASSUME Len(s) <= Len(t)
               PROVE  s = SubSeq(t, 1, Len(s)) <=> \A i \in 1..Len(s) : s[i] = t[i]
  BY <1>2 DEF IsPrefix
<1>4. /\ SubSeq(t, 1, Len(s)) \in Seq(S)
      /\ Len(SubSeq(t, 1, Len(s))) = Len(s)
      /\ \A i \in 1..Len(s) : SubSeq(t, 1, Len(s))[i] = t[i]
  BY <1>1, <1>3, SubSeqProperties
<1>5. ASSUME \A i \in 1..Len(s) : s[i] = t[i]
      PROVE  s = SubSeq(t, 1, Len(s))
  BY <1>4, <1>5, SeqEqual
<1> QED BY <1>4, <1>5

\* Every chain is a prefix of itself.
LEMMA PrefixReflexive ==
    ASSUME NEW S, NEW s \in Seq(S)
    PROVE  IsPrefix(s, s)
BY PrefixByEntries

\* What was in the log stays in it as the log grows.
LEMMA PrefixTransitive ==
    ASSUME NEW S, NEW s \in Seq(S), NEW t \in Seq(S), NEW u \in Seq(S),
           IsPrefix(s, t), IsPrefix(t, u)
    PROVE  IsPrefix(s, u)
<1>1. /\ Len(s) \in Nat /\ Len(t) \in Nat /\ Len(u) \in Nat
  BY LenProperties
<1>2. /\ Len(s) <= Len(t) /\ \A i \in 1..Len(s) : s[i] = t[i]
      /\ Len(t) <= Len(u) /\ \A i \in 1..Len(t) : t[i] = u[i]
  BY PrefixByEntries
<1> QED BY <1>1, <1>2, PrefixByEntries

\* Two chains that are prefixes of each other are one chain.
LEMMA PrefixAntisymmetric ==
    ASSUME NEW S, NEW s \in Seq(S), NEW t \in Seq(S), IsPrefix(s, t), IsPrefix(t, s)
    PROVE  s = t
<1>1. /\ Len(s) \in Nat /\ Len(t) \in Nat
  BY LenProperties
<1>2. /\ Len(s) <= Len(t) /\ \A i \in 1..Len(s) : s[i] = t[i]
      /\ Len(t) <= Len(s)
  BY PrefixByEntries
<1> QED BY <1>1, <1>2, SeqEqual

\* A batch extends the head it is published on, and strictly so: it is not empty.
LEMMA BatchExtends ==
    ASSUME NEW S, NEW s \in Seq(S), NEW t \in Seq(S)
    PROVE  /\ s \o t \in Seq(S)
           /\ IsPrefix(s, s \o t)
           /\ t # <<>> => IsStrictPrefix(s, s \o t) /\ Len(s \o t) > Len(s)
<1>1. /\ Len(s) \in Nat /\ Len(t) \in Nat
      /\ s \o t \in Seq(S)
      /\ Len(s \o t) = Len(s) + Len(t)
      /\ \A i \in 1..Len(s) : (s \o t)[i] = s[i]
  BY LenProperties, ConcatProperties
<1>2. IsPrefix(s, s \o t)
  <2>1. Len(s) <= Len(s \o t) /\ \A i \in 1..Len(s) : s[i] = (s \o t)[i]
    BY <1>1
  <2>2. IsPrefix(s, s \o t) <=> /\ Len(s) <= Len(s \o t)
                                /\ \A i \in 1..Len(s) : s[i] = (s \o t)[i]
    BY <1>1, PrefixByEntries
  <2> QED BY <2>1, <2>2
<1>3. ASSUME t # <<>> PROVE Len(t) > 0
  BY <1>1, <1>3, EmptySeq
<1> QED BY <1>1, <1>2, <1>3 DEF IsStrictPrefix

\* A prefix of what a batch extends is a strict prefix of the result.
LEMMA PrefixThenStrict ==
    ASSUME NEW S, NEW s \in Seq(S), NEW t \in Seq(S), NEW u \in Seq(S),
           IsPrefix(s, t), IsStrictPrefix(t, u)
    PROVE  IsStrictPrefix(s, u)
BY PrefixTransitive, PrefixAntisymmetric DEF IsStrictPrefix

\* The first n entries of a chain are a chain.
LEMMA UptoProperties ==
    ASSUME NEW S, NEW s \in Seq(S), NEW n \in 0..Len(s)
    PROVE  /\ SubSeq(s, 1, n) \in Seq(S)
           /\ Len(SubSeq(s, 1, n)) = n
           /\ \A i \in 1..n : SubSeq(s, 1, n)[i] = s[i]
<1>1. Len(s) \in Nat /\ \A i \in 1..Len(s) : s[i] \in S
  BY LenProperties, ElementOfSeq
<1>2. n \in Nat /\ n <= Len(s) /\ \A i \in 1..n : s[i] \in S
  BY <1>1
<1> QED BY <1>2, SubSeqProperties

\* A batch leaves the first entries of the chain it extends as they were.
LEMMA UptoOfConcat ==
    ASSUME NEW S, NEW s \in Seq(S), NEW t \in Seq(S), NEW n \in 0..Len(s)
    PROVE  SubSeq(s \o t, 1, n) = SubSeq(s, 1, n)
<1>1. /\ Len(s) \in Nat /\ Len(t) \in Nat
      /\ s \o t \in Seq(S)
      /\ Len(s \o t) = Len(s) + Len(t)
      /\ \A i \in 1..Len(s) : (s \o t)[i] = s[i]
  BY LenProperties, ConcatProperties
<1>2. n \in Nat /\ n \in 0..Len(s \o t)
  BY <1>1
<1>3. /\ SubSeq(s \o t, 1, n) \in Seq(S) /\ Len(SubSeq(s \o t, 1, n)) = n
      /\ \A i \in 1..n : SubSeq(s \o t, 1, n)[i] = (s \o t)[i]
  BY <1>1, <1>2, UptoProperties
<1>4. /\ SubSeq(s, 1, n) \in Seq(S) /\ Len(SubSeq(s, 1, n)) = n
      /\ \A i \in 1..n : SubSeq(s, 1, n)[i] = s[i]
  BY UptoProperties
<1> QED BY <1>1, <1>2, <1>3, <1>4, SeqEqual

\* The prefixes of a chain are the members of Prefixes.
LEMMA PrefixIsMember ==
    ASSUME NEW S, NEW s \in Seq(S), NEW t \in Seq(S), IsPrefix(s, t)
    PROVE  s \in Prefixes(t)
<1>1. Len(s) \in 0..Len(t)
  BY LenProperties DEF IsPrefix
<1>2. s = SubSeq(t, 1, Len(s))
  BY SubSeqFull DEF IsPrefix
<1> QED BY <1>1, <1>2 DEF Prefixes

-------------------------------------------------------------------------------
\* Types

\* A call that is not running has typed locals.
LEMMA EmptyLocals ==
    /\ NoState \in Envelope
    /\ NoAdmission \in Admission
    /\ 0 \in Fence /\ 0 \in Nat
BY BoundsAreNat, EmptySeq DEF NoState, NoAdmission, Leaf, Envelope, Admission, Fence

\* A call that returns leaves typed locals behind.
LEMMA ReturnTyped ==
    ASSUME TypeOK, NEW c \in Caller, NEW outcome \in Outcomes \union Steps,
           Return(c, outcome)
    PROVE  /\ pc' \in [Caller -> Outcomes \union Steps]
           /\ adm' \in [Caller -> Admission]
           /\ seen' \in [Caller -> Envelope]
           /\ draft' \in [Caller -> Envelope]
           /\ done' \in [Caller -> Nat]
BY EmptyLocals DEF TypeOK, Return

\* The chain a batch leads to is a chain.
LEMMA TargetTyped ==
    ASSUME TypeOK, NEW c \in Caller
    PROVE  /\ adm[c].expected \in Seq(Item)
           /\ adm[c].batch \in Seq(Item)
           /\ Target(c) \in Seq(Item)
           /\ Len(Target(c)) = Len(adm[c].expected) + Len(adm[c].batch)
           /\ Len(adm[c].expected) \in Nat /\ Len(adm[c].batch) \in Nat
<1>1. adm[c] \in Admission
  BY DEF TypeOK
<1>2. adm[c].expected \in Seq(Item) /\ adm[c].batch \in Seq(Item)
  BY <1>1 DEF Admission
<1> QED BY <1>2, ConcatProperties, LenProperties DEF Target

LEMMA TypeInit == Init => TypeOK
<1> SUFFICES ASSUME Init PROVE TypeOK
  OBVIOUS
<1>1. state \in Envelope
  <2>1. CASE state = NoState
    BY <2>1, EmptyLocals
  <2>2. ASSUME NEW chain \in FirstPrefixes, state = Leaf("v1", 1, 0, <<>>, chain, <<>>)
        PROVE  state \in Envelope
    <3>1. chain \in Seq(Item) /\ <<>> \in Seq(Item)
      BY InputsAreTyped, EmptySeq
    <3>2. 1 \in Fence /\ 0 \in 0..MaxNamespaces
      BY BoundsAreNat DEF Fence
    <3> QED BY <2>2, <3>1, <3>2 DEF Leaf, Envelope
  <2> QED BY <2>1, <2>2 DEF Init
<1>2. calls \in Seq(Seq(Item)) /\ reserved \in 0..MaxNamespaces
  BY BoundsAreNat, EmptySeq DEF Init
<1> QED BY <1>1, <1>2, EmptyLocals DEF Init, TypeOK, Outcomes

LEMMA AcquireTyped ==
    ASSUME TypeOK, NEW c \in Caller,
           StartAcquire(c) \/ ReadForLease(c) \/ Describe(c) \/ Reserve(c) \/ SelectFence(c)
    PROVE  TypeOK'
<1>1. CASE StartAcquire(c)
  BY <1>1 DEF StartAcquire, TypeOK, Goto, Steps, store, local, history
<1>2. CASE ReadForLease(c)
  <2>1. CASE ~Readable(state) \/ (state.format = "v2" /\ FenceExhausted(state))
    <3>1. Return(c, "idle")
      BY <1>2, <2>1 DEF ReadForLease
    <3> QED BY <1>2, <3>1, ReturnTyped
            DEF ReadForLease, TypeOK, Outcomes, store, history
  <2>2. CASE Readable(state) /\ ~(state.format = "v2" /\ FenceExhausted(state))
    <3>1. /\ seen' = [seen EXCEPT ![c] = state]
          /\ pc' = [pc EXCEPT ![c] = FirstStep(state)]
          /\ draft' = [draft EXCEPT ![c] =
                          IF state.format = "v2" THEN [state EXCEPT !.fence = @ + 1]
                                                 ELSE NoState]
          /\ UNCHANGED <<adm, done>>
      BY <1>2, <2>2 DEF ReadForLease, Goto
    <3>2. FirstStep(state) \in Steps
      BY DEF FirstStep, Steps
    <3>3. ASSUME state.format = "v2"
          PROVE  [state EXCEPT !.fence = @ + 1] \in Envelope
      <4>1. state.fence \in Fence /\ ~(state.fence >= MaxFence) /\ state \in Envelope
        BY <2>2, <3>3 DEF FenceExhausted, TypeOK, Envelope
      <4>2. state.fence + 1 \in Fence
        BY <4>1, BoundsAreNat DEF Fence
      <4> QED BY <4>1, <4>2 DEF Envelope
    <3> QED BY <1>2, <3>1, <3>2, <3>3, EmptyLocals
            DEF ReadForLease, TypeOK, store, history
  <2> QED BY <2>1, <2>2
<1>3. CASE Describe(c)
  <2>1. seen[c].head \in Seq(Item)
    BY DEF TypeOK, Envelope
  <2> QED BY <1>3, <2>1 DEF Describe, TypeOK, Goto, Steps, local, history
<1>4. CASE Reserve(c)
  <2>1. CASE FenceExhausted(seen[c]) \/ reserved = MaxNamespaces
    <3>1. Return(c, "idle")
      BY <1>4, <2>1 DEF Reserve
    <3> QED BY <1>4, <2>1, <3>1, ReturnTyped DEF Reserve, TypeOK, Outcomes, history
  <2>2. CASE ~(FenceExhausted(seen[c]) \/ reserved = MaxNamespaces)
    <3>1. /\ reserved' = reserved + 1
          /\ draft' = [draft EXCEPT ![c] =
               Leaf("v2", seen[c].fence + 1, reserved + 1, seen[c].head, seen[c].head, <<>>)]
          /\ pc' = [pc EXCEPT ![c] = "select"]
          /\ UNCHANGED <<adm, seen, done>>
      BY <1>4, <2>2 DEF Reserve, Goto
    <3>2. /\ seen[c].fence \in Fence /\ seen[c].head \in Seq(Item)
          /\ reserved \in 0..MaxNamespaces /\ reserved # MaxNamespaces
          /\ ~(seen[c].fence >= MaxFence)
      BY <2>2 DEF TypeOK, Envelope, FenceExhausted
    <3>3. seen[c].fence + 1 \in Fence /\ reserved + 1 \in 0..MaxNamespaces
      BY <3>2, BoundsAreNat DEF Fence
    <3>4. Leaf("v2", seen[c].fence + 1, reserved + 1, seen[c].head, seen[c].head, <<>>)
            \in Envelope
      BY <3>2, <3>3, EmptySeq DEF Leaf, Envelope
    <3> QED BY <1>4, <3>1, <3>3, <3>4 DEF Reserve, TypeOK, Steps, history
  <2> QED BY <2>1, <2>2
<1>5. CASE SelectFence(c)
  <2>1. draft[c] \in Envelope /\ draft[c].fence \in Fence
    BY DEF TypeOK, Envelope
  <2>2. Return(c, "idle") \/ Return(c, "acquire")
    BY <1>5 DEF SelectFence
  <2>3. /\ pc' \in [Caller -> Outcomes \union Steps]
        /\ adm' \in [Caller -> Admission]
        /\ seen' \in [Caller -> Envelope]
        /\ draft' \in [Caller -> Envelope]
        /\ done' \in [Caller -> Nat]
    <3>1. "idle" \in Outcomes \union Steps /\ "acquire" \in Outcomes \union Steps
      BY DEF Outcomes, Steps
    <3> QED BY <2>2, <3>1, ReturnTyped
  <2> QED BY <1>5, <2>1, <2>3 DEF SelectFence, TypeOK, store, history
<1> QED BY <1>1, <1>2, <1>3, <1>4, <1>5

LEMMA PublishTyped ==
    ASSUME TypeOK, NEW c \in Caller,
           Publish(c) \/ Admit(c) \/ Confirm(c) \/ PutObject(c) \/ PutEntry(c)
             \/ CommitHead(c) \/ AfterCommit(c) \/ Reply(c)
    PROVE  TypeOK'
<1>0. "idle" \in Outcomes /\ "wrong_head" \in Outcomes
  BY DEF Outcomes
<1>1. CASE Publish(c)
  <2>0. PICK expected \in Expected, batch \in Batches, acts \in Acts :
               \E objs \in SUBSET Range(batch) : StartPublish(c, expected, batch, objs, acts)
    BY <1>1 DEF Publish
  <2>1. PICK objs \in SUBSET Range(batch) : StartPublish(c, expected, batch, objs, acts)
    BY <2>0
  <2>2. CASE Return(c, "idle")
    BY <1>0, <2>1, <2>2, ReturnTyped DEF StartPublish, TypeOK, store, history
  <2>3. CASE ~Return(c, "idle")
    <3>1. [fence |-> lease[c], expected |-> expected, batch |-> batch,
           objs |-> objs, acts |-> acts] \in Admission
      <4>1. expected \in Seq(Item) /\ batch \in Seq(Item) /\ acts \in BOOLEAN
        BY InputsAreTyped
      <4>2. objs \in SUBSET Item
        BY <4>1, RangeOfSeq
      <4>3. lease[c] \in Fence
        BY DEF TypeOK
      <4> QED BY <4>1, <4>2, <4>3 DEF Admission
    <3>2. /\ pc' = [pc EXCEPT ![c] = "admit"]
          /\ adm' = [adm EXCEPT ![c] = [fence |-> lease[c], expected |-> expected,
                                        batch |-> batch, objs |-> objs, acts |-> acts]]
          /\ UNCHANGED <<seen, draft, done>>
      BY <2>1, <2>3 DEF StartPublish, Goto
    <3> QED BY <2>1, <3>1, <3>2 DEF StartPublish, TypeOK, Steps, store, history
  <2> QED BY <2>2, <2>3
<1>2. CASE Admit(c)
  <2>1. CASE Return(c, "idle") \/ Return(c, "wrong_head")
    BY <1>0, <1>2, <2>1, ReturnTyped DEF Admit, TypeOK, store, history
  <2>2. CASE ~(Return(c, "idle") \/ Return(c, "wrong_head"))
    <3>1. /\ seen' = [seen EXCEPT ![c] = state]
          /\ \/ pc' = [pc EXCEPT ![c] = "publish"]
             \/ pc' = [pc EXCEPT ![c] = "confirm"]
          /\ UNCHANGED <<adm, draft, done>>
      BY <1>2, <2>2 DEF Admit, Goto
    <3> QED BY <1>2, <3>1 DEF Admit, TypeOK, Steps, store, history
  <2> QED BY <2>1, <2>2
<1>3. CASE Confirm(c)
  <2>1. Return(c, "idle") \/ Return(c, "wrong_head")
    BY <1>3 DEF Confirm
  <2> QED BY <1>0, <1>3, <2>1, ReturnTyped, TargetTyped DEF Confirm, TypeOK, store
<1>4. CASE PutObject(c)
  <2>1. adm[c].objs \subseteq Item
    BY DEF TypeOK, Admission
  <2> QED BY <1>4, <2>1 DEF PutObject, TypeOK, local, history
<1>5. CASE PutEntry(c)
  <2>1. CASE Return(c, "idle") /\ UNCHANGED leaves
    BY <1>0, <1>5, <2>1, ReturnTyped DEF PutEntry, TypeOK, history
  <2>2. CASE ~(Return(c, "idle") /\ UNCHANGED leaves)
    <3> DEFINE n == Len(adm[c].expected) + done[c] + 1
    <3>1. /\ done[c] < Len(adm[c].batch)
          /\ leaves' = leaves \union {EntryLeaf(seen[c].ns, Upto(Target(c), n), Prior(c))}
          /\ done' = [done EXCEPT ![c] = @ + 1]
          /\ UNCHANGED <<pc, adm, seen, draft>>
      BY <1>5, <2>2 DEF PutEntry
    <3>2. done[c] \in Nat /\ seen[c].ns \in 0..MaxNamespaces /\ seen[c].loc \in Seq(Item)
      BY DEF TypeOK, Envelope
    <3>3. n \in 0..Len(Target(c)) /\ n - 1 \in 0..Len(Target(c))
      <4>1. /\ Len(Target(c)) = Len(adm[c].expected) + Len(adm[c].batch)
            /\ Len(adm[c].expected) \in Nat /\ Len(adm[c].batch) \in Nat
        BY TargetTyped
      <4>2. \A a, b, k \in Nat : k < b => a + k + 1 \in 0..a + b /\ (a + k + 1) - 1 \in 0..a + b
        OBVIOUS
      <4>3. done[c] \in Nat
        BY <3>2
      <4> HIDE DEF n
      <4>4. n = Len(adm[c].expected) + done[c] + 1
        BY DEF n
      <4> QED BY <3>1, <4>1, <4>2, <4>3, <4>4
    <3>4. Upto(Target(c), n) \in Seq(Item) /\ Upto(Target(c), n - 1) \in Seq(Item)
      BY <3>3, TargetTyped, UptoProperties DEF Upto
    <3>5. n - 1 = Len(adm[c].expected) + done[c]
      BY <3>2, TargetTyped
    <3>6. Prior(c) \in Seq(Item)
      BY <3>2, <3>4, <3>5 DEF Prior
    <3>7. EntryLeaf(seen[c].ns, Upto(Target(c), n), Prior(c))
            \in [ns : 0..MaxNamespaces, entry : Seq(Item), prior : Seq(Item)]
      BY <3>2, <3>4, <3>6 DEF EntryLeaf
    <3>8. UNCHANGED <<state, objects, descriptors, reserved, guard, old, lease, calls, acked>>
      BY <1>5 DEF PutEntry, history
    <3>9. leaves' \subseteq [ns : 0..MaxNamespaces, entry : Seq(Item), prior : Seq(Item)]
      BY <3>1, <3>7 DEF TypeOK
    <3>10. done' \in [Caller -> Nat] /\ UNCHANGED <<pc, adm, seen, draft>>
      BY <3>1 DEF TypeOK
    <3> QED BY <3>8, <3>9, <3>10 DEF TypeOK
  <2> QED BY <2>1, <2>2
<1>6. CASE CommitHead(c)
  <2>1. CASE Return(c, "wrong_head") /\ UNCHANGED <<state, guard>>
    BY <1>0, <1>6, <2>1, ReturnTyped DEF CommitHead, TypeOK, store, history
  <2>2. CASE ~(Return(c, "wrong_head") /\ UNCHANGED <<state, guard>>)
    <3>1. /\ state' = [seen[c] EXCEPT !.head = Target(c), !.loc = Target(c)]
          /\ guard' = IF adm[c].acts THEN c ELSE NoCaller
          /\ pc' = [pc EXCEPT ![c] = IF adm[c].acts THEN "act" ELSE "reply"]
          /\ UNCHANGED local
      BY <1>6, <2>2 DEF CommitHead, Goto
    <3>2. seen[c] \in Envelope
      BY DEF TypeOK
    <3>3. state' \in Envelope
      BY <3>1, <3>2, TargetTyped DEF Envelope
    <3> QED BY <1>6, <3>1, <3>3 DEF CommitHead, TypeOK, Steps, store, local, history
  <2> QED BY <2>1, <2>2
<1>7. CASE AfterCommit(c)
  <2>1. Append(calls, Target(c)) \in Seq(Seq(Item))
    BY TargetTyped, AppendProperties DEF TypeOK
  <2> QED BY <1>7, <2>1 DEF AfterCommit, TypeOK, Goto, Steps, store, local
<1>8. CASE Reply(c)
  BY <1>0, <1>8, ReturnTyped, TargetTyped DEF Reply, TypeOK, store
<1> QED BY <1>1, <1>2, <1>3, <1>4, <1>5, <1>6, <1>7, <1>8

LEMMA TypeStep == TypeOK /\ [Next]_vars => TypeOK'
<1> SUFFICES ASSUME TypeOK, [Next]_vars PROVE TypeOK'
  OBVIOUS
<1>1. ASSUME NEW c \in Caller, StartAcquire(c) \/ Publish(c) \/ Continue(c)
      PROVE  TypeOK'
  BY <1>1, AcquireTyped, PublishTyped DEF Continue
<1>2. ASSUME NEW c \in Caller, Crash(c)
      PROVE  TypeOK'
  <2>1. "idle" \in Outcomes
    BY DEF Outcomes
  <2> QED BY <1>2, <2>1, ReturnTyped DEF Crash, TypeOK, store, history
<1>3. ASSUME NEW c \in Caller, NEW d \in Caller, ShareLease(c, d)
      PROVE  TypeOK'
  BY <1>3 DEF ShareLease, TypeOK, store, local, history
<1>4. ASSUME NEW c \in Caller, NEW item \in Datums, PutDatum(c, item)
      PROVE  TypeOK'
  BY <1>4, InputsAreTyped DEF PutDatum, TypeOK, local, history
<1>5. CASE OldCapture
  BY <1>5 DEF OldCapture, TypeOK, store, local, history
<1>6. ASSUME NEW item \in Item, OldPublish(item)
      PROVE  TypeOK'
  <2>1. Append(old.head, item) \in Seq(Item)
    BY AppendProperties DEF TypeOK, Envelope
  <2>2. state' \in Envelope
    BY <1>6, <2>1 DEF OldPublish, TypeOK, Envelope
  <2> QED BY <1>6, <2>2 DEF OldPublish, TypeOK, store, local, history
<1>7. CASE UNCHANGED vars
  BY <1>7 DEF vars, store, local, history, TypeOK
<1> QED BY <1>1, <1>2, <1>3, <1>4, <1>5, <1>6, <1>7 DEF Next

\* Every variable keeps its type: in particular no fence passes MaxFence, so no
\* writer generation is ever issued a second time.
THEOREM TypeCorrect == Spec => []TypeOK
BY TypeInit, TypeStep, PTL DEF Spec

-------------------------------------------------------------------------------
\* The inductive invariant

\* Before the second format nobody has a lease and only a v1 leaf has a head.
FormatInv == /\ state.format # "v2" => \A c \in Caller : lease[c] = 0
             /\ state.format = "none" => state.head = <<>>

\* What a caller of acquire_lease has made sure of on its way to the exchange.
AcquireInv(c) ==
    /\ pc[c] \in {"describe", "reserve"} => seen[c].format # "v2"
    /\ pc[c] = "reserve" => seen[c].head = <<>> \/ seen[c].head \in descriptors
    /\ pc[c] = "select" =>
          /\ draft[c].format = "v2"
          /\ draft[c].fence = seen[c].fence + 1
          /\ draft[c].head = seen[c].head
          /\ Closed(draft[c])
          /\ seen[c].format = "v2" => draft[c].ns = seen[c].ns /\ draft[c].base = seen[c].base

\* The n-th entry of c's batch is on disk, linked to its predecessor.
EntryPublished(c, n) ==
    LET m == Len(adm[c].expected) + n
    IN /\ adm[c].batch[n] \in objects
       /\ EntryLeaf(seen[c].ns, Upto(Target(c), m),
                    IF n = 1 THEN seen[c].loc ELSE Upto(Target(c), m - 1)) \in leaves

\* What a caller of publish has made sure of on its way to the exchange and after it.
PublishInv(c) ==
    /\ pc[c] \notin {"publish", "act", "reply"} => done[c] = 0
    /\ pc[c] \in {"admit", "confirm", "publish", "act", "reply"} => adm[c].batch # <<>>
    /\ pc[c] \in {"admit", "confirm", "publish", "act"} =>
          lease[c] # 0 /\ adm[c].fence = lease[c]
    /\ pc[c] = "confirm" => IsPrefix(Target(c), seen[c].head)
    /\ pc[c] = "publish" =>
          /\ seen[c].format = "v2" /\ seen[c].fence = adm[c].fence
          /\ seen[c].head = adm[c].expected
          /\ Closed(seen[c])
          /\ done[c] <= Len(adm[c].batch)
          /\ \A n \in 1..done[c] : EntryPublished(c, n)
    /\ pc[c] = "act" =>
          /\ guard = c /\ state.head = Target(c) /\ state.fence = lease[c]
          /\ \A i \in 1..Len(calls) : IsStrictPrefix(calls[i], state.head)
    /\ pc[c] = "reply" => IsPrefix(Target(c), state.head)

CallerInv(c) == AcquireInv(c) /\ PublishInv(c)

LogInv == CommittedClosure /\ FormatInv /\ AckedSurvives /\ ActionsInOrder

IInv == TypeOK /\ LogInv /\ \A c \in Caller : CallerInv(c)

-------------------------------------------------------------------------------
\* What a step may do to the store and the state leaf, whoever takes it.

\* The store only grows.
StoreGrows == /\ objects \subseteq objects' /\ leaves \subseteq leaves'
              /\ descriptors \subseteq descriptors' /\ reserved <= reserved'

\* Closed as a function of the store, to compare the store before and after a step.
ClosedIn(e, objs, lvs, descs, res) ==
    e.format = "v2" =>
        /\ e.ns \in 1..res
        /\ e.base # <<>> => e.base \in descs
        /\ IsPrefix(e.base, e.head)
        /\ e.loc = IF e.head = e.base THEN <<>> ELSE e.head
        /\ \A n \in Len(e.base) + 1 .. Len(e.head) :
              LeafAt(e, n) \in lvs /\ e.head[n] \in objs

LEMMA ClosedHere == \A e : Closed(e) <=> ClosedIn(e, objects, leaves, descriptors, reserved)
BY DEF Closed, ClosedIn

\* An envelope whose closure is on disk keeps it: no file of the store is removed.
LEMMA ClosedGrows ==
    ASSUME NEW e, NEW objs, NEW objs1, NEW lvs, NEW lvs1, NEW descs, NEW descs1,
           NEW res \in Nat, NEW res1 \in Nat,
           objs \subseteq objs1, lvs \subseteq lvs1, descs \subseteq descs1, res <= res1,
           ClosedIn(e, objs, lvs, descs, res)
    PROVE  ClosedIn(e, objs1, lvs1, descs1, res1)
BY DEF ClosedIn

\* The envelope of acquire_lease has the closure of the one that was read.
LEMMA ClosedFence ==
    ASSUME NEW e \in Envelope, NEW f, Closed(e)
    PROVE  Closed([e EXCEPT !.fence = f])
<1> DEFINE e1 == [e EXCEPT !.fence = f]
<1>1. /\ e1.format = e.format /\ e1.ns = e.ns /\ e1.base = e.base
      /\ e1.head = e.head /\ e1.loc = e.loc
  BY DEF Envelope
<1> HIDE DEF e1
<1>2. \A n : LeafAt(e1, n) = LeafAt(e, n)
  BY <1>1 DEF LeafAt
<1>3. Closed(e1)
  BY <1>1, <1>2 DEF Closed
<1> QED BY <1>3 DEF e1

\* The steps that leave the state leaf alone, and those that exchange it.
LEMMA OthersKeep ==
    ASSUME TypeOK, TypeOK', StoreGrows, NEW d \in Caller, CallerInv(d),
           IsPrefix(state.head, state'.head),
           /\ pc'[d] = pc[d] /\ adm'[d] = adm[d] /\ seen'[d] = seen[d]
           /\ draft'[d] = draft[d] /\ done'[d] = done[d],
           pc[d] \in Steps => lease'[d] = lease[d],
           pc[d] = "act" => state' = state /\ guard' = guard /\ calls' = calls
    PROVE  CallerInv(d)'
<1>1. /\ reserved \in Nat /\ reserved' \in Nat
      /\ Target(d)' = Target(d)
      /\ state.head \in Seq(Item) /\ state'.head \in Seq(Item)
  BY BoundsAreNat DEF TypeOK, Target, Envelope
<1>2. ASSUME NEW e, Closed(e) PROVE ClosedIn(e, objects', leaves', descriptors', reserved')
  BY <1>1, <1>2, ClosedHere, ClosedGrows DEF StoreGrows
<1>3. AcquireInv(d)'
  <2>1. ASSUME pc[d] = "select" PROVE Closed(draft[d])'
    <3>1. ClosedIn(draft[d], objects', leaves', descriptors', reserved')
      BY <1>2, <2>1 DEF CallerInv, AcquireInv
    <3> QED BY <3>1 DEF Closed, ClosedIn
  <2> QED BY <2>1 DEF CallerInv, AcquireInv, StoreGrows
<1>4. PublishInv(d)'
  <2>1. ASSUME pc[d] = "publish" PROVE Closed(seen[d])'
    <3>1. ClosedIn(seen[d], objects', leaves', descriptors', reserved')
      BY <1>2, <2>1 DEF CallerInv, PublishInv
    <3> QED BY <3>1 DEF Closed, ClosedIn
  <2>2. ASSUME pc[d] = "publish" PROVE (\A n \in 1..done[d] : EntryPublished(d, n))'
    BY <1>1, <2>2 DEF CallerInv, PublishInv, EntryPublished, StoreGrows
  <2>3. ASSUME pc[d] = "reply" PROVE IsPrefix(Target(d), state'.head)
    <3>1. IsPrefix(Target(d), state.head)
      BY <2>3 DEF CallerInv, PublishInv
    <3> QED BY <1>1, <3>1, TargetTyped, PrefixTransitive
  <2> QED BY <1>1, <2>1, <2>2, <2>3 DEF CallerInv, PublishInv, Steps
<1> QED BY <1>3, <1>4 DEF CallerInv

\* What has been answered and acted on stays in a log that only advances.
LEMMA LogAdvances ==
    ASSUME TypeOK, TypeOK', IsPrefix(state.head, state'.head),
           AckedSurvives, ActionsInOrder, calls' = calls, acked' = acked
    PROVE  AckedSurvives' /\ ActionsInOrder'
<1>1. /\ state.head \in Seq(Item) /\ state'.head \in Seq(Item)
      /\ \A chain \in acked : chain \in Seq(Item)
      /\ \A i \in 1..Len(calls) : calls[i] \in Seq(Item)
  BY ElementOfSeq DEF TypeOK, Envelope
<1>2. AckedSurvives'
  BY <1>1, PrefixTransitive DEF AckedSurvives
<1>3. \A i \in 1..Len(calls) : IsPrefix(calls[i], state'.head)
  BY <1>1, PrefixTransitive DEF ActionsInOrder
<1> QED BY <1>2, <1>3 DEF ActionsInOrder

-------------------------------------------------------------------------------
\* The invariant is preserved, step by step.

\* A step of c as the other callers see it.
OthersUntouched(c) ==
    /\ IsPrefix(state.head, state'.head)
    /\ \A d \in Caller \ {c} :
          /\ pc'[d] = pc[d] /\ adm'[d] = adm[d] /\ seen'[d] = seen[d]
          /\ draft'[d] = draft[d] /\ done'[d] = done[d]
          /\ pc[d] \in Steps => lease'[d] = lease[d]
          /\ pc[d] = "act" => state' = state /\ guard' = guard /\ calls' = calls

LEMMA StepByOne ==
    ASSUME IInv, TypeOK', StoreGrows, NEW c \in Caller, OthersUntouched(c),
           LogInv', CallerInv(c)'
    PROVE  IInv'
<1>1. ASSUME NEW d \in Caller \ {c} PROVE CallerInv(d)'
  BY <1>1, OthersKeep DEF IInv, OthersUntouched
<1> QED BY <1>1 DEF IInv

\* A step that leaves the state leaf, the leases and the history alone.
LEMMA LogInvKeeps ==
    ASSUME TypeOK, TypeOK', LogInv, StoreGrows, UNCHANGED <<state, lease, history>>
    PROVE  LogInv'
<1>1. reserved \in Nat /\ reserved' \in Nat /\ state.head \in Seq(Item)
  BY BoundsAreNat DEF TypeOK, Envelope
<1>2. CommittedClosure'
  <2>1. ClosedIn(state, objects', leaves', descriptors', reserved')
    BY <1>1, ClosedHere, ClosedGrows DEF LogInv, CommittedClosure, StoreGrows
  <2> QED BY <2>1 DEF CommittedClosure, Closed, ClosedIn
<1>3. IsPrefix(state.head, state'.head)
  BY <1>1, PrefixReflexive
<1>4. AckedSurvives' /\ ActionsInOrder'
  BY <1>3, LogAdvances DEF LogInv, history
<1> QED BY <1>2, <1>4 DEF LogInv, FormatInv

\* Calling, being refused or crashing: c knows nothing and needs to know nothing.
LEMMA Forgetting ==
    ASSUME NEW c \in Caller, pc'[c] \in Outcomes \union {"acquire"}, done'[c] = 0
    PROVE  CallerInv(c)'
BY DEF CallerInv, AcquireInv, PublishInv, Outcomes

\* A return touches nobody else.
LEMMA ReturnUntouches ==
    ASSUME TypeOK, NEW c \in Caller, NEW outcome, Return(c, outcome)
    PROVE  /\ \A d \in Caller \ {c} :
                 /\ pc'[d] = pc[d] /\ adm'[d] = adm[d] /\ seen'[d] = seen[d]
                 /\ draft'[d] = draft[d] /\ done'[d] = done[d]
           /\ pc'[c] = outcome /\ done'[c] = 0
BY DEF TypeOK, Return

\* The store as it is, or larger.
LEMMA StoreSame ==
    ASSUME TypeOK, UNCHANGED store
    PROVE  StoreGrows
BY BoundsAreNat DEF TypeOK, store, StoreGrows

LEMMA HeadSame ==
    ASSUME TypeOK, state' = state
    PROVE  IsPrefix(state.head, state'.head)
BY PrefixReflexive DEF TypeOK, Envelope

LEMMA StartAcquireStep ==
    ASSUME IInv, TypeOK', NEW c \in Caller, StartAcquire(c)
    PROVE  IInv'
<1>1. StoreGrows /\ LogInv'
  BY StoreSame, LogInvKeeps DEF StartAcquire, IInv
<1>2. OthersUntouched(c)
  BY HeadSame DEF StartAcquire, Goto, IInv, TypeOK, OthersUntouched, local, history
<1>3. CallerInv(c)'
  <2>1. done'[c] = 0
    BY DEF StartAcquire, Ready, Outcomes, IInv, CallerInv, PublishInv, local
  <2> QED BY <2>1, Forgetting DEF StartAcquire, Goto, IInv, TypeOK
<1> QED BY <1>1, <1>2, <1>3, StepByOne

LEMMA ReadForLeaseStep ==
    ASSUME IInv, TypeOK', NEW c \in Caller, ReadForLease(c)
    PROVE  IInv'
<1>1. StoreGrows /\ LogInv'
  BY StoreSame, LogInvKeeps DEF ReadForLease, IInv
<1>2. CASE Return(c, "idle")
  <2>1. OthersUntouched(c)
    BY <1>2, HeadSame, ReturnUntouches DEF ReadForLease, IInv, OthersUntouched, history
  <2>2. CallerInv(c)'
    BY <1>2, ReturnUntouches, Forgetting DEF IInv, Outcomes
  <2> QED BY <1>1, <2>1, <2>2, StepByOne
<1>3. CASE ~Return(c, "idle")
  <2>1. /\ seen' = [seen EXCEPT ![c] = state]
        /\ pc' = [pc EXCEPT ![c] = FirstStep(state)]
        /\ draft' = [draft EXCEPT ![c] =
                        IF state.format = "v2" THEN [state EXCEPT !.fence = @ + 1]
                                               ELSE NoState]
        /\ UNCHANGED <<adm, done>>
    BY <1>3 DEF ReadForLease, Goto
  <2>2. OthersUntouched(c)
    BY <2>1, HeadSame DEF ReadForLease, IInv, TypeOK, OthersUntouched, history
  <2>3. /\ seen'[c] = state
        /\ pc'[c] = FirstStep(state)
        /\ state \in Envelope
        /\ state' = state
        /\ UNCHANGED store
    BY <2>1 DEF IInv, TypeOK, ReadForLease
  <2>4. AcquireInv(c)'
    <3>1. CASE state.format = "v2"
      <4>1. pc'[c] = "select" /\ draft'[c] = [state EXCEPT !.fence = @ + 1]
        BY <2>1, <2>3, <3>1 DEF FirstStep, IInv, TypeOK
      <4>2. Closed([state EXCEPT !.fence = state.fence + 1])
        BY <2>3, ClosedFence DEF IInv, LogInv, CommittedClosure
      <4>3. Closed(draft[c])'
        <5>1. ClosedIn(draft'[c], objects, leaves, descriptors, reserved)
          BY <4>1, <4>2, ClosedHere
        <5> QED BY <2>3, <5>1 DEF Closed, ClosedIn, store
      <4>4. /\ draft'[c].format = "v2" /\ draft'[c].fence = state.fence + 1
            /\ draft'[c].head = state.head
            /\ draft'[c].ns = state.ns /\ draft'[c].base = state.base
        BY <2>3, <3>1, <4>1 DEF Envelope
      <4> QED BY <2>3, <4>1, <4>3, <4>4 DEF AcquireInv
    <3>2. CASE state.format # "v2"
      <4>1. state.format \in {"none", "v1"}
        BY <2>3, <3>2 DEF Envelope
      <4>2. pc'[c] = "describe" \/ (pc'[c] = "reserve" /\ state.head = <<>>)
        BY <2>3, <4>1 DEF FirstStep, IInv, LogInv, FormatInv
      <4> QED BY <2>3, <3>2, <4>2 DEF AcquireInv
    <3> QED BY <3>1, <3>2
  <2>5. PublishInv(c)'
    <3>1. done'[c] = 0
      BY <2>1 DEF ReadForLease, IInv, CallerInv, PublishInv
    <3> QED BY <2>3, <3>1 DEF PublishInv, FirstStep
  <2> QED BY <1>1, <2>2, <2>4, <2>5, StepByOne DEF CallerInv
<1> QED BY <1>2, <1>3

LEMMA DescribeStep ==
    ASSUME IInv, TypeOK', NEW c \in Caller, Describe(c)
    PROVE  IInv'
<1>1. StoreGrows
  BY BoundsAreNat DEF Describe, IInv, TypeOK, StoreGrows
<1>2. LogInv'
  BY <1>1, LogInvKeeps DEF Describe, IInv
<1>3. OthersUntouched(c)
  BY HeadSame DEF Describe, Goto, IInv, TypeOK, OthersUntouched, local, history
<1>4. CallerInv(c)'
  <2>1. /\ pc'[c] = "reserve" /\ seen' = seen
        /\ seen[c].head \in descriptors'
    BY DEF Describe, Goto, IInv, TypeOK, local
  <2>2. seen[c].format # "v2" /\ done'[c] = 0
    BY DEF Describe, IInv, CallerInv, AcquireInv, PublishInv, local
  <2> QED BY <2>1, <2>2 DEF CallerInv, AcquireInv, PublishInv
<1> QED BY <1>1, <1>2, <1>3, <1>4, StepByOne

LEMMA ReserveStep ==
    ASSUME IInv, TypeOK', NEW c \in Caller, Reserve(c)
    PROVE  IInv'
<1>1. CASE Return(c, "idle") /\ UNCHANGED reserved
  <2>1. StoreGrows
    BY <1>1, StoreSame DEF Reserve, IInv, store
  <2>2. LogInv'
    BY <2>1, LogInvKeeps DEF Reserve, IInv
  <2>3. OthersUntouched(c)
    BY <1>1, HeadSame, ReturnUntouches DEF Reserve, IInv, OthersUntouched, history
  <2>4. CallerInv(c)'
    BY <1>1, ReturnUntouches, Forgetting DEF IInv, Outcomes
  <2> QED BY <2>1, <2>2, <2>3, <2>4, StepByOne
<1>2. CASE ~(Return(c, "idle") /\ UNCHANGED reserved)
  <2> DEFINE e == Leaf("v2", seen[c].fence + 1, reserved + 1, seen[c].head, seen[c].head, <<>>)
  <2>1. /\ reserved' = reserved + 1
        /\ draft' = [draft EXCEPT ![c] = e]
        /\ pc' = [pc EXCEPT ![c] = "select"]
        /\ UNCHANGED <<adm, seen, done>>
    BY <1>2 DEF Reserve, Goto
  <2>2. StoreGrows
    BY <2>1, BoundsAreNat DEF Reserve, IInv, TypeOK, StoreGrows
  <2>3. LogInv'
    BY <2>2, LogInvKeeps DEF Reserve, IInv
  <2>4. OthersUntouched(c)
    BY <2>1, HeadSame DEF Reserve, IInv, TypeOK, OthersUntouched, history
  <2>5. /\ seen[c].format # "v2"
        /\ seen[c].head = <<>> \/ seen[c].head \in descriptors
        /\ seen[c].head \in Seq(Item)
    BY DEF Reserve, IInv, CallerInv, AcquireInv, TypeOK, Envelope
  <2>6. /\ pc'[c] = "select" /\ draft'[c] = e /\ seen'[c] = seen[c]
        /\ descriptors' = descriptors /\ done'[c] = 0
    BY <2>1 DEF Reserve, IInv, TypeOK, CallerInv, PublishInv
  <2>7. /\ e.format = "v2" /\ e.fence = seen[c].fence + 1 /\ e.ns = reserved + 1
        /\ e.base = seen[c].head /\ e.head = seen[c].head /\ e.loc = <<>>
    BY DEF Leaf
  <2> HIDE DEF e
  <2>8. Closed(draft[c])'
    <3>1. reserved \in Nat /\ Len(seen[c].head) \in Nat
      BY <2>5, BoundsAreNat, LenProperties DEF IInv, TypeOK
    <3>2. IsPrefix(e.base, e.head)
      BY <2>5, <2>7, PrefixReflexive
    <3>3. Len(e.base) + 1 .. Len(e.head) = {}
      BY <2>7, <3>1
    <3>4. e.ns \in 1..reserved'
      BY <2>1, <2>7, <3>1
    <3>5. ClosedIn(e, objects', leaves', descriptors', reserved')
      BY <2>5, <2>6, <2>7, <3>2, <3>3, <3>4 DEF ClosedIn
    <3> QED BY <2>6, <3>5 DEF Closed, ClosedIn
  <2>9. CallerInv(c)'
    BY <2>5, <2>6, <2>7, <2>8 DEF CallerInv, AcquireInv, PublishInv
  <2> QED BY <2>2, <2>3, <2>4, <2>9, StepByOne
<1> QED BY <1>1, <1>2

\* A step that returns and changes neither the state leaf nor the history.
LEMMA GiveUpStep ==
    ASSUME IInv, TypeOK', NEW c \in Caller, NEW outcome \in Outcomes \union {"acquire"},
           Return(c, outcome), StoreGrows, UNCHANGED <<state, lease, history>>,
           \A d \in Caller \ {c} : pc[d] = "act" => guard' = guard
    PROVE  IInv'
<1>1. LogInv'
  BY LogInvKeeps DEF IInv
<1>2. OthersUntouched(c)
  BY HeadSame, ReturnUntouches DEF IInv, OthersUntouched, history
<1>3. CallerInv(c)'
  BY ReturnUntouches, Forgetting DEF IInv
<1> QED BY <1>1, <1>2, <1>3, StepByOne

LEMMA SelectFenceStep ==
    ASSUME IInv, TypeOK', NEW c \in Caller, SelectFence(c)
    PROVE  IInv'
<1>0. StoreGrows
  BY StoreSame DEF SelectFence, IInv
<1>1. CASE Misses(c) /\ Return(c, "acquire") /\ UNCHANGED <<state, lease>>
  BY <1>0, <1>1, GiveUpStep DEF SelectFence, history
<1>2. CASE /\ Exchanges(c)
           /\ state' = draft[c]
           /\ lease' = [lease EXCEPT ![c] = draft[c].fence]
           /\ Return(c, "idle")
  <2>1. /\ guard = NoCaller /\ state = seen[c]
        /\ draft[c].format = "v2" /\ draft[c].head = state.head
        /\ Closed(draft[c])
    BY <1>2 DEF SelectFence, Exchanges, SameBytes, IInv, CallerInv, AcquireInv
  <2>2. IsPrefix(state.head, state'.head)
    BY <1>2, <2>1, PrefixReflexive DEF IInv, TypeOK, Envelope
  <2>3. \A d \in Caller : pc[d] # "act"
    BY <2>1, NoCallerIsNone DEF IInv, CallerInv, PublishInv
  <2>4. OthersUntouched(c)
    BY <1>2, <2>2, <2>3, ReturnUntouches DEF IInv, TypeOK, OthersUntouched
  <2>5. CallerInv(c)'
    BY <1>2, ReturnUntouches, Forgetting DEF IInv, Outcomes
  <2>6. CommittedClosure'
    BY <1>2, <2>1 DEF SelectFence, store, CommittedClosure, Closed, LeafAt
  <2>7. LogInv'
    BY <1>2, <2>1, <2>2, <2>6, LogAdvances DEF SelectFence, IInv, LogInv, FormatInv, history
  <2> QED BY <1>0, <2>4, <2>5, <2>7, StepByOne
<1> QED BY <1>1, <1>2 DEF SelectFence

LEMMA ShareLeaseStep ==
    ASSUME IInv, TypeOK', NEW c \in Caller, NEW d \in Caller, ShareLease(c, d)
    PROVE  IInv'
<1>1. StoreGrows
  BY StoreSame DEF ShareLease, IInv
<1>2. LogInv'
  <2>1. CommittedClosure' /\ AckedSurvives' /\ ActionsInOrder'
    BY DEF ShareLease, IInv, LogInv, store, history, CommittedClosure, Closed, LeafAt,
           AckedSurvives, ActionsInOrder
  <2>2. FormatInv'
    BY DEF ShareLease, IInv, LogInv, FormatInv
  <2> QED BY <2>1, <2>2 DEF LogInv
<1>3. OthersUntouched(d)
  BY HeadSame DEF ShareLease, IInv, TypeOK, OthersUntouched, local, history
<1>4. CallerInv(d)'
  <2>1. pc'[d] \in Outcomes /\ done'[d] = 0
    BY DEF ShareLease, Ready, Outcomes, IInv, CallerInv, PublishInv, local
  <2> QED BY <2>1, Forgetting
<1> QED BY <1>1, <1>2, <1>3, <1>4, StepByOne

LEMMA PublishStep ==
    ASSUME IInv, TypeOK', NEW c \in Caller, Publish(c)
    PROVE  IInv'
<1>1. PICK expected \in Expected, batch \in Batches, acts \in Acts :
             \E objs \in SUBSET Range(batch) : StartPublish(c, expected, batch, objs, acts)
  BY DEF Publish
<1>2. PICK objs \in SUBSET Range(batch) : StartPublish(c, expected, batch, objs, acts)
  BY <1>1
<1>3. StoreGrows /\ LogInv'
  BY <1>2, StoreSame, LogInvKeeps DEF StartPublish, IInv
<1>4. CASE Return(c, "idle")
  BY <1>2, <1>3, <1>4, GiveUpStep DEF StartPublish, Outcomes
<1>5. CASE ~Return(c, "idle")
  <2>1. /\ pc' = [pc EXCEPT ![c] = "admit"]
        /\ adm' = [adm EXCEPT ![c] = [fence |-> lease[c], expected |-> expected,
                                      batch |-> batch, objs |-> objs, acts |-> acts]]
        /\ UNCHANGED <<seen, draft, done, lease>>
        /\ lease[c] # 0 /\ batch # <<>>
    BY <1>2, <1>5 DEF StartPublish, Goto, BatchVerifies
  <2>2. OthersUntouched(c)
    BY <1>2, <2>1, HeadSame DEF StartPublish, IInv, TypeOK, OthersUntouched, history
  <2>3. /\ pc'[c] = "admit" /\ adm'[c].batch = batch /\ adm'[c].fence = lease'[c]
        /\ done'[c] = 0
    BY <1>2, <2>1 DEF StartPublish, Ready, Outcomes, IInv, TypeOK, CallerInv, PublishInv
  <2>4. CallerInv(c)'
    BY <2>1, <2>3 DEF CallerInv, AcquireInv, PublishInv
  <2> QED BY <1>3, <2>2, <2>4, StepByOne
<1> QED BY <1>4, <1>5

LEMMA AdmitStep ==
    ASSUME IInv, TypeOK', NEW c \in Caller, Admit(c)
    PROVE  IInv'
<1>1. StoreGrows /\ LogInv'
  BY StoreSame, LogInvKeeps DEF Admit, IInv
<1>2. CASE Return(c, "idle") \/ Return(c, "wrong_head")
  BY <1>1, <1>2, GiveUpStep DEF Admit, Outcomes
<1>3. CASE ~(Return(c, "idle") \/ Return(c, "wrong_head"))
  <2>1. /\ state.format = "v2" /\ state.fence = adm[c].fence
        /\ seen' = [seen EXCEPT ![c] = state]
        /\ \/ state.head = adm[c].expected /\ pc' = [pc EXCEPT ![c] = "publish"]
           \/ IsPrefix(Target(c), state.head) /\ pc' = [pc EXCEPT ![c] = "confirm"]
        /\ UNCHANGED <<adm, draft, done, lease>>
    BY <1>3 DEF Admit, Goto, Redelivers
  <2>2. OthersUntouched(c)
    BY <2>1, HeadSame DEF Admit, IInv, TypeOK, OthersUntouched, history
  <2>3. /\ seen'[c] = state /\ adm'[c] = adm[c] /\ lease'[c] = lease[c]
        /\ state' = state /\ UNCHANGED store /\ done'[c] = done[c]
        /\ Target(c)' = Target(c)
    BY <2>1 DEF Admit, IInv, TypeOK, Target
  <2>4. adm[c].batch # <<>> /\ lease[c] # 0 /\ adm[c].fence = lease[c]
    BY DEF Admit, IInv, CallerInv, PublishInv
  <2>5. CASE state.head = adm[c].expected /\ pc' = [pc EXCEPT ![c] = "publish"]
    <3>1. pc'[c] = "publish" /\ done[c] = 0
      BY <2>5 DEF Admit, IInv, TypeOK, CallerInv, PublishInv
    <3>2. Closed(seen[c])'
      <4>1. ClosedIn(seen'[c], objects, leaves, descriptors, reserved)
        BY <2>3, ClosedHere DEF IInv, LogInv, CommittedClosure
      <4> QED BY <2>3, <4>1 DEF Closed, ClosedIn, store
    <3>3. done'[c] <= Len(adm'[c].batch) /\ 1..done'[c] = {}
      BY <2>3, <3>1, TargetTyped DEF IInv
    <3>4. CallerInv(c)'
      BY <2>1, <2>3, <2>4, <2>5, <3>1, <3>2, <3>3 DEF CallerInv, AcquireInv, PublishInv
    <3> QED BY <1>1, <2>2, <3>4, StepByOne
  <2>6. CASE IsPrefix(Target(c), state.head) /\ pc' = [pc EXCEPT ![c] = "confirm"]
    <3>1. pc'[c] = "confirm" /\ done'[c] = 0
      BY <2>3, <2>6 DEF Admit, IInv, TypeOK, CallerInv, PublishInv
    <3>2. CallerInv(c)'
      BY <2>3, <2>4, <2>6, <3>1 DEF CallerInv, AcquireInv, PublishInv
    <3> QED BY <1>1, <2>2, <3>2, StepByOne
  <2> QED BY <2>1, <2>5, <2>6
<1> QED BY <1>2, <1>3

\* A step that answers Ok for a chain of the log.
LEMMA AnswerStep ==
    ASSUME IInv, TypeOK', NEW c \in Caller, NEW chain \in Seq(Item),
           IsPrefix(chain, state.head), acked' = acked \union {chain},
           Return(c, "idle"), UNCHANGED <<state, store, guard, lease, calls>>
    PROVE  IInv'
<1>1. StoreGrows
  BY StoreSame DEF IInv
<1>2. LogInv'
  BY DEF IInv, LogInv, store, CommittedClosure, Closed, LeafAt, FormatInv,
         AckedSurvives, ActionsInOrder
<1>3. OthersUntouched(c)
  BY HeadSame, ReturnUntouches DEF IInv, OthersUntouched
<1>4. CallerInv(c)'
  BY ReturnUntouches, Forgetting DEF IInv, Outcomes
<1> QED BY <1>1, <1>2, <1>3, <1>4, StepByOne

LEMMA ConfirmStep ==
    ASSUME IInv, TypeOK', NEW c \in Caller, Confirm(c)
    PROVE  IInv'
<1>1. CASE Exchanges(c) /\ acked' = acked \union {Target(c)} /\ Return(c, "idle")
  <2>1. IsPrefix(Target(c), state.head)
    BY <1>1 DEF Confirm, Exchanges, SameBytes, IInv, CallerInv, PublishInv
  <2>2. Target(c) \in Seq(Item)
    BY TargetTyped DEF IInv
  <2> QED BY <1>1, <2>1, <2>2, AnswerStep DEF Confirm
<1>2. CASE Misses(c) /\ Return(c, "wrong_head") /\ UNCHANGED acked
  BY <1>2, GiveUpStep, StoreSame DEF Confirm, Outcomes, IInv, history
<1> QED BY <1>1, <1>2 DEF Confirm

LEMMA ReplyStep ==
    ASSUME IInv, TypeOK', NEW c \in Caller, Reply(c)
    PROVE  IInv'
<1>1. IsPrefix(Target(c), state.head) /\ Target(c) \in Seq(Item)
  BY TargetTyped DEF Reply, IInv, CallerInv, PublishInv
<1> QED BY <1>1, AnswerStep DEF Reply

\* A step of c that adds to the store and moves none of c's locals.
LEMMA StoreStep ==
    ASSUME IInv, TypeOK', NEW c \in Caller, StoreGrows,
           UNCHANGED <<state, guard, pc, lease, local, history>>
    PROVE  IInv'
<1>1. LogInv'
  BY LogInvKeeps DEF IInv
<1>2. ASSUME NEW d \in Caller PROVE CallerInv(d)'
  BY <1>2, OthersKeep, HeadSame DEF IInv, local, history
<1> QED BY <1>1, <1>2 DEF IInv

LEMMA PutObjectStep ==
    ASSUME IInv, TypeOK', NEW c \in Caller, PutObject(c)
    PROVE  IInv'
<1>1. StoreGrows
  BY BoundsAreNat DEF PutObject, IInv, TypeOK, StoreGrows
<1> QED BY <1>1, StoreStep DEF PutObject

LEMMA PutDatumStep ==
    ASSUME IInv, TypeOK', NEW c \in Caller, NEW item \in Datums, PutDatum(c, item)
    PROVE  IInv'
<1>1. StoreGrows
  BY BoundsAreNat DEF PutDatum, IInv, TypeOK, StoreGrows
<1> QED BY <1>1, StoreStep DEF PutDatum

LEMMA PutEntryStep ==
    ASSUME IInv, TypeOK', NEW c \in Caller, PutEntry(c)
    PROVE  IInv'
<1>1. CASE Return(c, "idle") /\ UNCHANGED leaves
  BY <1>1, GiveUpStep, StoreSame DEF PutEntry, Outcomes, IInv, store
<1>2. CASE ~(Return(c, "idle") /\ UNCHANGED leaves)
  <2> DEFINE m == Len(adm[c].expected) + done[c] + 1
             new == EntryLeaf(seen[c].ns, Upto(Target(c), m), Prior(c))
  <2>1. /\ pc[c] = "publish"
        /\ done[c] < Len(adm[c].batch)
        /\ adm[c].batch[done[c] + 1] \in objects
        /\ leaves' = leaves \union {new}
        /\ done' = [done EXCEPT ![c] = @ + 1]
        /\ UNCHANGED <<pc, adm, seen, draft, objects, descriptors, reserved, lease>>
    BY <1>2 DEF PutEntry
  <2>2. StoreGrows
    BY <2>1, BoundsAreNat DEF IInv, TypeOK, StoreGrows
  <2>3. LogInv'
    BY <2>2, LogInvKeeps DEF PutEntry, IInv
  <2>4. OthersUntouched(c)
    BY <2>1, HeadSame DEF PutEntry, IInv, TypeOK, OthersUntouched, history
  <2>5. /\ done[c] \in Nat /\ done'[c] = done[c] + 1
        /\ Target(c)' = Target(c)
        /\ Len(adm[c].expected) \in Nat /\ Len(adm[c].batch) \in Nat
    BY <2>1, TargetTyped DEF IInv, TypeOK, Target
  <2>6. Closed(seen[c])'
    <3>1. reserved \in Nat /\ reserved' \in Nat
      BY BoundsAreNat DEF IInv, TypeOK
    <3>2. ClosedIn(seen[c], objects', leaves', descriptors', reserved')
      BY <2>1, <2>2, <3>1, ClosedHere, ClosedGrows DEF IInv, CallerInv, PublishInv, StoreGrows
    <3> QED BY <2>1, <3>2 DEF Closed, ClosedIn
  <2>7. ASSUME NEW n \in 1..done'[c] PROVE EntryPublished(c, n)'
    <3>1. CASE n \in 1..done[c]
      <4>1. EntryPublished(c, n)
        BY <2>1, <3>1 DEF IInv, CallerInv, PublishInv
      <4> QED BY <2>1, <2>5, <4>1 DEF EntryPublished
    <3>2. CASE n = done[c] + 1
      <4>1. /\ Len(adm[c].expected) + n = m
            /\ m - 1 = Len(adm[c].expected) + done[c]
            /\ n = 1 <=> done[c] = 0
        <5> DEFINE a == Len(adm[c].expected)
                   d == done[c]
        <5>1. a \in Nat /\ d \in Nat
          BY <2>5
        <5>2. n = d + 1 /\ m = a + d + 1
          BY <3>2
        <5> HIDE DEF m, a, d
        <5>3. a + n = m /\ m - 1 = a + d /\ (n = 1 <=> d = 0)
          BY <5>1, <5>2
        <5> QED BY <5>3 DEF a, d
      <4>2. Prior(c) = IF n = 1 THEN seen[c].loc ELSE Upto(Target(c), m - 1)
        <5>1. m - 1 = Len(adm[c].expected) + done[c] /\ (n = 1 <=> done[c] = 0)
          BY <4>1
        <5> HIDE DEF m
        <5>2. CASE done[c] = 0
          BY <5>1, <5>2 DEF Prior
        <5>3. CASE done[c] # 0
          BY <5>1, <5>3 DEF Prior
        <5> QED BY <5>2, <5>3
      <4>3. new \in leaves' /\ adm[c].batch[n] \in objects'
        BY <2>1, <3>2
      <4>4. adm' = adm /\ seen' = seen /\ Target(c)' = Target(c)
        BY <2>1, <2>5
      <4>5. new = EntryLeaf(seen[c].ns, Upto(Target(c), m),
                            IF n = 1 THEN seen[c].loc ELSE Upto(Target(c), m - 1))
        BY <4>2
      <4>6. m = Len(adm[c].expected) + n
        BY <4>1
      <4> HIDE DEF m, new
      <4> QED BY <4>3, <4>4, <4>5, <4>6 DEF EntryPublished
    <3> QED BY <2>5, <2>7, <3>1, <3>2
  <2>8. done'[c] <= Len(adm'[c].batch)
    BY <2>1, <2>5
  <2>9. CallerInv(c)'
    BY <2>1, <2>5, <2>6, <2>7, <2>8 DEF IInv, CallerInv, AcquireInv, PublishInv
  <2> QED BY <2>2, <2>3, <2>4, <2>9, StepByOne
<1> QED BY <1>1, <1>2

\* The closure of the head that a published batch leads to.
LEMMA BatchClosed ==
    ASSUME IInv, NEW c \in Caller, pc[c] = "publish", done[c] = Len(adm[c].batch)
    PROVE  Closed([seen[c] EXCEPT !.head = Target(c), !.loc = Target(c)])
<1> DEFINE e == seen[c]
           e1 == [e EXCEPT !.head = Target(c), !.loc = Target(c)]
           exp == adm[c].expected
           batch == adm[c].batch
<1>1. /\ e \in Envelope /\ e.format = "v2" /\ e.head = exp /\ Closed(e)
      /\ batch # <<>>
      /\ \A n \in 1..Len(batch) : EntryPublished(c, n)
  BY DEF IInv, TypeOK, CallerInv, PublishInv
<1>2. /\ e.ns \in 1..reserved
      /\ e.base # <<>> => e.base \in descriptors
      /\ IsPrefix(e.base, exp)
      /\ e.loc = IF exp = e.base THEN <<>> ELSE exp
      /\ \A n \in Len(e.base) + 1 .. Len(exp) :
            LeafAt(e, n) \in leaves /\ exp[n] \in objects
  BY <1>1 DEF Closed
<1>3. /\ exp \in Seq(Item) /\ batch \in Seq(Item) /\ e.base \in Seq(Item)
      /\ Target(c) \in Seq(Item) /\ Target(c) = exp \o batch
      /\ Len(exp) \in Nat /\ Len(batch) \in Nat /\ Len(e.base) \in Nat
      /\ Len(Target(c)) = Len(exp) + Len(batch)
      /\ Len(e.base) <= Len(exp) /\ Len(batch) > 0
  <2>1. e.base \in Seq(Item)
    BY <1>1 DEF Envelope
  <2>2. Len(batch) > 0
    BY <1>1, TargetTyped, EmptySeq DEF IInv
  <2> QED BY <1>2, <2>1, <2>2, TargetTyped, LenProperties DEF IInv, Target, IsPrefix
<1>4. /\ e1.format = "v2" /\ e1.ns = e.ns /\ e1.base = e.base
      /\ e1.head = Target(c) /\ e1.loc = Target(c)
  BY <1>1 DEF Envelope
<1> HIDE DEF e, e1, exp, batch
<1>5. \A i \in 1..Len(Target(c)) :
         Target(c)[i] = IF i <= Len(exp) THEN exp[i] ELSE batch[i - Len(exp)]
  BY <1>3, ConcatProperties
<1>6. IsPrefix(e.base, Target(c))
  <2>1. IsPrefix(exp, Target(c))
    BY <1>3, BatchExtends
  <2> QED BY <1>2, <1>3, <2>1, PrefixTransitive
<1>7. Target(c) # e.base
  <2>1. Len(Target(c)) # Len(e.base)
    BY <1>3
  <2> QED BY <2>1
<1>8. ASSUME NEW n \in Len(e.base) + 1 .. Len(Target(c))
      PROVE  LeafAt(e1, n) \in leaves /\ Target(c)[n] \in objects
  <2>0. n \in Nat /\ n >= 1 /\ n <= Len(exp) + Len(batch)
    BY <1>3
  <2>1. CASE n <= Len(exp)
    <3>1. LeafAt(e, n) \in leaves /\ exp[n] \in objects
      BY <1>2, <1>3, <2>0, <2>1
    <3>2. /\ Upto(Target(c), n) = Upto(exp, n)
          /\ Upto(Target(c), n - 1) = Upto(exp, n - 1)
      BY <1>3, <2>0, <2>1, UptoOfConcat DEF Upto
    <3>3. LeafAt(e1, n) = LeafAt(e, n)
      BY <1>1, <1>4, <3>2 DEF LeafAt
    <3>4. Target(c)[n] = exp[n]
      BY <1>3, <1>5, <2>0, <2>1
    <3> QED BY <3>1, <3>3, <3>4
  <2>2. CASE n > Len(exp)
    <3> DEFINE k == n - Len(exp)
    <3>1. k \in 1..Len(batch) /\ n = Len(exp) + k /\ (k = 1 <=> n = Len(exp) + 1)
      BY <1>3, <2>0, <2>2
    <3>2. /\ batch[k] \in objects
          /\ EntryLeaf(e.ns, Upto(Target(c), n),
                       IF k = 1 THEN e.loc ELSE Upto(Target(c), n - 1)) \in leaves
      <4>1. EntryPublished(c, k)
        BY <1>1, <3>1
      <4> HIDE DEF k
      <4> QED BY <3>1, <4>1 DEF EntryPublished, e, exp, batch
    <3>3. Target(c)[n] = batch[k]
      BY <1>3, <1>5, <2>0, <2>2, <3>1
    <3>4. LeafAt(e1, n) = EntryLeaf(e.ns, Upto(Target(c), n),
                             IF k = 1 THEN e.loc ELSE Upto(Target(c), n - 1))
      <4>1. LeafAt(e1, n) = EntryLeaf(e.ns, Upto(Target(c), n),
                 IF n = Len(e.base) + 1 THEN <<>> ELSE Upto(Target(c), n - 1))
        BY <1>4 DEF LeafAt
      <4>2. CASE n = Len(e.base) + 1
        <5>1. Len(exp) = Len(e.base) /\ k = 1
          BY <1>3, <2>0, <2>2, <4>2
        <5>2. exp = e.base
          BY <1>2, <1>3, <5>1, SubSeqFull DEF IsPrefix
        <5>3. e.loc = <<>>
          BY <1>2, <5>2
        <5> HIDE DEF k
        <5> QED BY <4>1, <4>2, <5>1, <5>3
      <4>3. CASE n # Len(e.base) + 1 /\ k = 1
        <5>0. n = Len(exp) + 1
          BY <3>1, <4>3
        <5>1. n - 1 = Len(exp) /\ exp # e.base
          BY <1>3, <4>3, <5>0
        <5>2. Upto(Target(c), Len(exp)) = exp
          BY <1>3, UptoOfConcat, SubSeqFull DEF Upto
        <5> QED BY <1>2, <4>1, <4>3, <5>1, <5>2
      <4>4. CASE n # Len(e.base) + 1 /\ k # 1
        BY <4>1, <4>4
      <4> QED BY <4>2, <4>3, <4>4
    <3> QED BY <3>2, <3>3, <3>4
  <2> QED BY <1>3, <2>0, <2>1, <2>2
<1>9. Closed(e1)
  BY <1>2, <1>4, <1>6, <1>7, <1>8 DEF Closed
<1> QED BY <1>9 DEF e, e1

LEMMA CommitHeadStep ==
    ASSUME IInv, TypeOK', NEW c \in Caller, CommitHead(c)
    PROVE  IInv'
<1>0. StoreGrows
  BY StoreSame DEF CommitHead, IInv
<1>1. CASE Misses(c) /\ Return(c, "wrong_head") /\ UNCHANGED <<state, guard>>
  BY <1>0, <1>1, GiveUpStep DEF CommitHead, Outcomes, history
<1>2. CASE /\ Exchanges(c)
           /\ state' = [seen[c] EXCEPT !.head = Target(c), !.loc = Target(c)]
           /\ guard' = IF adm[c].acts THEN c ELSE NoCaller
           /\ Goto(c, IF adm[c].acts THEN "act" ELSE "reply")
           /\ UNCHANGED local
  <2>1. /\ guard = NoCaller /\ state = seen[c] /\ state \in Envelope
        /\ state.head = adm[c].expected /\ state.fence = adm[c].fence
        /\ state.format = "v2" /\ adm[c].batch # <<>>
        /\ lease[c] # 0 /\ adm[c].fence = lease[c]
    BY <1>2 DEF CommitHead, Exchanges, SameBytes, IInv, TypeOK, CallerInv, PublishInv
  <2>2. /\ state'.head = Target(c) /\ state'.fence = state.fence
        /\ state'.format = "v2"
    BY <1>2, <2>1 DEF Envelope
  <2>3. /\ adm[c].expected \in Seq(Item) /\ adm[c].batch \in Seq(Item)
        /\ Target(c) \in Seq(Item) /\ state.head \in Seq(Item)
        /\ Target(c) = state.head \o adm[c].batch
    BY <2>1, TargetTyped DEF IInv, Target
  <2>4. IsPrefix(state.head, state'.head) /\ IsStrictPrefix(state.head, Target(c))
    BY <2>1, <2>2, <2>3, BatchExtends
  <2>5. \A d \in Caller : pc[d] # "act"
    BY <2>1, NoCallerIsNone DEF IInv, CallerInv, PublishInv
  <2>6. OthersUntouched(c)
    BY <1>2, <2>4, <2>5 DEF CommitHead, Goto, IInv, TypeOK, OthersUntouched, local
  <2>7. CommittedClosure'
    <3>1. Closed([seen[c] EXCEPT !.head = Target(c), !.loc = Target(c)])
      BY BatchClosed DEF CommitHead, BatchDurable
    <3> QED BY <1>2, <3>1 DEF CommitHead, store, CommittedClosure, Closed, LeafAt
  <2>8. LogInv'
    BY <2>1, <2>2, <2>4, <2>7, LogAdvances
       DEF CommitHead, IInv, LogInv, FormatInv, history
  <2>9. CallerInv(c)'
    <3>1. /\ pc'[c] = IF adm[c].acts THEN "act" ELSE "reply"
          /\ adm' = adm /\ lease' = lease /\ calls' = calls /\ Target(c)' = Target(c)
      BY <1>2 DEF CommitHead, Goto, IInv, TypeOK, local, history, Target
    <3>2. ASSUME NEW i \in 1..Len(calls) PROVE IsStrictPrefix(calls[i], Target(c))
      <4>1. calls[i] \in Seq(Item)
        BY ElementOfSeq DEF IInv, TypeOK
      <4>2. IsPrefix(calls[i], state.head)
        BY DEF IInv, LogInv, ActionsInOrder
      <4> QED BY <2>3, <2>4, <4>1, <4>2, PrefixThenStrict
    <3>3. CASE adm[c].acts
      BY <1>2, <2>1, <2>2, <3>1, <3>2, <3>3 DEF CallerInv, AcquireInv, PublishInv
    <3>4. CASE ~adm[c].acts
      <4>1. IsPrefix(Target(c), state'.head)
        BY <2>2, <2>3, PrefixReflexive
      <4> QED BY <2>1, <3>1, <3>4, <4>1 DEF CallerInv, AcquireInv, PublishInv
    <3> QED BY <3>3, <3>4
  <2> QED BY <1>0, <2>6, <2>8, <2>9, StepByOne
<1> QED BY <1>1, <1>2 DEF CommitHead

LEMMA AfterCommitStep ==
    ASSUME IInv, TypeOK', NEW c \in Caller, AfterCommit(c)
    PROVE  IInv'
<1>1. StoreGrows
  BY StoreSame DEF AfterCommit, IInv
<1>2. /\ guard = c /\ state.head = Target(c) /\ adm[c].batch # <<>>
      /\ \A i \in 1..Len(calls) : IsStrictPrefix(calls[i], state.head)
  BY DEF AfterCommit, IInv, CallerInv, PublishInv
<1>3. \A d \in Caller \ {c} : pc[d] # "act"
  BY <1>2 DEF IInv, CallerInv, PublishInv
<1>4. OthersUntouched(c)
  BY <1>3, HeadSame DEF AfterCommit, Goto, IInv, TypeOK, OthersUntouched, local
<1>5. /\ state.head \in Seq(Item)
      /\ IsPrefix(state.head, state.head)
      /\ Len(calls) \in Nat
      /\ calls' = Append(calls, state.head)
      /\ Len(calls') = Len(calls) + 1
      /\ \A i \in 1..Len(calls) : calls'[i] = calls[i]
      /\ calls'[Len(calls) + 1] = state.head
  <2>1. state.head \in Seq(Item) /\ calls \in Seq(Seq(Item))
    BY DEF IInv, TypeOK, Envelope
  <2>2. calls' = Append(calls, state.head)
    BY <1>2 DEF AfterCommit
  <2> QED BY <2>1, <2>2, AppendProperties, PrefixReflexive, LenProperties
<1>6. ActionsInOrder'
  <2>1. \A i \in 1..Len(calls') : IsPrefix(calls'[i], state.head)
    BY <1>2, <1>5 DEF IsStrictPrefix
  <2>2. ASSUME NEW i \in 1..Len(calls'), NEW j \in 1..Len(calls'), i < j
        PROVE  IsStrictPrefix(calls'[i], calls'[j])
    <3>1. CASE j \in 1..Len(calls)
      BY <1>5, <2>2, <3>1 DEF IInv, LogInv, ActionsInOrder
    <3>2. CASE j = Len(calls) + 1
      BY <1>2, <1>5, <2>2, <3>2
    <3> QED BY <1>5, <2>2, <3>1, <3>2
  <2> QED BY <2>1, <2>2 DEF AfterCommit, ActionsInOrder
<1>7. LogInv'
  <2>1. CommittedClosure' /\ FormatInv' /\ AckedSurvives'
    BY DEF AfterCommit, IInv, LogInv, store, CommittedClosure, Closed, LeafAt, FormatInv,
           AckedSurvives
  <2> QED BY <1>6, <2>1 DEF LogInv
<1>8. CallerInv(c)'
  <2>1. pc'[c] = "reply" /\ adm' = adm /\ Target(c)' = Target(c) /\ state' = state
    BY DEF AfterCommit, Goto, IInv, TypeOK, local, Target
  <2> QED BY <1>2, <1>5, <2>1 DEF CallerInv, AcquireInv, PublishInv
<1> QED BY <1>1, <1>4, <1>7, <1>8, StepByOne

LEMMA CrashStep ==
    ASSUME IInv, TypeOK', NEW c \in Caller, Crash(c)
    PROVE  IInv'
<1>1. ASSUME NEW d \in Caller \ {c}, pc[d] = "act" PROVE guard' = guard
  BY <1>1 DEF Crash, IInv, CallerInv, PublishInv
<1> QED BY <1>1, GiveUpStep, StoreSame DEF Crash, Outcomes, IInv

\* A step of the first format's writer: it has no lease and touches no local.
LEMMA OldStep ==
    ASSUME IInv, TypeOK', OldCapture \/ \E item \in Item : OldPublish(item)
    PROVE  IInv'
<1>1. StoreGrows /\ UNCHANGED <<store, guard, pc, lease, local, history>>
  BY StoreSame DEF OldCapture, OldPublish, IInv
<1>2. CASE OldCapture
  <2>1. state' = state
    BY <1>2 DEF OldCapture
  <2>2. LogInv'
    BY <1>1, <2>1, LogInvKeeps DEF IInv
  <2>3. ASSUME NEW d \in Caller PROVE CallerInv(d)'
    BY <1>1, <2>1, <2>3, OthersKeep, HeadSame DEF IInv, local, history
  <2> QED BY <2>2, <2>3 DEF IInv
<1>3. ASSUME NEW item \in Item, OldPublish(item) PROVE IInv'
  <2>1. /\ state = old /\ old \in Envelope /\ old.format = "v1" /\ guard = NoCaller
        /\ state' = [old EXCEPT !.head = Append(old.head, item)]
    BY <1>3 DEF OldPublish, IInv, TypeOK
  <2>2. /\ state'.head = Append(state.head, item) /\ state'.format = "v1"
        /\ state.head \in Seq(Item)
    BY <2>1 DEF Envelope
  <2>3. IsPrefix(state.head, state'.head)
    <3>1. <<item>> \in Seq(Item)
      OBVIOUS
    <3>2. Append(state.head, item) = state.head \o <<item>>
      BY <2>2, AppendIsConcat
    <3> QED BY <2>2, <3>1, <3>2, BatchExtends
  <2>4. \A d \in Caller : pc[d] # "act"
    BY <2>1, NoCallerIsNone DEF IInv, CallerInv, PublishInv
  <2>5. LogInv'
    <3>1. CommittedClosure'
      BY <2>2 DEF CommittedClosure, Closed
    <3>2. FormatInv'
      BY <1>1, <2>1, <2>2 DEF IInv, LogInv, FormatInv
    <3> QED BY <1>1, <2>3, <3>1, <3>2, LogAdvances DEF IInv, LogInv, history
  <2>6. ASSUME NEW d \in Caller PROVE CallerInv(d)'
    BY <1>1, <2>3, <2>4, <2>6, OthersKeep DEF IInv, local
  <2> QED BY <2>5, <2>6 DEF IInv
<1> QED BY <1>2, <1>3

-------------------------------------------------------------------------------
\* The theorems

LEMMA InvInit == Init => IInv
<1> SUFFICES ASSUME Init PROVE IInv
  OBVIOUS
<1>1. TypeOK
  BY TypeInit
<1>2. state.format # "v2" /\ (state.format = "none" => state.head = <<>>)
  BY DEF Init, NoState, Leaf
<1>3. LogInv
  <2>1. AckedSurvives /\ ActionsInOrder
    BY EmptySeq DEF Init, AckedSurvives, ActionsInOrder
  <2> QED BY <1>2, <2>1 DEF Init, LogInv, CommittedClosure, Closed, FormatInv
<1>4. \A c \in Caller : CallerInv(c)
  BY DEF Init, CallerInv, AcquireInv, PublishInv
<1> QED BY <1>1, <1>3, <1>4 DEF IInv

LEMMA InvStep == IInv /\ [Next]_vars => IInv'
<1> SUFFICES ASSUME IInv, [Next]_vars PROVE IInv'
  OBVIOUS
<1>0. TypeOK'
  BY TypeStep DEF IInv
<1>1. ASSUME NEW c \in Caller, StartAcquire(c) \/ Publish(c) \/ Crash(c)
      PROVE  IInv'
  BY <1>0, <1>1, StartAcquireStep, PublishStep, CrashStep
<1>2. ASSUME NEW c \in Caller, Continue(c)
      PROVE  IInv'
  BY <1>0, <1>2, ReadForLeaseStep, DescribeStep, ReserveStep, SelectFenceStep, AdmitStep,
     ConfirmStep, PutObjectStep, PutEntryStep, CommitHeadStep, AfterCommitStep, ReplyStep
     DEF Continue
<1>3. ASSUME NEW c \in Caller, NEW d \in Caller, ShareLease(c, d)
      PROVE  IInv'
  BY <1>0, <1>3, ShareLeaseStep
<1>4. ASSUME NEW c \in Caller, NEW item \in Datums, PutDatum(c, item)
      PROVE  IInv'
  BY <1>0, <1>4, PutDatumStep
<1>5. CASE OldCapture \/ \E item \in Item : OldPublish(item)
  BY <1>0, <1>5, OldStep
<1>6. CASE UNCHANGED vars
  <2>1. LogInv'
    BY <1>6 DEF IInv, LogInv, vars, store, history, CommittedClosure, Closed, LeafAt,
                FormatInv, AckedSurvives, ActionsInOrder
  <2>2. ASSUME NEW d \in Caller PROVE CallerInv(d)'
    BY <1>0, <1>6, <2>2, OthersKeep, HeadSame, StoreSame
       DEF IInv, vars, store, local, history
  <2> QED BY <1>0, <2>1, <2>2 DEF IInv
<1> QED BY <1>1, <1>2, <1>3, <1>4, <1>5, <1>6 DEF Next

THEOREM Invariance == Spec => []IInv
BY InvInit, InvStep, PTL DEF Spec

\* At every moment, and so after a crash at any step, the state leaf on disk names a
\* namespace, a prefix, entry leaves and payload objects that exist.
THEOREM ClosureCommitted == Spec => []CommittedClosure
<1>1. IInv => CommittedClosure
  BY DEF IInv, LogInv
<1> QED BY <1>1, Invariance, PTL

\* A publish that was answered Ok stays in the log through every later lease, lost
\* race, redelivery and change of format.
THEOREM AckedIsKept == Spec => []AckedSurvives
<1>1. IInv => AckedSurvives
  BY DEF IInv, LogInv
<1> QED BY <1>1, Invariance, PTL

\* A commit's action runs at most once, and actions run in log order.
THEOREM ActionsOnce == Spec => []ActionsInOrder
<1>1. IInv => ActionsInOrder
  BY DEF IInv, LogInv
<1> QED BY <1>1, Invariance, PTL

\* While an action runs, the head and the fence are those of its commit.
THEOREM ActionExcludes == Spec => []ActionUnderExclusion
<1>1. IInv => ActionUnderExclusion
  BY DEF IInv, CallerInv, PublishInv, ActionUnderExclusion
<1> QED BY <1>1, Invariance, PTL

-------------------------------------------------------------------------------
\* HostJournal implements JournalLog.

\* What an exchange of the state leaf does to the envelope and to the log, at once:
\* used for the refinement and for EnvelopeAdvances.
Advance == /\ IsPrefix(state.head, state'.head)
           /\ state.fence <= state'.fence
           /\ state.format = "v2" => /\ state'.format = "v2"
                                     /\ state'.ns = state.ns /\ state'.base = state.base

\* The abstract module's prefixes are these.
LEMMA SamePrefixes ==
    /\ \A s, t : Log!IsStrictPrefix(s, t) <=> IsStrictPrefix(s, t)
    /\ \A t : Log!Prefixes(t) = Prefixes(t)
BY DEF Log!IsStrictPrefix, Log!IsPrefix, IsStrictPrefix, IsPrefix, Log!Prefixes, Prefixes

LEMMA SelectFenceAdvances ==
    ASSUME IInv, NEW c \in Caller, SelectFence(c), state' # state
    PROVE  Advance /\ Log!Acquire(c)
<1>1. /\ state = seen[c] /\ state' = draft[c] /\ state \in Envelope
      /\ lease' = [lease EXCEPT ![c] = draft[c].fence]
      /\ UNCHANGED history
  BY DEF SelectFence, Exchanges, SameBytes, IInv, TypeOK
<1>2. /\ draft[c].format = "v2" /\ draft[c].fence = state.fence + 1
      /\ draft[c].head = state.head
      /\ state.format = "v2" => draft[c].ns = state.ns /\ draft[c].base = state.base
  BY <1>1 DEF SelectFence, IInv, CallerInv, AcquireInv
<1>3. state.fence \in Nat /\ state.head \in Seq(Item)
  BY <1>1, BoundsAreNat DEF Envelope, Fence
<1>4. IsPrefix(state.head, state'.head)
  BY <1>1, <1>2, <1>3, PrefixReflexive
<1>5. state.fence < MaxFence
  <2>1. draft[c] \in Envelope
    BY <1>2 DEF IInv, TypeOK, NoState
  <2> QED BY <1>2, <1>3, <2>1, BoundsAreNat DEF Envelope, Fence
<1> QED BY <1>1, <1>2, <1>3, <1>4, <1>5 DEF Advance, Log!Acquire, history

LEMMA CommitHeadAdvances ==
    ASSUME IInv, NEW c \in Caller, CommitHead(c), state' # state
    PROVE  Advance /\ Log!Commit(c)
<1>1. /\ state = seen[c] /\ state \in Envelope
      /\ state' = [state EXCEPT !.head = Target(c), !.loc = Target(c)]
      /\ UNCHANGED <<lease, history>>
  BY DEF CommitHead, Exchanges, SameBytes, IInv, TypeOK
<1>2. /\ state.head = adm[c].expected /\ adm[c].batch # <<>>
      /\ lease[c] # 0 /\ lease[c] = state.fence
  BY <1>1 DEF CommitHead, IInv, CallerInv, PublishInv
<1>3. /\ state'.head = Target(c) /\ state'.fence = state.fence /\ state'.ns = state.ns
      /\ state'.base = state.base /\ state'.format = state.format
      /\ state.fence \in Nat
  BY <1>1, BoundsAreNat DEF Envelope, Fence
<1>4. /\ Target(c) \in Seq(Item)
      /\ IsPrefix(state.head, Target(c)) /\ IsStrictPrefix(state.head, Target(c))
  <2>1. /\ adm[c].expected \in Seq(Item) /\ adm[c].batch \in Seq(Item)
        /\ Target(c) = adm[c].expected \o adm[c].batch
    BY TargetTyped DEF IInv, Target
  <2> QED BY <1>2, <2>1, BatchExtends
<1>5. Advance
  BY <1>3, <1>4 DEF Advance
<1>6. Log!Commit(c)
  <2>1. Log!Holds(c)
    BY <1>2 DEF Log!Holds
  <2>2. state'.head \in Seq(Item) /\ IsStrictPrefix(state.head, state'.head)
    BY <1>3, <1>4
  <2>3. UNCHANGED <<state.fence, lease, calls, acked>>
    BY <1>1, <1>3 DEF history
  <2> QED BY <2>1, <2>2, <2>3, SamePrefixes DEF Log!Commit
<1> QED BY <1>5, <1>6

LEMMA OldPublishAdvances ==
    ASSUME IInv, NEW item \in Item, OldPublish(item)
    PROVE  Advance /\ Log!LegacyCommit(item)
<1>1. /\ state = old /\ state \in Envelope /\ state.format = "v1"
      /\ state' = [state EXCEPT !.head = Append(state.head, item)]
      /\ UNCHANGED <<lease, history>>
  BY DEF OldPublish, IInv, TypeOK
<1>2. /\ state'.head = Append(state.head, item) /\ state'.fence = state.fence
      /\ state.head \in Seq(Item) /\ state.fence \in Nat
  BY <1>1, BoundsAreNat DEF Envelope, Fence
<1>3. IsPrefix(state.head, state'.head)
  <2>1. Append(state.head, item) = state.head \o <<item>> /\ <<item>> \in Seq(Item)
    BY <1>2, AppendIsConcat
  <2> QED BY <1>2, <2>1, BatchExtends
<1>4. \A c \in Caller : lease[c] = 0
  BY <1>1 DEF IInv, LogInv, FormatInv
<1> QED BY <1>1, <1>2, <1>3, <1>4 DEF Advance, Log!LegacyCommit, history

\* The answers and the actions are steps of the abstract log.
LEMMA HistorySteps ==
    ASSUME IInv, NEW c \in Caller
    PROVE  /\ Confirm(c) \/ Reply(c) =>
                 \/ \E chain \in Prefixes(state.head) : Log!Acknowledge(chain)
                 \/ UNCHANGED Log!vars
           /\ AfterCommit(c) => Log!Act(c)
<1>1. ASSUME Confirm(c) \/ Reply(c)
      PROVE  \/ \E chain \in Prefixes(state.head) : Log!Acknowledge(chain)
             \/ UNCHANGED Log!vars
  <2>1. CASE UNCHANGED acked
    BY <1>1, <2>1 DEF Confirm, Reply, Log!vars
  <2>2. CASE acked' # acked
    <3>1. /\ acked' = acked \union {Target(c)}
          /\ UNCHANGED <<state, lease, calls>>
          /\ IsPrefix(Target(c), state.head) /\ adm[c].batch # <<>>
      BY <1>1, <2>2 DEF Confirm, Reply, Exchanges, SameBytes, IInv, CallerInv, PublishInv
    <3>2. /\ Target(c) \in Seq(Item) /\ state.head \in Seq(Item)
          /\ adm[c].expected \in Seq(Item) /\ adm[c].batch \in Seq(Item)
      BY TargetTyped DEF IInv, TypeOK, Envelope
    <3>3. Target(c) # <<>>
      BY <3>1, <3>2, ConcatEqualIffEmpty DEF Target
    <3>4. Target(c) \in Prefixes(state.head)
      BY <3>1, <3>2, PrefixIsMember
    <3>5. Log!Acknowledge(Target(c))
      BY <3>1, <3>3 DEF Log!Acknowledge
    <3> QED BY <3>4, <3>5
  <2> QED BY <2>1, <2>2
<1>2. ASSUME AfterCommit(c) PROVE Log!Act(c)
  <2>1. /\ state.head = Target(c) /\ lease[c] # 0 /\ lease[c] = state.fence
        /\ \A i \in 1..Len(calls) : IsStrictPrefix(calls[i], state.head)
    BY <1>2 DEF AfterCommit, IInv, CallerInv, PublishInv
  <2>2. Log!Holds(c)
    BY <2>1 DEF Log!Holds
  <2>3. calls' = Append(calls, state.head) /\ UNCHANGED <<state, lease, acked>>
    BY <1>2, <2>1 DEF AfterCommit
  <2> QED BY <2>1, <2>2, <2>3, SamePrefixes DEF Log!Act
<1> QED BY <1>1, <1>2

LEMMA LogInit == Init => Log!Init
<1> SUFFICES ASSUME Init PROVE Log!Init
  OBVIOUS
<1>1. state.head \in Seq(Item) /\ state.fence \in Nat
  BY TypeInit, BoundsAreNat DEF TypeOK, Envelope, Fence
<1> QED BY <1>1 DEF Init, Log!Init

LEMMA LogStep == IInv /\ [Next]_vars => [Log!Next]_Log!vars
<1> SUFFICES ASSUME IInv, [Next]_vars PROVE [Log!Next]_Log!vars
  OBVIOUS
<1>1. CASE UNCHANGED <<state, lease, history>>
  BY <1>1 DEF Log!vars, history
<1>2. ASSUME NEW c \in Caller, SelectFence(c) PROVE [Log!Next]_Log!vars
  <2>1. CASE state' = state
    <3>1. \/ UNCHANGED <<state, lease, history>>
          \/ state' = draft[c] /\ draft[c].fence = state.fence + 1
      BY <1>2 DEF SelectFence, Exchanges, SameBytes, IInv, CallerInv, AcquireInv
    <3>2. state.fence \in Nat
      BY BoundsAreNat DEF IInv, TypeOK, Envelope, Fence
    <3> QED BY <1>1, <2>1, <3>1, <3>2
  <2>2. CASE state' # state
    BY <1>2, <2>2, SelectFenceAdvances DEF Log!Next
  <2> QED BY <2>1, <2>2
<1>3. ASSUME NEW c \in Caller, CommitHead(c) PROVE [Log!Next]_Log!vars
  <2>1. CASE state' = state
    BY <1>1, <1>3, <2>1 DEF CommitHead
  <2>2. CASE state' # state
    BY <1>3, <2>2, CommitHeadAdvances DEF Log!Next
  <2> QED BY <2>1, <2>2
<1>4. ASSUME NEW c \in Caller, Confirm(c) \/ Reply(c) \/ AfterCommit(c)
      PROVE  [Log!Next]_Log!vars
  <2>1. CASE AfterCommit(c)
    BY <2>1, HistorySteps DEF Log!Next
  <2>2. CASE Confirm(c) \/ Reply(c)
    <3>1. \/ \E chain \in Prefixes(state.head) : Log!Acknowledge(chain)
          \/ UNCHANGED Log!vars
      BY <2>2, HistorySteps
    <3> QED BY <3>1, SamePrefixes DEF Log!Next
  <2> QED BY <1>4, <2>1, <2>2
<1>5. ASSUME NEW c \in Caller, NEW d \in Caller, ShareLease(c, d) PROVE [Log!Next]_Log!vars
  BY <1>5 DEF ShareLease, Log!Next, Log!Share, history
<1>6. ASSUME NEW item \in Item, OldPublish(item) PROVE [Log!Next]_Log!vars
  BY <1>6, OldPublishAdvances DEF Log!Next
<1>7. ASSUME NEW c \in Caller,
             StartAcquire(c) \/ Publish(c) \/ ReadForLease(c) \/ Describe(c) \/ Reserve(c)
               \/ Admit(c) \/ PutObject(c) \/ PutEntry(c) \/ Crash(c)
      PROVE  UNCHANGED <<state, lease, history>>
  BY <1>7 DEF StartAcquire, Publish, StartPublish, ReadForLease, Describe, Reserve, Admit,
              PutObject, PutEntry, Crash
<1>8. ASSUME NEW c \in Caller, NEW item \in Datums, PutDatum(c, item)
      PROVE  UNCHANGED <<state, lease, history>>
  BY <1>8 DEF PutDatum
<1>9. CASE OldCapture \/ UNCHANGED vars
  BY <1>1, <1>9 DEF OldCapture, vars
<1> QED BY <1>1, <1>2, <1>3, <1>4, <1>5, <1>6, <1>7, <1>8, <1>9 DEF Next, Continue

\* The host backend is a journal: every behaviour of it is one of JournalLog's.
THEOREM HostImplementsLog == Spec => ImplementsLog
BY LogInit, LogStep, Invariance, PTL DEF Spec, ImplementsLog, Log!Spec

LEMMA AdvanceStep == IInv /\ [Next]_vars => Advance \/ state' = state
<1> SUFFICES ASSUME IInv, [Next]_vars, state' # state PROVE Advance
  OBVIOUS
<1>1. \/ \E c \in Caller : SelectFence(c) \/ CommitHead(c)
      \/ \E item \in Item : OldPublish(item)
  BY DEF Next, Continue, Publish, StartAcquire, StartPublish, ReadForLease, Describe,
         Reserve, Admit, Confirm, PutObject, PutEntry, AfterCommit, Reply, PutDatum, Crash,
         ShareLease, OldCapture, vars
<1> QED BY <1>1, SelectFenceAdvances, CommitHeadAdvances, OldPublishAdvances

\* The namespace and the prefix of the second format are selected once, the fence
\* never falls and the head only grows.
THEOREM EnvelopeOnlyAdvances == Spec => EnvelopeAdvances
<1>1. IInv /\ [Next]_vars => [Advance]_state
  BY AdvanceStep
<1> QED BY <1>1, Invariance, PTL DEF Spec, EnvelopeAdvances, Advance

-------------------------------------------------------------------------------
\* The inductive invariant of ObjectStore

\* StoreTypeOK without the size of a rebuild's index.
ObjectTypes ==
    /\ dirs \subseteq Object /\ files \subseteq Object /\ answered \subseteq Object
    /\ at \in [Client -> Ends \union Inside]
    /\ arg \in [Client -> Object]
    /\ todo \in [Client -> SUBSET Object]
    /\ index \in [Client -> SUBSET Object]
    /\ due \in [Client -> SUBSET Object]

\* A file has its directory, and an answered put its file.
ObjectFiles == files \subseteq dirs /\ answered \subseteq files

\* What a caller knows: nothing it was promised is outside its listing and its index.
ObjectCallerInv(c) ==
    /\ due[c] \subseteq answered
    /\ at[c] = "publish" => arg[c] \in dirs
    /\ Cardinality(index[c]) <= RebuildBound
    /\ at[c] = "visit" => /\ due[c] \subseteq todo[c] \union index[c]
                          /\ todo[c] \subseteq dirs /\ index[c] \subseteq files
                          /\ todo[c] \intersect index[c] = {}
    /\ at[c] = "rebuilt" => due[c] \subseteq index[c] /\ index[c] \subseteq files
    /\ at[c] \in {"missing", "absent"} => arg[c] \notin due[c]
    /\ at[c] = "bound" => Cardinality(dirs) > RebuildBound

ObjectInv == ObjectTypes /\ ObjectFiles /\ \A c \in Client : ObjectCallerInv(c)

\* A part of the objects is finite, and no larger than the whole it is a part of.
LEMMA ObjectSizes ==
    ASSUME NEW S \in SUBSET Object, NEW T \in SUBSET S
    PROVE  /\ IsFiniteSet(S) /\ IsFiniteSet(T)
           /\ Cardinality(S) \in Nat /\ Cardinality(T) \in Nat
           /\ Cardinality(T) <= Cardinality(S)
<1>1. IsFiniteSet(S) /\ IsFiniteSet(T)
  BY ObjectsAreFinite, FS_Subset
<1> QED BY <1>1, FS_Subset, FS_CardinalityType

LEMMA ObjectTypesStep == ObjectTypes /\ [StoreNext]_storeVars => ObjectTypes'
<1> SUFFICES ASSUME ObjectTypes, [StoreNext]_storeVars PROVE ObjectTypes'
  OBVIOUS
<1>1. ASSUME NEW c \in Client, CreateDir(c) \/ PublishFile(c) \/ List(c) \/ Dies(c)
      PROVE  ObjectTypes'
  BY <1>1 DEF CreateDir, PublishFile, List, Dies, Begin, Moves, ObjectTypes, Ends, Inside
<1>2. ASSUME NEW c \in Client, NEW item \in Object, Put(c, item) \/ Get(c, item)
      PROVE  ObjectTypes'
  BY <1>2 DEF Put, Get, Begin, Moves, ObjectTypes, Ends, Inside
<1>3. ASSUME NEW c \in Client, NEW item \in Object, Visit(c, item)
      PROVE  ObjectTypes'
  BY <1>3 DEF Visit, Moves, ObjectTypes, Ends, Inside
<1>4. CASE UNCHANGED storeVars
  BY <1>4 DEF storeVars, ObjectTypes
<1> QED BY <1>1, <1>2, <1>3, <1>4 DEF StoreNext

\* The store only grows, and a caller that does not move keeps what it knows.
LEMMA ObjectOthersKeep ==
    ASSUME ObjectInv, ObjectTypes', NEW d \in Client,
           dirs \subseteq dirs', files \subseteq files', answered \subseteq answered',
           at'[d] = at[d], arg'[d] = arg[d], todo'[d] = todo[d], index'[d] = index[d],
           due'[d] = due[d]
    PROVE  ObjectCallerInv(d)'
<1>1. /\ Cardinality(dirs) <= Cardinality(dirs')
      /\ Cardinality(dirs) \in Nat /\ Cardinality(dirs') \in Nat
  BY ObjectSizes DEF ObjectTypes
<1>2. at[d] = "bound" => Cardinality(dirs') > RebuildBound
  BY <1>1, RebuildBoundIsNat DEF ObjectInv, ObjectCallerInv
<1> QED BY <1>2 DEF ObjectInv, ObjectCallerInv

LEMMA ObjectStepByOne ==
    ASSUME ObjectInv, ObjectTypes', NEW c \in Client,
           dirs \subseteq dirs', files \subseteq files', answered \subseteq answered',
           \A d \in Client \ {c} : /\ at'[d] = at[d] /\ arg'[d] = arg[d] /\ due'[d] = due[d]
                                   /\ todo'[d] = todo[d] /\ index'[d] = index[d],
           ObjectFiles', ObjectCallerInv(c)'
    PROVE  ObjectInv'
<1>1. ASSUME NEW d \in Client \ {c} PROVE ObjectCallerInv(d)'
  BY <1>1, ObjectOthersKeep
<1> QED BY <1>1 DEF ObjectInv

-------------------------------------------------------------------------------
\* One lemma per action of ObjectStore

LEMMA ObjectPutStep ==
    ASSUME ObjectInv, ObjectTypes', NEW c \in Client, NEW item \in Object, Put(c, item)
    PROVE  ObjectInv'
<1>1. /\ at'[c] = "create" /\ due'[c] = answered' /\ index'[c] = index[c]
      /\ Cardinality(index[c]) <= RebuildBound
  BY DEF Put, Begin, Moves, ObjectInv, ObjectTypes, ObjectCallerInv
<1>2. ObjectCallerInv(c)' /\ ObjectFiles'
  BY <1>1 DEF Put, ObjectInv, ObjectCallerInv, ObjectFiles
<1> QED BY <1>2, ObjectStepByOne DEF Put, Begin, Moves, ObjectInv, ObjectTypes

LEMMA ObjectCreateDirStep ==
    ASSUME ObjectInv, ObjectTypes', NEW c \in Client, CreateDir(c)
    PROVE  ObjectInv'
<1>1. at'[c] = "publish" /\ arg'[c] \in dirs'
  BY DEF CreateDir, Moves, ObjectInv, ObjectTypes
<1>2. ObjectCallerInv(c)' /\ ObjectFiles'
  BY <1>1 DEF CreateDir, ObjectInv, ObjectCallerInv, ObjectFiles
<1> QED BY <1>2, ObjectStepByOne DEF CreateDir, Moves, ObjectInv, ObjectTypes

LEMMA ObjectPublishStep ==
    ASSUME ObjectInv, ObjectTypes', NEW c \in Client, PublishFile(c)
    PROVE  ObjectInv'
<1>1. at'[c] = "stored" /\ arg[c] \in dirs
  BY DEF PublishFile, Moves, ObjectInv, ObjectTypes, ObjectCallerInv
<1>2. ObjectCallerInv(c)' /\ ObjectFiles'
  BY <1>1 DEF PublishFile, ObjectInv, ObjectCallerInv, ObjectFiles
<1> QED BY <1>2, ObjectStepByOne DEF PublishFile, Moves, ObjectInv, ObjectTypes

\* An object that was put has its file: a get that misses it was begun before.
LEMMA ObjectGetStep ==
    ASSUME ObjectInv, ObjectTypes', NEW c \in Client, NEW item \in Object, Get(c, item)
    PROVE  ObjectInv'
<1>1. /\ arg'[c] = item /\ due'[c] = answered /\ answered' = answered
      /\ at'[c] \in {"found", "missing", "absent"}
      /\ at'[c] \in {"missing", "absent"} => item \notin files
      /\ index'[c] = index[c] /\ Cardinality(index[c]) <= RebuildBound
  BY DEF Get, Begin, Moves, ObjectInv, ObjectTypes, ObjectCallerInv
<1>2. ObjectCallerInv(c)' /\ ObjectFiles'
  BY <1>1 DEF Get, ObjectInv, ObjectCallerInv, ObjectFiles
<1> QED BY <1>2, ObjectStepByOne DEF Get, Begin, Moves, ObjectInv, ObjectTypes

LEMMA ObjectListStep ==
    ASSUME ObjectInv, ObjectTypes', NEW c \in Client, List(c)
    PROVE  ObjectInv'
<1>1. /\ todo'[c] = dirs /\ index'[c] = {} /\ due'[c] = answered
      /\ at'[c] = IF dirs = {} THEN "rebuilt" ELSE "visit"
      /\ UNCHANGED <<dirs, files, answered>>
  BY DEF List, Begin, Moves, ObjectInv, ObjectTypes
<1>2. answered \subseteq dirs /\ Cardinality({}) = 0
  BY FS_EmptySet DEF ObjectInv, ObjectFiles
<1>3. ObjectCallerInv(c)' /\ ObjectFiles'
  BY <1>1, <1>2, RebuildBoundIsNat DEF ObjectInv, ObjectCallerInv, ObjectFiles
<1> QED BY <1>3, ObjectStepByOne DEF List, Begin, Moves, ObjectInv, ObjectTypes

\* Below the bound a visit finds its object, and what it was promised stays covered.
LEMMA ObjectVisitStep ==
    ASSUME ObjectInv, ObjectTypes', NEW c \in Client, NEW item \in Object, Visit(c, item)
    PROVE  ObjectInv'
<1>1. /\ at[c] = "visit" /\ item \in todo[c] /\ todo[c] \subseteq dirs
      /\ index[c] \subseteq files /\ due[c] \subseteq todo[c] \union index[c]
      /\ todo[c] \intersect index[c] = {} /\ due[c] \subseteq answered
      /\ Cardinality(index[c]) <= RebuildBound
      /\ UNCHANGED <<dirs, files, answered, due>>
      /\ files \subseteq dirs /\ answered \subseteq files /\ dirs \in SUBSET Object
  BY DEF Visit, ObjectInv, ObjectCallerInv, ObjectFiles, ObjectTypes
<1>2. /\ IsFiniteSet(index[c]) /\ Cardinality(index[c]) \in Nat
      /\ Cardinality(index[c] \union {item}) = Cardinality(index[c]) + 1
      /\ index[c] \union {item} \in SUBSET dirs
  BY <1>1, ObjectSizes, FS_AddElement
<1>3. Cardinality(index[c] \union {item}) <= Cardinality(dirs) /\ Cardinality(dirs) \in Nat
  BY <1>1, <1>2, ObjectSizes
<1>4. ObjectCallerInv(c)'
  <2>1. CASE BoundReached(c)
    <3>1. at'[c] = "bound" /\ index'[c] = index[c]
      BY <1>1, <2>1 DEF Visit, Moves, ObjectInv, ObjectTypes
    <3>2. Cardinality(dirs) > RebuildBound
      BY <1>2, <1>3, <2>1, RebuildBoundIsNat DEF BoundReached
    <3> QED BY <1>1, <3>1, <3>2 DEF ObjectCallerInv
  <2>2. CASE ~BoundReached(c) /\ item \notin files
    <3>1. at'[c] = "missing" /\ arg'[c] = item /\ index'[c] = index[c]
      BY <1>1, <2>2 DEF Visit, Moves, ObjectInv, ObjectTypes
    <3> QED BY <1>1, <2>2, <3>1 DEF ObjectCallerInv
  <2>3. CASE ~BoundReached(c) /\ item \in files
    <3>1. /\ index'[c] = index[c] \union {item} /\ todo'[c] = todo[c] \ {item}
          /\ at'[c] = IF todo'[c] = {} THEN "rebuilt" ELSE "visit"
      BY <1>1, <2>3 DEF Visit, Moves, ObjectInv, ObjectTypes
    <3>2. Cardinality(index'[c]) <= RebuildBound
      BY <1>2, <2>3, <3>1, RebuildBoundIsNat DEF BoundReached
    <3> QED BY <1>1, <2>3, <3>1, <3>2 DEF ObjectCallerInv
  <2> QED BY <2>1, <2>2, <2>3
<1>5. ObjectFiles'
  BY <1>1 DEF ObjectFiles
<1> QED BY <1>1, <1>4, <1>5, ObjectStepByOne DEF Visit, Moves, ObjectInv, ObjectTypes

LEMMA ObjectCrashStep ==
    ASSUME ObjectInv, ObjectTypes', NEW c \in Client, Dies(c)
    PROVE  ObjectInv'
<1>1. at'[c] = "stopped"
  BY DEF Dies, Moves, ObjectInv, ObjectTypes
<1>2. ObjectCallerInv(c)' /\ ObjectFiles'
  BY <1>1 DEF Dies, ObjectInv, ObjectCallerInv, ObjectFiles
<1> QED BY <1>2, ObjectStepByOne DEF Dies, Moves, ObjectInv, ObjectTypes

LEMMA ObjectInvInit == StoreInit => ObjectInv
<1> SUFFICES ASSUME StoreInit PROVE ObjectInv
  OBVIOUS
<1>1. Cardinality({}) = 0
  BY FS_EmptySet
<1>2. ObjectTypes
  BY DEF StoreInit, ObjectTypes, Ends
<1>3. \A c \in Client : ObjectCallerInv(c)
  BY <1>1, RebuildBoundIsNat DEF StoreInit, ObjectCallerInv
<1> QED BY <1>2, <1>3 DEF StoreInit, ObjectInv, ObjectFiles

LEMMA ObjectInvStep == ObjectInv /\ [StoreNext]_storeVars => ObjectInv'
<1> SUFFICES ASSUME ObjectInv, [StoreNext]_storeVars PROVE ObjectInv'
  OBVIOUS
<1>0. ObjectTypes'
  BY ObjectTypesStep DEF ObjectInv
<1>1. CASE UNCHANGED storeVars
  <2>1. \A c \in Client : ObjectCallerInv(c)'
    BY <1>1 DEF storeVars, ObjectInv, ObjectCallerInv
  <2> QED BY <1>0, <1>1, <2>1 DEF storeVars, ObjectInv, ObjectFiles
<1> QED BY <1>0, <1>1, ObjectPutStep, ObjectCreateDirStep, ObjectPublishStep, ObjectGetStep,
           ObjectListStep, ObjectVisitStep, ObjectCrashStep DEF StoreNext

THEOREM ObjectInvariance == StoreSpec => []ObjectInv
BY ObjectInvInit, ObjectInvStep, PTL DEF StoreSpec

\* Every variable keeps its type, and a rebuild never holds more than its bound.
THEOREM ObjectTypeCorrect == StoreSpec => []StoreTypeOK
<1>1. ObjectInv => StoreTypeOK
  BY DEF ObjectInv, ObjectTypes, ObjectCallerInv, StoreTypeOK
<1> QED BY <1>1, ObjectInvariance, PTL

\* A rebuilt index is complete and sound, whatever was put or died while it ran.
THEOREM IndexIsComplete == StoreSpec => []IndexComplete
<1>1. ObjectInv => IndexComplete
  BY DEF ObjectInv, ObjectCallerInv, IndexComplete
<1> QED BY <1>1, ObjectInvariance, PTL

\* An object whose put was answered is never missing to a later call.
THEOREM AckedStaysFound == StoreSpec => []AckedIsFound
<1>1. ObjectInv => AckedIsFound
  BY DEF ObjectInv, ObjectCallerInv, AckedIsFound
<1> QED BY <1>1, ObjectInvariance, PTL

\* A rebuild is refused for its bound only over a store that is larger than it.
THEOREM BoundStaysHonest == StoreSpec => []BoundIsHonest
<1>1. ObjectInv => BoundIsHonest
  BY DEF ObjectInv, ObjectCallerInv, BoundIsHonest
<1> QED BY <1>1, ObjectInvariance, PTL
================================================================================
