-------------------------- MODULE MemoryJournalProofs --------------------------
(***************************************************************************)
(* What MemoryJournal guarantees for every number of threads, items and    *)
(* leases: the mutex an action keeps is what makes the snapshot a batch    *)
(* was verified against, the commit and the action one story.              *)
(***************************************************************************)
EXTENDS MemoryJournal, Integers, SequenceTheorems, TLAPS

-------------------------------------------------------------------------------
\* Chains: a head is the items that lead to it

\* A prefix agrees with the chain on every entry it has: what matching two entries
\* by sequence number (verify_batch, admit_with_action) comes to.
LEMMA PrefixByEntries ==
    ASSUME NEW S, NEW s \in Seq(S), NEW t \in Seq(S)
    PROVE  IsPrefix(s, t) <=> /\ Len(s) <= Len(t)
                              /\ \A i \in 1..Len(s) : s[i] = t[i]
<1>1. /\ Len(s) \in Nat /\ Len(t) \in Nat
      /\ \A i \in 1..Len(s) : s[i] \in S
      /\ \A i \in 1..Len(t) : t[i] \in S
  BY LenProperties, ElementOfSeq
<1>2. /\ SubSeq(s, 1, Len(s)) = s
  BY SubSeqFull
<1>3. SUFFICES ASSUME Len(s) <= Len(t)
               PROVE  s = SubSeq(t, 1, Len(s)) <=> \A i \in 1..Len(s) : s[i] = t[i]
  BY <1>2 DEF IsPrefix
<1>4. /\ SubSeq(t, 1, Len(s)) \in Seq(S)
      /\ Len(SubSeq(t, 1, Len(s))) = Len(s)
      /\ \A i \in 1..Len(s) : SubSeq(t, 1, Len(s))[i] = t[i]
  BY <1>1, <1>3, SubSeqProperties
<1>5. ASSUME \A i \in 1..Len(s) : s[i] = t[i]
      PROVE  s = SubSeq(t, 1, Len(s))
  BY <1>4, <1>5, SeqEqual
<1> QED BY <1>4, <1>5

\* Every chain is a prefix of itself.
LEMMA PrefixReflexive ==
    ASSUME NEW S, NEW s \in Seq(S)
    PROVE  IsPrefix(s, s)
BY PrefixByEntries

\* What was in the log stays in it as the log grows.
LEMMA PrefixTransitive ==
    ASSUME NEW S, NEW s \in Seq(S), NEW t \in Seq(S), NEW u \in Seq(S),
           IsPrefix(s, t), IsPrefix(t, u)
    PROVE  IsPrefix(s, u)
<1>1. /\ Len(s) \in Nat /\ Len(t) \in Nat /\ Len(u) \in Nat
  BY LenProperties
<1>2. /\ Len(s) <= Len(t) /\ \A i \in 1..Len(s) : s[i] = t[i]
      /\ Len(t) <= Len(u) /\ \A i \in 1..Len(t) : t[i] = u[i]
  BY PrefixByEntries
<1> QED BY <1>1, <1>2, PrefixByEntries

\* Two chains that are prefixes of each other are one chain.
LEMMA PrefixAntisymmetric ==
    ASSUME NEW S, NEW s \in Seq(S), NEW t \in Seq(S), IsPrefix(s, t), IsPrefix(t, s)
    PROVE  s = t
<1>1. /\ Len(s) \in Nat /\ Len(t) \in Nat
  BY LenProperties
<1>2. /\ Len(s) <= Len(t) /\ \A i \in 1..Len(s) : s[i] = t[i]
      /\ Len(t) <= Len(s)
  BY PrefixByEntries
<1> QED BY <1>1, <1>2, SeqEqual

\* A batch extends the head it is published on, and strictly so: it is not empty.
LEMMA BatchExtends ==
    ASSUME NEW S, NEW s \in Seq(S), NEW t \in Seq(S)
    PROVE  /\ s \o t \in Seq(S)
           /\ IsPrefix(s, s \o t)
           /\ t # <<>> => IsStrictPrefix(s, s \o t) /\ Len(s \o t) > Len(s)
<1>1. /\ Len(s) \in Nat /\ Len(t) \in Nat
      /\ s \o t \in Seq(S)
      /\ Len(s \o t) = Len(s) + Len(t)
      /\ \A i \in 1..Len(s) : (s \o t)[i] = s[i]
  BY LenProperties, ConcatProperties
<1>2. IsPrefix(s, s \o t)
  <2>1. Len(s) <= Len(s \o t) /\ \A i \in 1..Len(s) : s[i] = (s \o t)[i]
    BY <1>1
  <2>2. IsPrefix(s, s \o t) <=> /\ Len(s) <= Len(s \o t)
                                /\ \A i \in 1..Len(s) : s[i] = (s \o t)[i]
    BY <1>1, PrefixByEntries
  <2> QED BY <2>1, <2>2
<1>3. ASSUME t # <<>> PROVE Len(t) > 0
  BY <1>1, <1>3, EmptySeq
<1> QED BY <1>1, <1>2, <1>3 DEF IsStrictPrefix

\* A prefix of what a batch extends is a strict prefix of the result.
LEMMA PrefixThenStrict ==
    ASSUME NEW S, NEW s \in Seq(S), NEW t \in Seq(S), NEW u \in Seq(S),
           IsPrefix(s, t), IsStrictPrefix(t, u)
    PROVE  IsStrictPrefix(s, u)
BY PrefixTransitive, PrefixAntisymmetric DEF IsStrictPrefix

\* The prefixes of a chain are the members of Prefixes.
LEMMA PrefixIsMember ==
    ASSUME NEW S, NEW s \in Seq(S), NEW t \in Seq(S), IsPrefix(s, t)
    PROVE  s \in Prefixes(t)
<1>1. Len(s) \in 0..Len(t)
  BY LenProperties DEF IsPrefix
<1>2. s = SubSeq(t, 1, Len(s))
  BY SubSeqFull DEF IsPrefix
<1> QED BY <1>1, <1>2 DEF Prefixes

-------------------------------------------------------------------------------
\* Types

\* A call that returns leaves typed locals behind.
LEMMA ReturnTyped ==
    ASSUME TypeOK, NEW c \in Caller, NEW outcome \in Outcomes, Return(c, outcome)
    PROVE  pc' \in [Caller -> Outcomes \union Steps] /\ adm' \in [Caller -> Admission]
<1>1. NoAdmission \in Admission
  BY EmptySeq DEF NoAdmission, Admission
<1> QED BY <1>1 DEF TypeOK, Return

\* The chain a batch leads to is a chain.
LEMMA TargetTyped ==
    ASSUME TypeOK, NEW c \in Caller
    PROVE  /\ adm[c].expected \in Seq(Item) /\ adm[c].batch \in Seq(Item)
           /\ adm[c].objs \subseteq Item
           /\ Target(c) \in Seq(Item)
<1>1. adm[c] \in Admission
  BY DEF TypeOK
<1>2. /\ adm[c].expected \in Seq(Item) /\ adm[c].batch \in Seq(Item)
      /\ adm[c].objs \subseteq Item
  BY <1>1 DEF Admission
<1> QED BY <1>2, ConcatProperties DEF Target

\* A batch that is published is one its caller may publish.
LEMMA PublishTyped ==
    ASSUME TypeOK, NEW c \in Caller, Publish(c)
    PROVE  TypeOK'
<1>1. PICK expected \in Expected, batch \in Batches, acts \in Acts :
            \E objs \in SUBSET Range(batch) : StartPublish(c, expected, batch, objs, acts)
  BY DEF Publish
<1>2. PICK objs \in SUBSET Range(batch) : StartPublish(c, expected, batch, objs, acts)
  BY <1>1
<1>3. [fence |-> lease[c], expected |-> expected, batch |-> batch,
       objs |-> objs, acts |-> acts] \in Admission
  <2>1. expected \in Seq(Item) /\ batch \in Seq(Item) /\ acts \in BOOLEAN
    BY InputsAreTyped
  <2>2. objs \in SUBSET Item /\ lease[c] \in Nat
    BY <2>1, RangeOfSeq, BoundsAreNat DEF TypeOK
  <2> QED BY <2>1, <2>2 DEF Admission
<1>4. pc' \in [Caller -> Outcomes \union Steps] /\ adm' \in [Caller -> Admission]
  <2>1. CASE Return(c, "idle")
    BY <2>1, ReturnTyped DEF Outcomes
  <2>2. CASE ~Return(c, "idle")
    BY <1>2, <1>3, <2>2 DEF StartPublish, TypeOK, Goto, Steps
  <2> QED BY <2>1, <2>2
<1> QED BY <1>2, <1>4 DEF StartPublish, TypeOK

LEMMA TypeStep == TypeOK /\ [Next]_vars => TypeOK'
<1> SUFFICES ASSUME TypeOK, [Next]_vars PROVE TypeOK'
  OBVIOUS
<1>1. ASSUME NEW c \in Caller, AcquireLease(c) PROVE TypeOK'
  <2>1. fence + 1 \in 0..MaxFence
    BY <1>1, BoundsAreNat DEF AcquireLease, FenceExhausted, TypeOK
  <2> QED BY <1>1, <2>1 DEF AcquireLease, TypeOK
<1>2. ASSUME NEW c \in Caller, Refuse(c) \/ Redeliver(c) \/ Panic(c) \/ Reply(c)
      PROVE  TypeOK'
  <2>1. \E outcome \in Outcomes : Return(c, outcome)
    BY <1>2 DEF Refuse, Redeliver, Panic, Reply, Outcomes
  <2>2. pc' \in [Caller -> Outcomes \union Steps] /\ adm' \in [Caller -> Admission]
    BY <2>1, ReturnTyped
  <2> QED BY <1>2, <2>2, TargetTyped DEF Refuse, Redeliver, Panic, Reply, TypeOK
<1>3. ASSUME NEW c \in Caller, Commit(c) PROVE TypeOK'
  <2>1. pc' \in [Caller -> Outcomes \union Steps]
    BY <1>3 DEF Commit, Goto, TypeOK, Steps
  <2> QED BY <1>3, <2>1, TargetTyped DEF Commit, Holder, TypeOK
<1>4. ASSUME NEW c \in Caller, AfterCommit(c) PROVE TypeOK'
  <2>1. Append(calls, Target(c)) \in Seq(Seq(Item))
    BY TargetTyped, AppendProperties DEF TypeOK
  <2> QED BY <1>4, <2>1 DEF AfterCommit, Goto, TypeOK, Steps
<1>5. ASSUME NEW c \in Caller, NEW d \in Caller, ShareLease(c, d) PROVE TypeOK'
  BY <1>5 DEF ShareLease, TypeOK
<1>6. ASSUME NEW item \in Datums, PutDatum(item) PROVE TypeOK'
  BY <1>6, InputsAreTyped DEF PutDatum, TypeOK
<1>7. CASE UNCHANGED vars
  BY <1>7 DEF vars, TypeOK
<1> QED BY <1>1, <1>2, <1>3, <1>4, <1>5, <1>6, <1>7, PublishTyped DEF Next, Continue

LEMMA TypeInit == Init => TypeOK
<1>1. NoAdmission \in Admission
  BY EmptySeq DEF NoAdmission, Admission
<1>2. <<>> \in Seq(Item) /\ <<>> \in Seq(Seq(Item)) /\ 0 \in 0..MaxFence
  BY EmptySeq, BoundsAreNat
<1> QED BY <1>1, <1>2 DEF Init, TypeOK, Outcomes

\* Every variable keeps its type: the fence stops at MaxFence and no writer
\* generation is issued twice.
THEOREM TypeCorrect == Spec => []TypeOK
BY TypeInit, TypeStep, PTL DEF Spec

-------------------------------------------------------------------------------
\* The inductive invariant

\* What a caller of publish has made sure of, before its commit and after it.
CallerInv(c) ==
    /\ pc[c] \in Steps => adm[c].batch # <<>>
    /\ pc[c] \in {"admit", "act"} => lease[c] # 0 /\ adm[c].fence = lease[c]
    /\ pc[c] = "admit" => Range(adm[c].batch) \subseteq adm[c].objs \union objects
    /\ pc[c] = "act" => /\ admission = c /\ log = Target(c) /\ fence = lease[c]
                        /\ \A i \in 1..Len(calls) : IsStrictPrefix(calls[i], log)
    /\ pc[c] = "reply" => IsPrefix(Target(c), log)

AckedInLog == \A chain \in acked : IsPrefix(chain, log)

CallsInLog == \A i \in 1..Len(calls) : IsPrefix(calls[i], log)

IInv == TypeOK /\ Verifies /\ AckedInLog /\ CallsInLog /\ \A c \in Caller : CallerInv(c)

\* The calls and the log are chains.
LEMMA Chains ==
    ASSUME TypeOK
    PROVE  /\ log \in Seq(Item)
           /\ \A chain \in acked : chain \in Seq(Item)
           /\ \A i \in 1..Len(calls) : calls[i] \in Seq(Item)
BY ElementOfSeq DEF TypeOK

\* A caller keeps what it knows while others grow the log and the objects, and nobody
\* touches the log, the fence or the mutex beside its action.
LEMMA OthersKeep ==
    ASSUME TypeOK, TypeOK', NEW d \in Caller, CallerInv(d),
           IsPrefix(log, log'), objects \subseteq objects',
           pc'[d] = pc[d], adm'[d] = adm[d], pc[d] \in Steps => lease'[d] = lease[d],
           pc[d] = "act" => UNCHANGED <<log, fence, admission, calls>>
    PROVE  CallerInv(d)'
<1>1. Target(d)' = Target(d) /\ Target(d) \in Seq(Item) /\ log \in Seq(Item) /\ log' \in Seq(Item)
  BY TargetTyped DEF Target, TypeOK
<1>2. pc[d] = "reply" => IsPrefix(Target(d), log')
  BY <1>1, PrefixTransitive DEF CallerInv
<1> QED BY <1>1, <1>2 DEF CallerInv, Steps

\* What was answered and acted on stays in a log that only grows.
LEMMA HistoryKept ==
    ASSUME IInv, TypeOK', IsPrefix(log, log'), UNCHANGED <<calls, acked>>
    PROVE  AckedInLog' /\ CallsInLog'
<1>1. log' \in Seq(Item)
  BY DEF TypeOK
<1>2. ASSUME NEW chain \in Seq(Item), IsPrefix(chain, log) PROVE IsPrefix(chain, log')
  BY <1>1, <1>2, Chains, PrefixTransitive DEF IInv
<1> QED BY <1>2, Chains DEF IInv, AckedInLog, CallsInLog

\* A step of c: the others keep what they know.
OthersUntouched(c) ==
    \A d \in Caller \ {c} :
       /\ pc'[d] = pc[d] /\ adm'[d] = adm[d]
       /\ pc[d] \in Steps => lease'[d] = lease[d]
       /\ pc[d] = "act" => UNCHANGED <<log, fence, admission, calls>>

LEMMA StepByOne ==
    ASSUME IInv, TypeOK', NEW c \in Caller, IsPrefix(log, log'), objects \subseteq objects',
           OthersUntouched(c), Verifies', AckedInLog', CallsInLog', CallerInv(c)'
    PROVE  IInv'
<1>1. ASSUME NEW d \in Caller \ {c} PROVE CallerInv(d)'
  BY <1>1, OthersKeep DEF IInv, OthersUntouched
<1> QED BY <1>1 DEF IInv

\* A step that leaves the log, the objects and the history alone.
LEMMA QuietStep ==
    ASSUME IInv, TypeOK', NEW c \in Caller, UNCHANGED <<log, objects, calls, acked>>,
           OthersUntouched(c), CallerInv(c)'
    PROVE  IInv'
<1>1. IsPrefix(log, log')
  BY PrefixReflexive DEF IInv, TypeOK
<1>2. Verifies' /\ AckedInLog' /\ CallsInLog'
  BY <1>1, HistoryKept DEF IInv, Verifies
<1> QED BY <1>1, <1>2, StepByOne

\* A call that has returned knows nothing and needs to know nothing.
LEMMA Forgetting ==
    ASSUME TypeOK, NEW c \in Caller, NEW outcome \in Outcomes, Return(c, outcome)
    PROVE  /\ CallerInv(c)'
           /\ \A d \in Caller \ {c} : pc'[d] = pc[d] /\ adm'[d] = adm[d]
<1>1. pc'[c] = outcome /\ \A d \in Caller \ {c} : pc'[d] = pc[d] /\ adm'[d] = adm[d]
  BY DEF TypeOK, Return
<1> QED BY <1>1 DEF CallerInv, Outcomes, Steps

\* While c has the mutex nobody else runs an action, and while nobody has it nobody does.
LEMMA OneHolder ==
    ASSUME IInv, NEW d \in Caller, pc[d] = "act"
    PROVE  admission = d /\ admission # NoCaller
BY NoCallerIsNone DEF IInv, CallerInv

-------------------------------------------------------------------------------
\* One lemma per action

LEMMA AcquireLeaseStep ==
    ASSUME IInv, TypeOK', NEW c \in Caller, AcquireLease(c)
    PROVE  IInv'
<1>1. OthersUntouched(c)
  BY OneHolder DEF AcquireLease, IInv, TypeOK, OthersUntouched
<1>2. CallerInv(c)'
  BY DEF AcquireLease, Ready, CallerInv, Outcomes, Steps
<1> QED BY <1>1, <1>2, QuietStep DEF AcquireLease

LEMMA ShareLeaseStep ==
    ASSUME IInv, TypeOK', NEW c \in Caller, NEW d \in Caller, ShareLease(c, d)
    PROVE  IInv'
<1>1. OthersUntouched(d)
  BY DEF ShareLease, IInv, TypeOK, OthersUntouched
<1>2. CallerInv(d)'
  BY DEF ShareLease, Ready, CallerInv, Outcomes, Steps
<1> QED BY <1>1, <1>2, QuietStep DEF ShareLease

LEMMA PublishStep ==
    ASSUME IInv, TypeOK', NEW c \in Caller, Publish(c)
    PROVE  IInv'
<1>1. PICK expected \in Expected, batch \in Batches, acts \in Acts :
            \E objs \in SUBSET Range(batch) : StartPublish(c, expected, batch, objs, acts)
  BY DEF Publish
<1>2. PICK objs \in SUBSET Range(batch) : StartPublish(c, expected, batch, objs, acts)
  BY <1>1
<1>3. CASE Return(c, "idle")
  <2>1. OthersUntouched(c) /\ CallerInv(c)'
    BY <1>2, <1>3, Forgetting DEF StartPublish, IInv, OthersUntouched, Outcomes
  <2> QED BY <1>2, <2>1, QuietStep DEF StartPublish
<1>4. CASE ~Return(c, "idle")
  <2>1. /\ BatchVerifies(expected, batch, objs) /\ lease[c] # 0
        /\ pc' = [pc EXCEPT ![c] = "admit"]
        /\ adm' = [adm EXCEPT ![c] = [fence |-> lease[c], expected |-> expected,
                                      batch |-> batch, objs |-> objs, acts |-> acts]]
        /\ UNCHANGED <<log, objects, fence, admission, poisoned, lease, calls, acked>>
    BY <1>2, <1>4 DEF StartPublish, Goto
  <2>2. OthersUntouched(c)
    BY <2>1 DEF IInv, TypeOK, OthersUntouched
  <2>3. /\ pc'[c] = "admit" /\ adm'[c].batch = batch /\ adm'[c].objs = objs
        /\ adm'[c].fence = lease'[c] /\ lease'[c] # 0
    BY <2>1 DEF IInv, TypeOK
  <2>4. batch # <<>> /\ Range(batch) \subseteq objs \union objects'
    BY <2>1 DEF BatchVerifies
  <2>5. CallerInv(c)'
    BY <2>3, <2>4 DEF CallerInv
  <2> QED BY <2>1, <2>2, <2>5, QuietStep
<1> QED BY <1>3, <1>4

LEMMA RefuseStep ==
    ASSUME IInv, TypeOK', NEW c \in Caller, Refuse(c)
    PROVE  IInv'
<1>1. \E outcome \in Outcomes : Return(c, outcome)
  BY DEF Refuse, Outcomes
<1>2. OthersUntouched(c) /\ CallerInv(c)'
  BY <1>1, Forgetting DEF Refuse, IInv, OthersUntouched
<1> QED BY <1>2, QuietStep DEF Refuse

\* Answering Ok for a chain of the log.
LEMMA AnswerStep ==
    ASSUME IInv, TypeOK', NEW c \in Caller, Return(c, "idle"),
           IsPrefix(Target(c), log), acked' = acked \union {Target(c)},
           UNCHANGED <<log, objects, fence, admission, poisoned, lease, calls>>
    PROVE  IInv'
<1>1. OthersUntouched(c) /\ CallerInv(c)'
  BY Forgetting DEF IInv, OthersUntouched, Outcomes
<1>2. IsPrefix(log, log')
  BY PrefixReflexive DEF IInv, TypeOK
<1>3. Verifies' /\ AckedInLog' /\ CallsInLog'
  BY DEF IInv, Verifies, AckedInLog, CallsInLog
<1> QED BY <1>1, <1>2, <1>3, StepByOne

\* The payloads were looked for in a snapshot taken before this step; what was found
\* then is there now, and what was not the batch brings.
LEMMA CommitStep ==
    ASSUME IInv, TypeOK', NEW c \in Caller, Commit(c)
    PROVE  IInv'
<1>1. /\ adm[c].expected = log /\ adm[c].batch # <<>> /\ log' = Target(c)
      /\ Range(adm[c].batch) \subseteq adm[c].objs \union objects
      /\ objects' = objects \union adm[c].objs
      /\ lease[c] # 0 /\ adm[c].fence = lease[c] /\ fence = lease[c]
      /\ UNCHANGED <<fence, lease, adm, calls, acked>>
  BY DEF Commit, Entered, Live, IInv, CallerInv, Steps
<1>2. /\ log \in Seq(Item) /\ adm[c].batch \in Seq(Item) /\ Target(c) = log \o adm[c].batch
  BY <1>1, TargetTyped DEF IInv, TypeOK, Target
<1>3. IsPrefix(log, log') /\ IsStrictPrefix(log, log') /\ log' \in Seq(Item)
  BY <1>1, <1>2, BatchExtends
<1>4. Verifies'
  <2>1. Range(log') = Range(log) \union Range(adm[c].batch)
    BY <1>1, <1>2, RangeConcatenation
  <2> QED BY <1>1, <2>1 DEF IInv, Verifies
<1>5. AckedInLog' /\ CallsInLog'
  BY <1>1, <1>3, HistoryKept
<1>6. OthersUntouched(c)
  <2>1. \A d \in Caller \ {c} : pc'[d] = pc[d] /\ adm'[d] = adm[d] /\ pc[d] # "act"
    BY OneHolder DEF Commit, Entered, Goto, IInv, TypeOK
  <2> QED BY <1>1, <2>1 DEF OthersUntouched
<1>7. CallerInv(c)'
  <2>1. \A i \in 1..Len(calls) : IsStrictPrefix(calls[i], log')
    <3>1. ASSUME NEW i \in 1..Len(calls) PROVE IsStrictPrefix(calls[i], log')
      <4>1. calls[i] \in Seq(Item) /\ IsPrefix(calls[i], log)
        BY Chains DEF IInv, CallsInLog
      <4> QED BY <1>2, <1>3, <4>1, PrefixThenStrict
    <3> QED BY <3>1
  <2>2. /\ pc'[c] = IF adm[c].acts THEN "act" ELSE "reply"
        /\ admission' = IF adm[c].acts THEN c ELSE NoCaller
    BY DEF Commit, Goto, Holder, IInv, TypeOK
  <2>3. Target(c)' = log' /\ IsPrefix(Target(c)', log')
    BY <1>1, <1>3, PrefixReflexive DEF Target
  <2>4. CASE adm[c].acts
    BY <1>1, <2>1, <2>2, <2>3, <2>4 DEF CallerInv
  <2>5. CASE ~adm[c].acts
    BY <1>1, <2>2, <2>3, <2>5 DEF CallerInv
  <2> QED BY <2>4, <2>5
<1> QED BY <1>1, <1>3, <1>4, <1>5, <1>6, <1>7, StepByOne

\* The action saw the log of its own commit, and is the newest call.
LEMMA AfterCommitStep ==
    ASSUME IInv, TypeOK', NEW c \in Caller, AfterCommit(c)
    PROVE  IInv'
<1>1. /\ admission = c /\ log = Target(c) /\ log \in Seq(Item)
      /\ calls' = Append(calls, log)
      /\ UNCHANGED <<log, objects, fence, poisoned, lease, adm, acked>>
      /\ pc' = [pc EXCEPT ![c] = "reply"]
  BY DEF AfterCommit, Goto, IInv, CallerInv, TypeOK
<1>2. OthersUntouched(c)
  BY <1>1, OneHolder DEF IInv, TypeOK, OthersUntouched
<1>3. IsPrefix(log, log')
  BY <1>1, PrefixReflexive
<1>4. CallsInLog'
  <2>1. /\ Len(calls') = Len(calls) + 1 /\ Len(calls) \in Nat
        /\ \A i \in 1..Len(calls) : calls'[i] = calls[i]
        /\ calls'[Len(calls) + 1] = log
    BY <1>1, AppendProperties, LenProperties DEF IInv, TypeOK
  <2> QED BY <1>1, <1>3, <2>1 DEF IInv, CallsInLog
<1>5. CallerInv(c)'
  <2>1. pc'[c] = "reply" /\ pc[c] = "act" /\ Target(c)' = Target(c)
    BY <1>1 DEF AfterCommit, IInv, TypeOK, Target
  <2> QED BY <1>1, <1>3, <2>1 DEF IInv, CallerInv, Steps
<1> QED BY <1>1, <1>2, <1>3, <1>4, <1>5, StepByOne DEF IInv, Verifies, AckedInLog

LEMMA PanicStep ==
    ASSUME IInv, TypeOK', NEW c \in Caller, Panic(c)
    PROVE  IInv'
<1>1. admission = c
  BY DEF Panic, IInv, CallerInv
<1>2. OthersUntouched(c) /\ CallerInv(c)'
  BY <1>1, OneHolder, Forgetting DEF Panic, IInv, OthersUntouched, Outcomes
<1> QED BY <1>2, QuietStep DEF Panic

LEMMA PutDatumStep ==
    ASSUME IInv, TypeOK', NEW item \in Datums, PutDatum(item)
    PROVE  IInv'
<1>1. IsPrefix(log, log')
  BY PrefixReflexive DEF PutDatum, IInv, TypeOK
<1>2. \A d \in Caller : CallerInv(d)'
  BY <1>1, OthersKeep DEF PutDatum, IInv
<1> QED BY <1>1, <1>2, HistoryKept DEF PutDatum, IInv, Verifies

LEMMA InvInit == Init => IInv
<1> SUFFICES ASSUME Init PROVE IInv
  OBVIOUS
<1>1. Range(log) = {} /\ Len(calls) = 0
  BY EmptySeq DEF Init, Range
<1>2. \A c \in Caller : pc[c] = "idle"
  BY DEF Init
<1> QED BY TypeInit, <1>1, <1>2 DEF Init, IInv, Verifies, AckedInLog, CallsInLog, CallerInv, Steps

LEMMA InvStep == IInv /\ [Next]_vars => IInv'
<1> SUFFICES ASSUME IInv, [Next]_vars PROVE IInv'
  OBVIOUS
<1>0. TypeOK'
  BY TypeStep DEF IInv
<1>1. ASSUME NEW c \in Caller, Redeliver(c) PROVE IInv'
  BY <1>0, <1>1, AnswerStep DEF Redeliver, Redelivers
<1>2. ASSUME NEW c \in Caller, Reply(c) PROVE IInv'
  <2>1. IsPrefix(Target(c), log)
    BY <1>2 DEF Reply, IInv, CallerInv
  <2> QED BY <1>0, <1>2, <2>1, AnswerStep DEF Reply
<1>3. CASE UNCHANGED vars
  <2>1. \A c \in Caller : CallerInv(c)'
    BY <1>3 DEF vars, IInv, CallerInv, Target
  <2> QED BY <1>0, <1>3, <2>1 DEF vars, IInv, Verifies, AckedInLog, CallsInLog
<1> QED BY <1>0, <1>1, <1>2, <1>3, AcquireLeaseStep, ShareLeaseStep, PublishStep, RefuseStep,
           CommitStep, AfterCommitStep, PanicStep, PutDatumStep DEF Next, Continue

THEOREM Invariance == Spec => []IInv
BY InvInit, InvStep, PTL DEF Spec

\* Every payload the log names is stored, though it was checked on an older snapshot.
THEOREM StateAlwaysVerifies == Spec => []StateVerifies
<1>1. IInv => StateVerifies
  BY DEF IInv, StateVerifies
<1> QED BY <1>1, Invariance, PTL

\* While an action runs, the head and the fence are those of its commit, also when
\* other threads lease, publish, redeliver and panic.
THEOREM ActionExcludes == Spec => []ActionUnderExclusion
<1>1. IInv => ActionUnderExclusion
  BY DEF IInv, CallerInv, ActionUnderExclusion
<1> QED BY <1>1, Invariance, PTL

-------------------------------------------------------------------------------
\* MemoryJournal implements JournalLog.

\* The abstract module's prefixes are these.
LEMMA SamePrefixes ==
    /\ \A s, t : Log!IsStrictPrefix(s, t) <=> IsStrictPrefix(s, t)
    /\ \A t : Log!Prefixes(t) = Prefixes(t)
BY DEF Log!IsStrictPrefix, Log!IsPrefix, IsStrictPrefix, IsPrefix, Log!Prefixes, Prefixes

LEMMA CommitIsCommit ==
    ASSUME IInv, NEW c \in Caller, Commit(c)
    PROVE  Log!Commit(c)
<1>1. /\ adm[c].expected = log /\ adm[c].batch # <<>> /\ log' = Target(c)
      /\ lease[c] # 0 /\ lease[c] = fence
      /\ UNCHANGED <<fence, lease, calls, acked>>
  BY DEF Commit, Entered, Live, IInv, CallerInv, Steps
<1>2. /\ log \in Seq(Item) /\ adm[c].batch \in Seq(Item) /\ Target(c) = log \o adm[c].batch
  BY <1>1, TargetTyped DEF IInv, TypeOK, Target
<1>3. log' \in Seq(Item) /\ IsStrictPrefix(log, log')
  BY <1>1, <1>2, BatchExtends
<1> QED BY <1>1, <1>3, SamePrefixes DEF Log!Commit, Log!Holds

LEMMA AnswerIsAcknowledge ==
    ASSUME IInv, NEW c \in Caller, Redeliver(c) \/ Reply(c)
    PROVE  \E chain \in Prefixes(log) : Log!Acknowledge(chain)
<1>1. /\ IsPrefix(Target(c), log) /\ adm[c].batch # <<>>
      /\ acked' = acked \union {Target(c)}
      /\ UNCHANGED <<log, fence, lease, calls>>
  BY DEF Redeliver, Redelivers, Entered, Reply, IInv, CallerInv, Steps
<1>2. /\ Target(c) \in Seq(Item) /\ log \in Seq(Item)
      /\ adm[c].expected \in Seq(Item) /\ adm[c].batch \in Seq(Item)
  BY TargetTyped DEF IInv, TypeOK
<1>3. Target(c) # <<>>
  BY <1>1, <1>2, ConcatEqualIffEmpty DEF Target
<1>4. Target(c) \in Prefixes(log)
  BY <1>1, <1>2, PrefixIsMember
<1>5. Log!Acknowledge(Target(c))
  BY <1>1, <1>3 DEF Log!Acknowledge
<1> QED BY <1>4, <1>5

LEMMA AfterCommitIsAct ==
    ASSUME IInv, NEW c \in Caller, AfterCommit(c)
    PROVE  Log!Act(c)
<1>1. /\ log = Target(c) /\ lease[c] # 0 /\ lease[c] = fence
      /\ \A i \in 1..Len(calls) : IsStrictPrefix(calls[i], log)
      /\ calls' = Append(calls, log) /\ UNCHANGED <<log, fence, lease, acked>>
  BY DEF AfterCommit, IInv, CallerInv
<1> QED BY <1>1, SamePrefixes DEF Log!Act, Log!Holds

LEMMA LogInit == Init => Log!Init
BY EmptySeq DEF Init, Log!Init

LEMMA LogStep == IInv /\ [Next]_vars => [Log!Next]_Log!vars
<1> SUFFICES ASSUME IInv, [Next]_vars PROVE [Log!Next]_Log!vars
  OBVIOUS
<1>1. ASSUME NEW c \in Caller, AcquireLease(c) PROVE Log!Acquire(c)
  <2>1. fence \in Nat /\ MaxFence \in Nat
    BY BoundsAreNat DEF IInv, TypeOK
  <2> QED BY <1>1, <2>1 DEF AcquireLease, FenceExhausted, Log!Acquire
<1>2. ASSUME NEW c \in Caller, NEW d \in Caller, ShareLease(c, d) PROVE Log!Share(c, d)
  BY <1>2 DEF ShareLease, Log!Share
<1>3. ASSUME NEW c \in Caller, Publish(c) \/ Refuse(c) \/ Panic(c) PROVE UNCHANGED Log!vars
  BY <1>3 DEF Publish, StartPublish, Refuse, Panic, Log!vars
<1>4. ASSUME NEW item \in Datums, PutDatum(item) PROVE UNCHANGED Log!vars
  BY <1>4 DEF PutDatum, Log!vars
<1>5. ASSUME NEW c \in Caller, Redeliver(c) \/ Reply(c) PROVE Log!Next
  BY <1>5, AnswerIsAcknowledge, SamePrefixes DEF Log!Next
<1>6. CASE UNCHANGED vars
  BY <1>6 DEF vars, Log!vars
<1> QED BY <1>1, <1>2, <1>3, <1>4, <1>5, <1>6, CommitIsCommit, AfterCommitIsAct
        DEF Next, Continue, Log!Next

\* The in-memory backend is a journal: every behaviour of it is one of JournalLog's.
THEOREM MemoryImplementsLog == Spec => ImplementsLog
BY LogInit, LogStep, Invariance, PTL DEF Spec, ImplementsLog, Log!Spec
================================================================================
