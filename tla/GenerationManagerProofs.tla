------------------------ MODULE GenerationManagerProofs ------------------------
(***************************************************************************)
(* What GenerationManager guarantees for every number of callers and       *)
(* generations, whatever is refused, panics or dies: evidence of           *)
(* destruction is never false, and the head and the reports are right as   *)
(* long as callers keep recovery, and the destruction of the very          *)
(* generation, apart from rotation.                                        *)
(***************************************************************************)
EXTENDS GenerationManager, TLAPS

-------------------------------------------------------------------------------
\* The inductive invariant

\* What a caller that rotates or destroys was given is a generation, and a recovery has
\* picked none before its second pass.
Keyed == \A c \in Caller : /\ pc[c] \in RotateSteps \union DestroySteps => arg[c] \in Id
                           /\ pc[c] = "ignore" => arg[c] = None

\* What overlap records, while it does not record it: nobody recovers, and nobody
\* destroys the generation that is rotated to, beside a rotation.
RecoveryApart == "recover" \notin overlap =>
    \A c, d \in Caller : pc[c] \in RotateSteps => pc[d] \notin RecoverSteps

DestructionApart == "destroy" \notin overlap =>
    \A c, d \in Caller : pc[c] \in RotateSteps /\ pc[d] \in DestroySteps => arg[c] # arg[d]

\* A manifest has its records, and so has the head.
StoreWhole == "destroy" \notin overlap =>
    /\ complete \subseteq staged
    /\ selected # None => selected \in complete
    /\ \A c \in Caller : pc[c] = "complete" => arg[c] \in staged

\* A rotation is to a generation newer than the head.
Newer == "recover" \notin overlap =>
    \A c \in Caller : pc[c] \in RotateSteps => selected = None \/ selected < arg[c]

\* A generation that a recovery has found incomplete stays so.
StaysIncomplete == "recover" \notin overlap =>
    \A c \in Caller : pc[c] \in RecoverSteps \union {"recovered"} =>
        /\ arg[c] \notin ignored[c]
        /\ pc[c] \in RecoverSteps => ignored[c] \intersect complete = {}

\* What a recovery keeps is the largest complete generation it has looked at.
Largest == overlap = {} =>
    \A c \in Caller :
        /\ pc[c] \in {"ignore", "pick"} => complete \subseteq list[c]
        /\ pc[c] = "pick" => \A id \in complete \ todo[c] : id <= arg[c]
        /\ pc[c] \in {"compare", "head"} => \A id \in complete : id <= arg[c]

Facts == /\ Keyed /\ RecoveryApart /\ DestructionApart
         /\ StoreWhole /\ Newer /\ StaysIncomplete /\ Largest /\ EvidenceHolds

IInv == TypeOK /\ Facts

-------------------------------------------------------------------------------
\* Types

AllSteps == Outcomes \union RotateSteps \union RecoverSteps \union DestroySteps

\* No step is one of two methods, and no call that ended is inside one.
LEMMA StepNames ==
    /\ RotateSteps \intersect RecoverSteps = {}
    /\ RotateSteps \intersect DestroySteps = {}
    /\ RecoverSteps \intersect DestroySteps = {}
    /\ Outcomes \intersect (RotateSteps \union RecoverSteps \union DestroySteps) = {}
BY DEF Outcomes, RotateSteps, RecoverSteps, DestroySteps

\* A call that returns leaves typed locals behind, and the guard if it had it.
LEMMA ReturnTyped ==
    ASSUME TypeOK, NEW c \in Caller, NEW outcome \in Outcomes, Return(c, outcome)
    PROVE  /\ pc' \in [Caller -> AllSteps]
           /\ arg' \in [Caller -> Id \union {None}]
           /\ list' \in [Caller -> SUBSET Id]
           /\ todo' \in [Caller -> SUBSET Id]
           /\ ignored' \in [Caller -> SUBSET Id]
           /\ rotating' \in Caller \union {NoCaller}
           /\ \A d \in Caller : pc'[d] \in RotateSteps => rotating' = d
BY StepNames DEF Return, Goto, TypeOK, AllSteps

LEMMA RotateTyped ==
    ASSUME TypeOK, Keyed, NEW c \in Caller,
           \/ \E id \in Id : StartRotate(c, id)
           \/ CreateKey(c) \/ Build(c) \/ BuildPanics(c)
           \/ StageRecords(c) \/ CompleteManifest(c) \/ SelectHead(c)
    PROVE  TypeOK'
<1>1. ASSUME NEW id \in Id, StartRotate(c, id) PROVE TypeOK'
  <2>1. CASE ~GuardIsFree(c) \/ Rollback(id)
    <3>1. Return(c, "failed") /\ UNCHANGED <<store, live, poisoned, sealed, overlap>>
      BY <1>1, <2>1 DEF StartRotate
    <3>2. "failed" \in Outcomes
      BY DEF Outcomes
    <3> QED BY <3>1, <3>2, ReturnTyped DEF TypeOK, AllSteps, store
  <2>2. CASE GuardIsFree(c) /\ ~Rollback(id)
    <3>1. /\ rotating = NoCaller /\ rotating' = c
          /\ overlap' = overlap \union Met(id)
          /\ pc' = [pc EXCEPT ![c] = "create"]
          /\ arg' = [arg EXCEPT ![c] = id]
          /\ ignored' = [ignored EXCEPT ![c] = {}]
          /\ UNCHANGED <<list, todo, store, live, poisoned, sealed>>
      BY <1>1, <2>2 DEF StartRotate, GuardIsFree, Goto
    <3>2. overlap' \subseteq {"recover", "destroy"}
      BY <3>1 DEF Met, TypeOK
    <3>3. pc' \in [Caller -> AllSteps]
      BY <3>1 DEF TypeOK, AllSteps, RotateSteps
    <3>4. \A d \in Caller : pc'[d] \in RotateSteps => rotating' = d
      BY <3>1, NoCallerIsNone DEF TypeOK
    <3> QED BY <3>1, <3>2, <3>3, <3>4 DEF TypeOK, AllSteps, store
  <2> QED BY <2>1, <2>2
<1>2. CASE CreateKey(c)
  BY <1>2 DEF CreateKey, Goto, TypeOK, Keyed, RotateSteps, store, local
<1>3. CASE Build(c)
  BY <1>3 DEF Build, Goto, TypeOK, RotateSteps, store, local, history
<1>4. CASE BuildPanics(c)
  BY <1>4, ReturnTyped DEF BuildPanics, TypeOK, AllSteps, Outcomes, store, history
<1>5. CASE StageRecords(c)
  BY <1>5 DEF StageRecords, Goto, TypeOK, Keyed, RotateSteps, local, history
<1>6. CASE CompleteManifest(c)
  BY <1>6 DEF CompleteManifest, Goto, TypeOK, Keyed, RotateSteps, local, history
<1>7. CASE SelectHead(c)
  BY <1>7, ReturnTyped DEF SelectHead, TypeOK, AllSteps, Outcomes, history
<1> QED BY <1>1, <1>2, <1>3, <1>4, <1>5, <1>6, <1>7

LEMMA ReportTyped ==
    ASSUME TypeOK, NEW c \in Caller, Report(c)
    PROVE  /\ pc' \in [Caller -> AllSteps]
           /\ list' \in [Caller -> SUBSET Id]
           /\ UNCHANGED <<rotating, arg, todo, ignored>>
           /\ \A d \in Caller : pc'[d] \in RotateSteps => rotating' = d
BY StepNames DEF Report, Goto, TypeOK, AllSteps, Outcomes

LEMMA RecoverTyped ==
    ASSUME TypeOK, NEW c \in Caller,
           StartRecover(c) \/ Ignore(c) \/ Pick(c) \/ Compare(c) \/ RecoverHead(c)
    PROVE  TypeOK'
<1>1. CASE StartRecover(c)
  BY <1>1, StepNames DEF StartRecover, Ready, Goto, TypeOK, RecoverSteps, store
<1>2. CASE Ignore(c)
  BY <1>2, StepNames DEF Ignore, Goto, TypeOK, RecoverSteps, store, history
<1>3. CASE Pick(c)
  <2>1. CASE Report(c)
    BY <1>3, <2>1, ReportTyped DEF Pick, TypeOK, AllSteps, store, history
  <2>2. CASE ~Report(c)
    BY <1>3, <2>2, StepNames DEF Pick, Goto, TypeOK, RecoverSteps, store, history
  <2> QED BY <2>1, <2>2
<1>4. CASE Compare(c)
  <2>1. CASE Report(c)
    BY <1>4, <2>1, ReportTyped DEF Compare, TypeOK, AllSteps, store, history
  <2>2. CASE ~Report(c)
    BY <1>4, <2>2, StepNames DEF Compare, Goto, TypeOK, RecoverSteps, store, local, history
  <2> QED BY <2>1, <2>2
<1>5. CASE RecoverHead(c)
  BY <1>5, ReportTyped DEF RecoverHead, TypeOK, AllSteps, history
<1> QED BY <1>1, <1>2, <1>3, <1>4, <1>5

LEMMA DestroyTyped ==
    ASSUME TypeOK, Keyed, NEW c \in Caller,
           \/ \E id \in Id : StartDestroy(c, id)
           \/ Revoke(c) \/ RemoveGeneration(c) \/ DestroyKey(c) \/ Probe(c) \/ Refused(c)
    PROVE  TypeOK'
<1>1. ASSUME NEW id \in Id, StartDestroy(c, id) PROVE TypeOK'
  BY <1>1, StepNames DEF StartDestroy, Ready, Goto, TypeOK, DestroySteps, store
<1>2. CASE Revoke(c) \/ DestroyKey(c)
  BY <1>2, StepNames DEF Revoke, DestroyKey, Goto, TypeOK, DestroySteps, store, local, history
<1>3. CASE RemoveGeneration(c)
  BY <1>3, StepNames DEF RemoveGeneration, Goto, TypeOK, DestroySteps, local, history
<1>4. ASSUME NEW outcome \in Outcomes, Return(c, outcome), UNCHANGED <<store, live, poisoned, overlap>>,
             sealed' \in {sealed, sealed \union {arg[c]}}, arg[c] \in Id \/ sealed' = sealed
      PROVE  TypeOK'
  BY <1>4, ReturnTyped DEF TypeOK, AllSteps, store
<1>5. CASE Probe(c)
  BY <1>4, <1>5 DEF Probe, Keyed, DestroySteps, Outcomes
<1>6. CASE Refused(c)
  BY <1>4, <1>6 DEF Refused, Outcomes, history
<1> QED BY <1>1, <1>2, <1>3, <1>5, <1>6

LEMMA TypeStep == TypeOK /\ Keyed /\ [Next]_vars => TypeOK'
<1> SUFFICES ASSUME TypeOK, Keyed, [Next]_vars PROVE TypeOK'
  OBVIOUS
<1>1. CASE Restart
  BY <1>1, StepNames DEF Restart, TypeOK, Outcomes, store, history
<1>2. CASE UNCHANGED vars
  BY <1>2 DEF vars, store, local, history, TypeOK
<1> QED BY <1>1, <1>2, RotateTyped, RecoverTyped, DestroyTyped DEF Next

-------------------------------------------------------------------------------
\* The inductive invariant holds

LEMMA FactsInit == Init => Facts
BY StepNames DEF Init, Facts, Keyed, RecoveryApart, DestructionApart, StoreWhole, Newer,
                 StaysIncomplete, Largest, EvidenceHolds, Outcomes, None, RecoverSteps

\* A call that returns without a report leaves the others with all they know.
LEMMA ReturnKeeps ==
    ASSUME IInv, NEW c \in Caller, NEW outcome \in Outcomes \ {"recovered"},
           Return(c, outcome), UNCHANGED <<store, overlap>>
    PROVE  /\ Keyed' /\ RecoveryApart' /\ DestructionApart'
           /\ StoreWhole' /\ Newer' /\ StaysIncomplete' /\ Largest'
<1>1. \A d \in Caller \ {c} :
         /\ pc'[d] = pc[d] /\ arg'[d] = arg[d] /\ list'[d] = list[d]
         /\ todo'[d] = todo[d] /\ ignored'[d] = ignored[d]
  BY DEF Return, Goto, IInv, TypeOK
<1>2. pc'[c] = outcome
  BY DEF Return, Goto, IInv, TypeOK
<1>3. pc'[c] \notin RotateSteps \union RecoverSteps \union DestroySteps \union {"recovered"}
  BY <1>2, StepNames
<1>4. Keyed' /\ RecoveryApart' /\ DestructionApart'
  BY <1>1, <1>3, StepNames DEF IInv, Facts, Keyed, RecoveryApart, DestructionApart, RecoverSteps
<1>5. StoreWhole' /\ Newer'
  BY <1>1, <1>3 DEF IInv, Facts, StoreWhole, Newer, RotateSteps, store
<1>6. StaysIncomplete' /\ Largest'
  BY <1>1, <1>3 DEF IInv, Facts, StaysIncomplete, Largest, RecoverSteps, store
<1> QED BY <1>4, <1>5, <1>6

\* Only c moves, and nobody's generation, listing or findings but c's change.
OthersSame(c) == \A d \in Caller \ {c} :
    /\ pc'[d] = pc[d] /\ arg'[d] = arg[d] /\ list'[d] = list[d]
    /\ todo'[d] = todo[d] /\ ignored'[d] = ignored[d]

\* While c rotates nobody else does.
LEMMA OneRotates ==
    ASSUME TypeOK, NEW c \in Caller, pc[c] \in RotateSteps
    PROVE  \A d \in Caller \ {c} : pc[d] \notin RotateSteps
BY DEF TypeOK

\* The guard is taken: what a rotation meets is recorded, and it is to a newer generation.
LEMMA StartRotateStep ==
    ASSUME IInv, NEW c \in Caller, NEW id \in Id, StartRotate(c, id)
    PROVE  Facts'
<1>1. CASE ~GuardIsFree(c) \/ Rollback(id)
  <2>1. Return(c, "failed") /\ UNCHANGED <<store, live, sealed, overlap>>
    BY <1>1 DEF StartRotate
  <2>2. "failed" \in Outcomes \ {"recovered"}
    BY DEF Outcomes
  <2>3. EvidenceHolds'
    BY <2>1 DEF IInv, Facts, EvidenceHolds
  <2> QED BY <2>1, <2>2, <2>3, ReturnKeeps DEF Facts
<1>2. CASE GuardIsFree(c) /\ ~Rollback(id)
  <2>1. /\ rotating = NoCaller /\ overlap' = overlap \union Met(id)
        /\ pc'[c] = "create" /\ arg'[c] = id
        /\ selected = None \/ selected < id
        /\ OthersSame(c) /\ UNCHANGED <<store, live, sealed>>
    BY <1>2 DEF StartRotate, GuardIsFree, Rollback, Goto, IInv, TypeOK, OthersSame, Id, None
  <2>2. \A d \in Caller : pc[d] \notin RotateSteps
    BY <2>1, NoCallerIsNone DEF IInv, TypeOK
  <2>3. pc[c] \notin RecoverSteps \union DestroySteps /\ "create" \in RotateSteps
    BY <1>2, StepNames DEF StartRotate, Ready, RotateSteps
  <2>4. Keyed'
    BY <2>1, StepNames DEF OthersSame, IInv, Facts, Keyed, RotateSteps
  <2>5. RecoveryApart'
    <3>1. "recover" \notin overlap' => \A d \in Caller : pc[d] \notin RecoverSteps
      BY <2>1 DEF Met, Inside, IInv, TypeOK
    <3> QED BY <2>1, <2>2, <2>3, <3>1, StepNames DEF OthersSame, RecoveryApart
  <2>6. DestructionApart'
    <3>1. "destroy" \notin overlap' =>
             \A d \in Caller : pc[d] \in DestroySteps => arg[d] # id
      BY <2>1 DEF Met, Inside
    <3> QED BY <2>1, <2>2, <2>3, <3>1, StepNames DEF OthersSame, DestructionApart
  <2>7. StoreWhole' /\ Newer'
    BY <2>1, <2>2 DEF OthersSame, IInv, Facts, StoreWhole, Newer, store
  <2>8. StaysIncomplete' /\ Largest' /\ EvidenceHolds'
    BY <2>1, <2>3, StepNames
    DEF OthersSame, IInv, Facts, StaysIncomplete, Largest, EvidenceHolds, RecoverSteps, store
  <2> QED BY <2>4, <2>5, <2>6, <2>7, <2>8 DEF Facts
<1> QED BY <1>1, <1>2

\* The rotation's own steps: the store grows by its generation and by no other, which
\* nobody recovers beside, and the head becomes the generation it was compared with.
LEMMA RotateStep ==
    ASSUME IInv, NEW c \in Caller,
           \/ CreateKey(c) \/ Build(c) \/ BuildPanics(c)
           \/ StageRecords(c) \/ CompleteManifest(c) \/ SelectHead(c)
    PROVE  Facts'
<1>1. pc[c] \in RotateSteps /\ arg[c] \in Id
  BY DEF CreateKey, Build, BuildPanics, StageRecords, CompleteManifest, SelectHead,
         RotateSteps, IInv, Facts, Keyed
<1>2. \A d \in Caller \ {c} : pc[d] \notin RotateSteps
  BY <1>1, OneRotates DEF IInv
<1>3. "recover" \notin overlap => \A d \in Caller : pc[d] \notin RecoverSteps
  BY <1>1 DEF IInv, Facts, RecoveryApart
<1>4. CASE CreateKey(c) \/ Build(c) \/ StageRecords(c) \/ CompleteManifest(c)
  <2>1. /\ pc'[c] \in RotateSteps /\ arg' = arg /\ list' = list /\ todo' = todo
        /\ ignored' = ignored /\ overlap' = overlap /\ selected' = selected
        /\ OthersSame(c)
    BY <1>4 DEF CreateKey, Build, StageRecords, CompleteManifest, Goto, IInv, TypeOK,
                RotateSteps, OthersSame, store, local, history
  <2>2. Keyed' /\ RecoveryApart' /\ DestructionApart'
    BY <1>1, <1>2, <2>1, StepNames
    DEF OthersSame, IInv, Facts, Keyed, RecoveryApart, DestructionApart, RecoverSteps
  <2>3. StoreWhole'
    BY <1>1, <1>2, <1>4, <2>1
    DEF CreateKey, Build, StageRecords, CompleteManifest, Goto, OthersSame, RotateSteps,
        IInv, TypeOK, Facts, StoreWhole, store
  <2>4. Newer'
    BY <1>1, <1>2, <2>1 DEF OthersSame, IInv, Facts, Newer
  <2>5. StaysIncomplete' /\ Largest'
    BY <1>1, <1>3, <2>1, StepNames
    DEF OthersSame, IInv, Facts, StaysIncomplete, Largest, RecoverSteps, RotateSteps
  <2>6. EvidenceHolds'
    BY <1>4 DEF CreateKey, Build, StageRecords, CompleteManifest, IInv, Facts, EvidenceHolds,
                store, history
  <2> QED BY <2>2, <2>3, <2>4, <2>5, <2>6 DEF Facts
<1>5. CASE BuildPanics(c)
  <2>1. EvidenceHolds'
    BY <1>5 DEF BuildPanics, IInv, Facts, EvidenceHolds, history
  <2> QED BY <1>5, <2>1, ReturnKeeps DEF BuildPanics, Facts, Outcomes, history
<1>6. CASE SelectHead(c)
  <2>1. /\ arg[c] \in complete /\ selected' = arg[c] /\ Return(c, "rotated")
        /\ UNCHANGED <<staged, complete, live, sealed, overlap>>
    BY <1>6 DEF SelectHead, history
  <2>2. OthersSame(c) /\ pc'[c] = "rotated"
    BY <2>1 DEF Return, Goto, IInv, TypeOK, OthersSame
  <2>3. pc'[c] \notin RotateSteps \union RecoverSteps \union DestroySteps \union {"recovered"}
    BY <2>2 DEF RotateSteps, RecoverSteps, DestroySteps
  <2>4. Keyed' /\ RecoveryApart' /\ DestructionApart'
    BY <2>1, <2>2, <2>3, StepNames
    DEF OthersSame, IInv, Facts, Keyed, RecoveryApart, DestructionApart, RecoverSteps
  <2>5. StoreWhole' /\ Newer'
    BY <1>2, <2>1, <2>2, <2>3 DEF OthersSame, IInv, Facts, StoreWhole, Newer, RotateSteps
  <2>6. StaysIncomplete' /\ Largest' /\ EvidenceHolds'
    BY <2>1, <2>2, <2>3
    DEF OthersSame, IInv, Facts, StaysIncomplete, Largest, EvidenceHolds, RecoverSteps
  <2> QED BY <2>4, <2>5, <2>6 DEF Facts
<1> QED BY <1>4, <1>5, <1>6

\* A recovery's steps: what it knows of the store stays true, because nobody rotates.
LEMMA StartRecoverStep ==
    ASSUME IInv, NEW c \in Caller, StartRecover(c)
    PROVE  Facts'
<1>1. /\ pc'[c] = "ignore" /\ arg'[c] = None /\ list'[c] = staged /\ ignored'[c] = {}
      /\ pc[c] \in Outcomes /\ OthersSame(c) /\ UNCHANGED <<store, live, sealed>>
  BY DEF StartRecover, Ready, Goto, IInv, TypeOK, OthersSame
<1>2. overlap \subseteq overlap' /\ overlap' \subseteq overlap \union {"recover"}
  BY DEF StartRecover
<1>3. "recover" \notin overlap' => \A d \in Caller : pc[d] \notin RotateSteps
  BY DEF StartRecover, Inside, IInv, Facts, Keyed
<1>4. "ignore" \in RecoverSteps /\ (overlap' = {} => overlap = {})
  BY <1>2 DEF RecoverSteps
<1>5. Keyed' /\ RecoveryApart' /\ DestructionApart'
  BY <1>1, <1>2, <1>3, <1>4, StepNames
  DEF OthersSame, IInv, Facts, Keyed, RecoveryApart, DestructionApart
<1>6. StoreWhole' /\ Newer'
  BY <1>1, <1>2, <1>4, StepNames
  DEF OthersSame, IInv, Facts, StoreWhole, Newer, RotateSteps, store
<1>7. StaysIncomplete' /\ Largest' /\ EvidenceHolds'
  BY <1>1, <1>2, <1>4
  DEF OthersSame, IInv, Facts, StaysIncomplete, StoreWhole, Largest, EvidenceHolds, store
<1> QED BY <1>5, <1>6, <1>7 DEF Facts

LEMMA RecoverStep ==
    ASSUME IInv, NEW c \in Caller, Ignore(c) \/ Pick(c) \/ Compare(c) \/ RecoverHead(c)
    PROVE  Facts'
<1>1. pc[c] \in RecoverSteps
  BY DEF Ignore, Pick, Compare, RecoverHead, RecoverSteps
<1>2. /\ OthersSame(c) /\ pc'[c] \in RecoverSteps \union {"recovered"}
      /\ UNCHANGED <<staged, complete, live, sealed, overlap>>
  BY DEF Ignore, Pick, Compare, RecoverHead, Report, Goto, IInv, TypeOK, OthersSame,
         RecoverSteps, store, local, history
<1>3. "recover" \notin overlap => \A d \in Caller : pc[d] \notin RotateSteps
  BY <1>1 DEF IInv, Facts, RecoveryApart
<1>4. Keyed'
  BY <1>2, StepNames DEF Ignore, Pick, Compare, RecoverHead, Report, Goto, OthersSame, IInv,
                         TypeOK, Facts, Keyed, Outcomes
<1>5. RecoveryApart' /\ DestructionApart'
  BY <1>1, <1>2, <1>3, StepNames
  DEF OthersSame, IInv, Facts, RecoveryApart, DestructionApart, Outcomes
<1>6. StoreWhole' /\ Newer' /\ EvidenceHolds'
  <2>1. selected' = selected \/ selected' \in complete
    BY DEF Ignore, Pick, Compare, RecoverHead, store
  <2>2. pc'[c] \notin RotateSteps
    BY <1>2, StepNames DEF Outcomes
  <2> QED BY <1>2, <1>3, <2>1, <2>2
          DEF OthersSame, IInv, Facts, StoreWhole, Newer, EvidenceHolds, RotateSteps
<1>7. StaysIncomplete'
  <2>1. \/ arg'[c] = arg[c] /\ ignored'[c] \subseteq ignored[c] \union (Id \ complete)
           /\ (pc[c] = "ignore" \/ ignored'[c] = ignored[c])
        \/ arg'[c] \in complete /\ ignored'[c] = ignored[c]
    BY DEF Ignore, Ignores, Pick, Compare, RecoverHead, Report, Goto, IInv, TypeOK, local
  <2>2. pc[c] = "ignore" => arg[c] = None /\ None \notin Id
    BY MaxIdIsNat DEF IInv, Facts, Keyed, Id, None
  <2> QED BY <1>1, <1>2, <2>1, <2>2 DEF OthersSame, IInv, Facts, StaysIncomplete
<1>8. Largest'
  <2>1. arg[c] \in Int /\ todo[c] \subseteq Int
    BY DEF IInv, TypeOK, Id, None
  <2> QED BY <1>2, <2>1 DEF Ignore, Pick, Compare, RecoverHead, Report, Goto, OthersSame, IInv,
                            TypeOK, Facts, Largest, Keyed, Id, None, store, local
<1> QED BY <1>4, <1>5, <1>6, <1>7, <1>8 DEF Facts

LEMMA StartDestroyStep ==
    ASSUME IInv, NEW c \in Caller, NEW id \in Id, StartDestroy(c, id)
    PROVE  Facts'
<1>1. /\ pc'[c] = "revoke" /\ arg'[c] = id /\ pc[c] \in Outcomes
      /\ OthersSame(c) /\ UNCHANGED <<store, live, sealed>>
  BY DEF StartDestroy, Ready, Goto, IInv, TypeOK, OthersSame
<1>2. overlap \subseteq overlap' /\ overlap' \subseteq overlap \union {"destroy"}
  BY DEF StartDestroy
<1>3. "destroy" \notin overlap' =>
         \A d \in Caller : pc[d] \in RotateSteps => arg[d] # id
  BY DEF StartDestroy, Inside
<1>4. "revoke" \in DestroySteps /\ (overlap' = {} => overlap = {})
  BY <1>2 DEF DestroySteps
<1>5. "revoke" \notin RotateSteps \union RecoverSteps \union {"recovered"}
  BY DEF RotateSteps, RecoverSteps
<1>6. Keyed' /\ RecoveryApart' /\ DestructionApart'
  BY <1>1, <1>2, <1>3, <1>5, StepNames
  DEF OthersSame, IInv, Facts, Keyed, RecoveryApart, DestructionApart
<1>7. StoreWhole' /\ Newer' /\ EvidenceHolds'
  BY <1>1, <1>2, <1>5 DEF OthersSame, IInv, Facts, StoreWhole, Newer, EvidenceHolds, store
<1>8. StaysIncomplete' /\ Largest'
  BY <1>1, <1>2, <1>4, <1>5
  DEF OthersSame, IInv, Facts, StaysIncomplete, Largest, RecoverSteps, store
<1> QED BY <1>6, <1>7, <1>8 DEF Facts

\* A destruction's own steps: the store loses a generation nobody rotates to, and
\* evidence is given for a key that is gone.
LEMMA DestroyStep ==
    ASSUME IInv, NEW c \in Caller,
           Revoke(c) \/ RemoveGeneration(c) \/ DestroyKey(c) \/ Probe(c)
    PROVE  Facts'
<1>1. pc[c] \in DestroySteps /\ arg[c] \in Id
  BY DEF Revoke, RemoveGeneration, DestroyKey, Probe, DestroySteps, IInv, Facts, Keyed
<1>2. CASE Revoke(c) \/ RemoveGeneration(c) \/ DestroyKey(c)
  <2>1. /\ pc'[c] \in DestroySteps /\ arg' = arg /\ list' = list /\ todo' = todo
        /\ ignored' = ignored /\ overlap' = overlap /\ sealed' = sealed
        /\ live' \subseteq live /\ OthersSame(c)
    BY <1>2 DEF Revoke, RemoveGeneration, DestroyKey, Goto, IInv, TypeOK, DestroySteps,
                OthersSame, local, history
  <2>2. \/ UNCHANGED store
        \/ /\ staged' = staged \ {arg[c]} /\ complete' = complete \ {arg[c]}
           /\ selected' = IF selected = arg[c] THEN None ELSE selected
    BY <1>2 DEF Revoke, RemoveGeneration, DestroyKey
  <2>3. pc'[c] \notin RotateSteps \union RecoverSteps \union {"recovered", "complete"}
    BY <2>1, StepNames DEF RotateSteps, Outcomes
  <2>4. Keyed' /\ RecoveryApart' /\ DestructionApart'
    BY <1>1, <2>1, <2>3, StepNames
    DEF OthersSame, IInv, Facts, Keyed, RecoveryApart, DestructionApart, RecoverSteps
  <2>5. StoreWhole'
    BY <1>1, <2>1, <2>2, <2>3
    DEF OthersSame, IInv, Facts, StoreWhole, DestructionApart, RotateSteps, store
  <2>6. Newer' /\ EvidenceHolds'
    BY <2>1, <2>2, <2>3 DEF OthersSame, IInv, Facts, Newer, EvidenceHolds, store
  <2>7. StaysIncomplete' /\ Largest'
    BY <2>1, <2>2, <2>3 DEF OthersSame, IInv, Facts, StaysIncomplete, Largest, RecoverSteps, store
  <2> QED BY <2>4, <2>5, <2>6, <2>7 DEF Facts
<1>3. CASE Probe(c)
  <2>1. EvidenceHolds'
    BY <1>3 DEF Probe, ProbeRefused, IInv, Facts, EvidenceHolds
  <2> QED BY <1>3, <2>1, ReturnKeeps DEF Probe, Facts, Outcomes
<1> QED BY <1>2, <1>3

LEMMA FactsStep == IInv /\ [Next]_vars => Facts'
<1> SUFFICES ASSUME IInv, [Next]_vars PROVE Facts'
  OBVIOUS
<1>1. ASSUME NEW c \in Caller, Refused(c) PROVE Facts'
  <2>1. EvidenceHolds'
    BY <1>1 DEF Refused, IInv, Facts, EvidenceHolds, history
  <2> QED BY <1>1, <2>1, ReturnKeeps DEF Refused, Facts, Outcomes, history
<1>2. CASE Restart
  <2>1. "failed" \notin RotateSteps \union RecoverSteps \union DestroySteps \union {"recovered"}
    BY DEF RotateSteps, RecoverSteps, DestroySteps
  <2>2. Keyed' /\ RecoveryApart' /\ DestructionApart'
    BY <1>2, <2>1 DEF Restart, Keyed, RecoveryApart, DestructionApart
  <2>3. StoreWhole' /\ Newer' /\ StaysIncomplete' /\ Largest' /\ EvidenceHolds'
    BY <1>2, <2>1 DEF Restart, IInv, Facts, StoreWhole, Newer, StaysIncomplete, Largest,
                      EvidenceHolds, store, history
  <2> QED BY <2>2, <2>3 DEF Facts
<1>3. CASE UNCHANGED vars
  BY <1>3 DEF vars, store, local, history, IInv, Facts, Keyed, RecoveryApart, DestructionApart,
              StoreWhole, Newer, StaysIncomplete, Largest, EvidenceHolds
<1> QED BY <1>1, <1>2, <1>3, StartRotateStep, RotateStep, StartRecoverStep, RecoverStep,
           StartDestroyStep, DestroyStep DEF Next

\* The inductive invariant of rotation, recovery and destruction.
THEOREM Invariance == Spec => []IInv
<1>1. Init => IInv
  <2>1. Init => TypeOK
    BY StepNames DEF Init, TypeOK, Outcomes
  <2> QED BY <2>1, FactsInit DEF IInv
<1>2. IInv /\ [Next]_vars => IInv'
  BY TypeStep, FactsStep DEF IInv, Facts
<1> QED BY <1>1, <1>2, PTL DEF Spec

-------------------------------------------------------------------------------
\* The properties

\* Every variable keeps its type, and every rotation is inside the guard.
THEOREM TypeCorrect == Spec => []TypeOK
BY Invariance, PTL DEF IInv

\* destroy.rs:56-68: evidence of destruction is never false.
THEOREM EvidenceAlwaysHolds == Spec => []EvidenceHolds
<1>1. IInv => EvidenceHolds
  BY DEF IInv, Facts
<1> QED BY <1>1, Invariance, PTL

\* generation.rs:48-57: a recovery never reports its choice as incomplete, as long as
\* no rotation runs beside it.
THEOREM ReportAlwaysConsistent == Spec => []ReportIsConsistent
<1>1. IInv => ReportIsConsistent
  BY DEF IInv, Facts, StaysIncomplete, ReportIsConsistent
<1> QED BY <1>1, Invariance, PTL

\* generation.rs:143-151: the head of a lane only moves to a newer generation, as long as
\* recovery, and the destruction of the very generation, are kept apart from rotation.
THEOREM HeadAlwaysAdvances == Spec => HeadOnlyAdvances
<1>1. ASSUME IInv, [Next]_vars
      PROVE  [selected # None /\ selected' # None /\ overlap = {} => selected' >= selected]_vars
  <2> SUFFICES ASSUME Next, selected # None, selected' # None, overlap = {}
               PROVE  selected' >= selected
    BY <1>1
  <2>1. selected \in Int
    BY <1>1 DEF IInv, TypeOK, Id, None
  <2>2. ASSUME NEW c \in Caller, SelectHead(c) PROVE selected' >= selected
    BY <1>1, <2>1, <2>2 DEF SelectHead, IInv, TypeOK, Facts, Newer, RotateSteps, Id, None
  <2>3. ASSUME NEW c \in Caller, RecoverHead(c) PROVE selected' >= selected
    BY <1>1, <2>1, <2>3 DEF RecoverHead, IInv, TypeOK, Facts, StoreWhole, Largest, Id, None
  <2>4. ASSUME NEW c \in Caller, RemoveGeneration(c) PROVE selected' >= selected
    BY <2>1, <2>4 DEF RemoveGeneration
  <2>5. CASE UNCHANGED selected
    BY <2>1, <2>5
  <2> QED BY <2>2, <2>3, <2>4, <2>5
          DEF Next, StartRotate, CreateKey, Build, BuildPanics, StageRecords, CompleteManifest,
              StartRecover, Ignore, Pick, Compare, StartDestroy, Revoke, DestroyKey, Probe,
              Refused, Restart, store
<1> QED BY <1>1, Invariance, PTL DEF Spec, HeadOnlyAdvances
================================================================================
