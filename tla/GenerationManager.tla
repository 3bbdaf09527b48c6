-------------------------- MODULE GenerationManager --------------------------
(***************************************************************************)
(* GenerationManager: the managed generations of one lane.  Rotation,      *)
(* recovery and destruction are sequences of calls of the durable store    *)
(* and of the key provider; any of those calls may be refused, and the     *)
(* process may die between two of them.  Only rotation takes the lane's    *)
(* mutex.  Lanes share nothing: every store key and every key reference    *)
(* names its lane.                                                         *)
(*                                                                         *)
(* The store and the provider are traits; they behave here as the ones of  *)
(* lifecycle_tests.rs do.  A key reference is the generation's id, which   *)
(* is what a provider is given to bind the key to.  A generation has       *)
(* records: one without any is destroyed without a probe.                  *)
(***************************************************************************)
EXTENDS Integers

CONSTANTS Caller,        \* threads that share the manager
          MaxId,         \* generation ids are 1..MaxId
          NoCaller       \* nobody holds the rotation mutex

ASSUME MaxIdIsNat == MaxId \in Nat
ASSUME NoCallerIsNone == NoCaller \notin Caller

Id == 1..MaxId
None == 0

VARIABLES
    staged, complete, \* the store: generations with records, and with a manifest
    selected,         \* the store: the lane's head
    live,             \* the provider: keys it still opens ciphertext with
    rotating,         \* who holds the lane's rotation guard
    poisoned,         \* a build panicked under it
    pc, arg,          \* a caller's step, or how its call ended, and its generation
    list, todo,       \* recover: what was staged, and what this pass has yet to look at
    ignored,          \* recover: ignored_incomplete
    sealed,           \* history: generations with DestructionEvidence, and no newer key
    overlap           \* history: what callers have let overlap a rotation: "recover" for
                      \* any recovery, "destroy" for a destruction of its own generation

store == <<staged, complete, selected>>
local == <<arg, list, todo, ignored>>
history == <<sealed, overlap>>
vars == <<store, live, rotating, poisoned, pc, local, history>>

\* How a call ended: with Ok, or with an error.
Outcomes == {"rotated", "recovered", "destroyed", "failed"}

RotateSteps == {"create", "build", "stage", "complete", "select"}
RecoverSteps == {"ignore", "pick", "compare", "head"}
DestroySteps == {"revoke", "remove", "destroy", "probe"}

Ready(c) == pc[c] \in Outcomes

Goto(c, step) == pc' = [pc EXCEPT ![c] = step]

\* The call returns: the rotation guard, if the caller holds it, is dropped.
Return(c, outcome) ==
    /\ Goto(c, outcome)
    /\ rotating' = IF rotating = c THEN NoCaller ELSE rotating
    /\ arg' = [arg EXCEPT ![c] = None]
    /\ list' = [list EXCEPT ![c] = {}]
    /\ todo' = [todo EXCEPT ![c] = {}]
    /\ ignored' = [ignored EXCEPT ![c] = {}]

\* recover returns its report: `selected` stays in arg and `ignored_incomplete` in ignored.
Report(c) == /\ Goto(c, "recovered")
             /\ list' = [list EXCEPT ![c] = {}]
             /\ UNCHANGED <<rotating, arg, todo, ignored>>

Inside(steps, ids) == \E c \in Caller : pc[c] \in steps /\ arg[c] \in ids

\* What a rotation to id that begins now runs beside.
Met(id) == {k \in {"recover", "destroy"} :
              IF k = "recover" THEN Inside(RecoverSteps, Id \union {None})
                               ELSE Inside(DestroySteps, {id})}

Init == /\ staged = {} /\ complete = {} /\ selected = None
        /\ live = {} /\ rotating = NoCaller /\ poisoned = FALSE
        /\ pc = [c \in Caller |-> "failed"]
        /\ arg = [c \in Caller |-> None]
        /\ list = [c \in Caller |-> {}]
        /\ todo = [c \in Caller |-> {}]
        /\ ignored = [c \in Caller |-> {}]
        /\ sealed = {} /\ overlap = {}

-------------------------------------------------------------------------------
\* rotate

GuardIsFree(c) == rotating = NoCaller /\ ~poisoned

\* Mutated form: any generation may be rotated to.
RollbackAllowed(id) == FALSE

Rollback(id) == selected # None /\ id <= selected

\* The guard is taken and the head read; a poisoned guard is an error.
StartRotate(c, id) ==
    /\ Ready(c)
    /\ \/ /\ GuardIsFree(c) /\ ~Rollback(id)
          /\ overlap' = overlap \union Met(id)
          /\ rotating' = c
          /\ arg' = [arg EXCEPT ![c] = id]
          /\ ignored' = [ignored EXCEPT ![c] = {}]
          /\ Goto(c, "create")
          /\ UNCHANGED <<list, todo>>
       \/ /\ poisoned \/ (GuardIsFree(c) /\ Rollback(id))
          /\ Return(c, "failed")
          /\ UNCHANGED overlap
    /\ UNCHANGED <<store, live, poisoned, sealed>>

CreateKey(c) ==
    /\ pc[c] = "create"
    /\ live' = live \union {arg[c]}
    /\ sealed' = sealed \ {arg[c]}
    /\ Goto(c, "build")
    /\ UNCHANGED <<store, rotating, poisoned, local, overlap>>

\* The caller's closure returns a generation that matches the key and the id ...
Build(c) ==
    /\ pc[c] = "build"
    /\ Goto(c, "stage")
    /\ UNCHANGED <<store, live, rotating, poisoned, local, history>>

\* ... or panics with the guard held.
BuildPanics(c) ==
    /\ pc[c] = "build"
    /\ poisoned' = TRUE
    /\ Return(c, "failed")
    /\ UNCHANGED <<store, live, history>>

StageRecords(c) ==
    /\ pc[c] = "stage"
    /\ staged' = staged \union {arg[c]}
    /\ Goto(c, "complete")
    /\ UNCHANGED <<complete, selected, live, rotating, poisoned, local, history>>

CompleteManifest(c) ==
    /\ pc[c] = "complete"
    /\ complete' = complete \union {arg[c]}
    /\ Goto(c, "select")
    /\ UNCHANGED <<staged, selected, live, rotating, poisoned, local, history>>

\* The store refuses to select what is not complete (any more).
SelectHead(c) ==
    /\ pc[c] = "select"
    /\ arg[c] \in complete
    /\ selected' = arg[c]
    /\ Return(c, "rotated")
    /\ UNCHANGED <<staged, complete, live, poisoned, history>>

-------------------------------------------------------------------------------
\* recover, which takes no guard

StartRecover(c) ==
    /\ Ready(c)
    /\ overlap' = IF Inside(RotateSteps, Id) THEN overlap \union {"recover"} ELSE overlap
    /\ list' = [list EXCEPT ![c] = staged]
    /\ todo' = [todo EXCEPT ![c] = staged]
    /\ ignored' = [ignored EXCEPT ![c] = {}]
    /\ arg' = [arg EXCEPT ![c] = None]
    /\ Goto(c, "ignore")
    /\ UNCHANGED <<store, live, rotating, poisoned, sealed>>

\* Mutated form: whatever is not the head is listed.
IgnoresUnselected(id) == id # selected

Ignores(id) == id \notin complete

\* The first pass asks the store of each staged generation whether it is complete, in
\* whatever order the store has listed them ...
Ignore(c) ==
    /\ pc[c] = "ignore"
    /\ \/ /\ todo[c] = {}
          /\ todo' = [todo EXCEPT ![c] = list[c]]
          /\ Goto(c, "pick")
          /\ UNCHANGED ignored
       \/ /\ todo[c] # {}
          /\ \E id \in todo[c] :
                /\ todo' = [todo EXCEPT ![c] = @ \ {id}]
                /\ ignored' = [ignored EXCEPT ![c] =
                                  IF Ignores(id) THEN @ \union {id} ELSE @]
          /\ UNCHANGED pc
    /\ UNCHANGED <<store, live, rotating, poisoned, arg, list, history>>

\* ... and the second asks again, and keeps the largest that is.
Pick(c) ==
    /\ pc[c] = "pick"
    /\ \/ /\ todo[c] = {}
          /\ IF arg[c] = None THEN Report(c)
             ELSE Goto(c, "compare") /\ UNCHANGED <<rotating, arg, list, todo, ignored>>
       \/ /\ todo[c] # {}
          /\ \E id \in todo[c] :
                /\ todo' = [todo EXCEPT ![c] = @ \ {id}]
                /\ arg' = IF id \in complete /\ id > arg[c]
                          THEN [arg EXCEPT ![c] = id] ELSE arg
          /\ UNCHANGED <<pc, rotating, list, ignored>>
    /\ UNCHANGED <<store, live, poisoned, history>>

Compare(c) ==
    /\ pc[c] = "compare"
    /\ IF selected = arg[c] THEN Report(c)
       ELSE Goto(c, "head") /\ UNCHANGED <<rotating, local>>
    /\ UNCHANGED <<store, live, poisoned, history>>

RecoverHead(c) ==
    /\ pc[c] = "head"
    /\ arg[c] \in complete
    /\ selected' = arg[c]
    /\ Report(c)
    /\ UNCHANGED <<staged, complete, live, poisoned, history>>

-------------------------------------------------------------------------------
\* destroy_generation, which takes no guard either

\* A Generation is plain data that a caller keeps, and nothing is looked up here: a
\* destruction that was refused half way can be begun again, and one of a generation
\* that was never completed, or not even staged, too.
StartDestroy(c, id) ==
    /\ Ready(c)
    /\ overlap' = IF Inside(RotateSteps, {id}) THEN overlap \union {"destroy"} ELSE overlap
    /\ arg' = [arg EXCEPT ![c] = id]
    /\ ignored' = [ignored EXCEPT ![c] = {}]
    /\ Goto(c, "revoke")
    /\ UNCHANGED <<store, live, rotating, poisoned, list, todo, sealed>>

Revoke(c) ==
    /\ pc[c] = "revoke"
    /\ live' = live \ {arg[c]}
    /\ Goto(c, "remove")
    /\ UNCHANGED <<store, rotating, poisoned, local, history>>

RemoveGeneration(c) ==
    /\ pc[c] = "remove"
    /\ staged' = staged \ {arg[c]}
    /\ complete' = complete \ {arg[c]}
    /\ selected' = IF selected = arg[c] THEN None ELSE selected
    /\ Goto(c, "destroy")
    /\ UNCHANGED <<live, rotating, poisoned, local, history>>

DestroyKey(c) ==
    /\ pc[c] = "destroy"
    /\ live' = live \ {arg[c]}
    /\ Goto(c, "probe")
    /\ UNCHANGED <<store, rotating, poisoned, local, history>>

\* Mutated form: whatever the probe says, there is evidence.
ProbeSaysNothing(c) == TRUE

ProbeRefused(c) == arg[c] \notin live

\* Evidence is given only when the provider no longer opens the ciphertext.
Probe(c) ==
    /\ pc[c] = "probe"
    /\ IF ProbeRefused(c)
       THEN Return(c, "destroyed") /\ sealed' = sealed \union {arg[c]}
       ELSE Return(c, "failed") /\ UNCHANGED sealed
    /\ UNCHANGED <<store, live, poisoned, overlap>>

-------------------------------------------------------------------------------
\* The provider or the store refuses a call, or the closure returns an error or a
\* generation that does not match: the method returns, and nothing is undone.
Refused(c) ==
    /\ ~Ready(c)
    /\ Return(c, "failed")
    /\ UNCHANGED <<store, live, poisoned, history>>

\* The process dies and starts again: the store and the provider are what is left.
Restart ==
    /\ \E c \in Caller : ~Ready(c) \/ poisoned
    /\ pc' = [c \in Caller |-> "failed"]
    /\ rotating' = NoCaller
    /\ poisoned' = FALSE
    /\ arg' = [c \in Caller |-> None]
    /\ list' = [c \in Caller |-> {}]
    /\ todo' = [c \in Caller |-> {}]
    /\ ignored' = [c \in Caller |-> {}]
    /\ UNCHANGED <<store, live, history>>

Next ==
    \/ \E c \in Caller :
         \/ \E id \in Id : StartRotate(c, id) \/ StartDestroy(c, id)
         \/ CreateKey(c) \/ Build(c) \/ BuildPanics(c)
         \/ StageRecords(c) \/ CompleteManifest(c) \/ SelectHead(c)
         \/ StartRecover(c) \/ Ignore(c) \/ Pick(c) \/ Compare(c) \/ RecoverHead(c)
         \/ Revoke(c) \/ RemoveGeneration(c) \/ DestroyKey(c) \/ Probe(c)
         \/ Refused(c)
    \/ Restart

Spec == Init /\ [][Next]_vars

-------------------------------------------------------------------------------
\* Properties

\* Every variable stays in its type, and a rotation is inside the guard.
TypeOK ==
    /\ staged \subseteq Id /\ complete \subseteq Id /\ selected \in Id \union {None}
    /\ live \subseteq Id /\ sealed \subseteq Id
    /\ overlap \subseteq {"recover", "destroy"}
    /\ rotating \in Caller \union {NoCaller} /\ poisoned \in BOOLEAN
    /\ pc \in [Caller -> Outcomes \union RotateSteps \union RecoverSteps \union DestroySteps]
    /\ arg \in [Caller -> Id \union {None}]
    /\ list \in [Caller -> SUBSET Id]
    /\ todo \in [Caller -> SUBSET Id]
    /\ ignored \in [Caller -> SUBSET Id]
    /\ \A c \in Caller : pc[c] \in RotateSteps => rotating = c

\* generation.rs:143-151: as long as callers keep recoveries, and destructions of the very
\* generation, away from rotations, the head of a lane only moves to a newer generation,
\* whatever fails, dies or is destroyed beside it.
HeadOnlyAdvances ==
    [][selected # None /\ selected' # None /\ overlap = {} => selected' >= selected]_vars

\* generation.rs:48-57: a generation reported as selected is not reported as ignored, as
\* long as no rotation runs beside a recovery.
ReportIsConsistent ==
    "recover" \notin overlap =>
        \A c \in Caller : pc[c] = "recovered" => arg[c] \notin ignored[c]

\* destroy.rs:56-68: from DestructionEvidence on, and until a rotation asks for a key of
\* that id again, the provider opens nothing of the generation, whoever rotated or
\* destroyed it meanwhile.
EvidenceHolds == sealed \intersect live = {}
==============================================================================
