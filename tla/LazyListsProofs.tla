---------------------------- MODULE LazyListsProofs ----------------------------
(***************************************************************************)
(* What lazy lists guarantee for any number of callers, views, cells and   *)
(* calls, and whatever thunks and iterators answer.                        *)
(*                                                                         *)
(* The proof is in layers, each of which rests on those before it: who has *)
(* the mutex and who runs which thunk (LInv); what the census counts, and  *)
(* so what may leave the buffer (VInv); what each call knows of the list   *)
(* (KInv).                                                                 *)
(***************************************************************************)
EXTENDS LazyLists, FiniteSetTheorems, SequenceTheorems, WellFoundedInduction, TLAPS

-------------------------------------------------------------------------------
\* Locks and thunks

\* Steps at which a call reads the list.
Reading == {"lock", "fill", "feed", "force", "thunk"}
StepNames == Reading \union {"register", "unregister", "done"}
Walking == {"get", "for_each"}

Fields == {"kind", "op", "on", "start", "at", "n", "left", "prim", "step", "cell", "part",
           "head", "tail", "drop", "into", "out", "said", "ending"}

\* What every call is.
Shape(cl) ==
    /\ cl = [f \in Fields |-> cl[f]]
    /\ cl.kind \in {"view", "cell"} /\ cl.step \in StepNames
    /\ cl.cell \in Cell /\ cl.part \in Part
    /\ cl.kind = "view" /\ cl.step \in Reading => cl.prim \in {"is_empty", "car", "cdr", "len_cmp"}
    /\ cl.kind = "cell" => /\ cl.op \in {"car", "cdr", "get", "for_each"}
                           /\ cl.step \in {"force", "thunk", "done"}
                           /\ cl.prim \in {"car", "cdr"} /\ cl.at \in Cell

LEMMA OneIsCell == 1 \in Cell /\ "head" \in Part /\ "tail" \in Part /\ Cell \subseteq Nat
BY ListBounds DEF Cell, Part

\* The shape of calls is kept by what they do next.
LEMMA EndedShape ==
    ASSUME NEW cl, Shape(cl), NEW a
    PROVE  /\ Shape(Ended(cl, a))
           /\ Ended(cl, a).kind = cl.kind /\ Ended(cl, a).step \in {"unregister", "done"}
<1> DEFINE e == Ended(cl, a)
<1>1. /\ e = [f \in Fields |-> e[f]] /\ e.kind = cl.kind /\ e.op = cl.op /\ e.prim = cl.prim /\ e.at = cl.at
      /\ e.step \in {"unregister", "done"} /\ (e.step = "unregister" => cl.kind = "view")
      /\ e.cell \in {1, cl.cell} /\ e.part \in {"head", cl.part}
  <2>1. CASE cl.kind = "view" /\ cl.tail # None
    BY <2>1 DEF Ended, Shape, Fields
  <2>2. CASE ~(cl.kind = "view" /\ cl.tail # None)
    BY <2>2 DEF Ended, Shape, Fields
  <2> QED
    BY <2>1, <2>2
<1> HIDE DEF e
<1>2. Shape(e)
  BY <1>1, OneIsCell DEF Shape, StepNames, Reading
<1> QED
  BY <1>1, <1>2 DEF e

\* A call that has ended.
LEMMA DoneShape ==
    ASSUME NEW cl, Shape(cl), cl.kind = "view"
    PROVE  LET e == [cl EXCEPT !.step = "done"]
           IN  /\ Shape(e) /\ e.step = "done"
               /\ \A f \in Fields \ {"step"} : e[f] = cl[f]
<1> DEFINE e == [cl EXCEPT !.step = "done"]
<1>1. e = [f \in Fields |-> e[f]] /\ e.step = "done" /\ \A f \in Fields \ {"step"} : e[f] = cl[f]
  BY DEF Shape, Fields
<1>2. e.kind = "view" /\ e.cell = cl.cell /\ e.part = cl.part
  BY <1>1 DEF Fields
<1> HIDE DEF e
<1>3. Shape(e)
  BY <1>1, <1>2 DEF Shape, StepNames, Reading
<1> QED
  BY <1>1, <1>3 DEF e

\* The tail of a cell, as a walk has it.
Part1(cl) == cl.kind = "cell" => cl.tail \in {None, Nil, Odd} \union Cell

LEMMA WalkedShape ==
    ASSUME NEW cl, Shape(cl), Part1(cl)
    PROVE  /\ Shape(Walked(cl)) /\ Walked(cl).kind = cl.kind
           /\ cl.kind = "view" => Walked(cl).step \in {"lock", "unregister", "done"}
           /\ cl.kind = "cell" => Walked(cl).step \in {"force", "unregister", "done"}
<1>1. CASE cl.head = None \/ cl.left = 0
  <2>1. Walked(cl) = Ended(cl, IF cl.op = "get" THEN cl.head ELSE None)
    BY <1>1 DEF Walked
  <2> QED
    BY <2>1, EndedShape
<1>2. CASE ~(cl.head = None \/ cl.left = 0)
  <2> DEFINE visited == [cl EXCEPT !.left = @ - 1, !.out = Append(@, cl.head)]
  <2>1. Shape(visited) /\ visited.kind = cl.kind
    BY DEF Shape, Fields
  <2>2. Walked(cl) = IF cl.tail \notin Nat THEN Ended(visited, None)
                     ELSE IF cl.kind = "cell"
                     THEN [visited EXCEPT !.prim = "car", !.at = cl.tail, !.step = "force"]
                     ELSE [visited EXCEPT !.prim = "is_empty", !.at = cl.tail, !.step = "lock"]
    BY <1>2 DEF Walked
  <2> HIDE DEF visited
  <2>3. Shape(Ended(visited, None)) /\ Ended(visited, None).kind = cl.kind
        /\ Ended(visited, None).step \in {"unregister", "done"}
    BY <2>1, EndedShape
  <2>4. cl.kind = "cell" /\ cl.tail \in Nat => cl.tail \in Cell
    BY ListSentinels DEF Part1
  <2>5. CASE cl.tail \notin Nat
    BY <2>2, <2>3, <2>5
  <2>6. CASE cl.tail \in Nat /\ cl.kind = "cell"
    <3> DEFINE e == [visited EXCEPT !.prim = "car", !.at = cl.tail, !.step = "force"]
    <3>1. /\ e = [f \in Fields |-> e[f]] /\ e.kind = visited.kind /\ e.op = visited.op /\ e.prim = "car"
          /\ e.step = "force" /\ e.cell = visited.cell /\ e.part = visited.part /\ e.at = cl.tail
      BY <2>1 DEF Shape, Fields
    <3> HIDE DEF e
    <3>2. Shape(e)
      BY <2>1, <2>4, <2>6, <3>1 DEF Shape, StepNames, Reading
    <3> QED
      BY <2>1, <2>2, <2>6, <3>1, <3>2 DEF e
  <2>7. CASE cl.tail \in Nat /\ cl.kind # "cell"
    <3> DEFINE e == [visited EXCEPT !.prim = "is_empty", !.at = cl.tail, !.step = "lock"]
    <3>1. /\ e = [f \in Fields |-> e[f]] /\ e.kind = visited.kind /\ e.prim = "is_empty"
          /\ e.step = "lock" /\ e.cell = visited.cell /\ e.part = visited.part
      BY <2>1 DEF Shape, Fields
    <3> HIDE DEF e
    <3>2. Shape(e)
      BY <2>1, <2>7, <3>1 DEF Shape, StepNames, Reading
    <3> QED
      BY <2>1, <2>2, <2>7, <3>1, <3>2 DEF e
  <2> QED
    BY <2>5, <2>6, <2>7
<1> QED
  BY <1>1, <1>2

LEMMA ContinuedShape ==
    ASSUME NEW cl, Shape(cl), NEW r, cl.kind = "cell" => r \in {None, Nil, Odd} \union Cell
    PROVE  /\ Shape(Continued(cl, r)) /\ Continued(cl, r).kind = cl.kind
           /\ cl.kind = "view" => Continued(cl, r).step \in {"lock", "unregister", "done"}
           /\ cl.kind = "cell" => Continued(cl, r).step \in {"force", "unregister", "done"}
<1>1. CASE cl.op \notin {"get", "for_each"}
  BY <1>1, EndedShape DEF Continued
<1>2. CASE cl.op \in {"get", "for_each"} /\ cl.prim = "is_empty"
  <2>1. Continued(cl, r) = IF r = 0 THEN Ended(cl, None)
                           ELSE [cl EXCEPT !.prim = "car", !.step = "lock"]
    BY <1>2 DEF Continued
  <2>2. cl.kind = "view"
    BY <1>2 DEF Shape
  <2>3. CASE r = 0
    BY <2>1, <2>2, <2>3, EndedShape
  <2>4. CASE r # 0
    <3> DEFINE e == [cl EXCEPT !.prim = "car", !.step = "lock"]
    <3>1. /\ e = [f \in Fields |-> e[f]] /\ e.kind = cl.kind /\ e.prim = "car" /\ e.step = "lock"
          /\ e.cell = cl.cell /\ e.part = cl.part
      BY DEF Shape, Fields
    <3> HIDE DEF e
    <3>2. Shape(e)
      BY <2>2, <3>1 DEF Shape, StepNames, Reading
    <3> QED
      BY <2>1, <2>2, <2>4, <3>1, <3>2 DEF e
  <2> QED
    BY <2>3, <2>4
<1>3. CASE cl.op \in {"get", "for_each"} /\ cl.prim = "car"
  BY <1>3, OneIsCell DEF Continued, Shape, Fields, StepNames, Reading
<1>4. CASE cl.op \in {"get", "for_each"} /\ cl.prim = "cdr" /\ cl.kind = "cell"
  <2>1. Shape([cl EXCEPT !.tail = r]) /\ Part1([cl EXCEPT !.tail = r])
        /\ [cl EXCEPT !.tail = r].kind = cl.kind
    BY <1>4 DEF Shape, Fields, Part1
  <2> QED
    BY <1>4, <2>1, WalkedShape DEF Continued
<1>5. CASE cl.op \in {"get", "for_each"} /\ cl.prim = "cdr" /\ cl.kind = "view" /\ cl.tail = None
  BY <1>5, WalkedShape DEF Continued, Part1
<1>6. CASE /\ cl.op \in {"get", "for_each"} /\ cl.prim \notin {"is_empty", "car"}
           /\ ~(cl.prim = "cdr" /\ (cl.kind = "cell" \/ cl.tail = None))
  <2>1. Continued(cl, r) = [cl EXCEPT !.drop = cl.tail, !.tail = None, !.step = "unregister"]
    BY <1>6 DEF Continued
  <2>2. cl.kind = "view"
    BY <1>6 DEF Shape
  <2> QED
    BY <2>1, <2>2 DEF Shape, Fields, StepNames, Reading
<1> QED
  BY <1>1, <1>2, <1>3, <1>4, <1>5, <1>6 DEF Shape

-------------------------------------------------------------------------------
\* What a OnceLock may keep.
Kept == {None, Nil, Odd, Error} \union Cell

Shapes ==
    /\ call = [c \in Caller |-> call[c]]
    /\ \A c \in Caller : call[c] # Idle => Shape(call[c])
    /\ cache \in [Cell -> [Part -> Kept \union {Unforced} \union Caller]]
    /\ heard \in [Cell -> [Part -> SUBSET Kept]]
    /\ holder \in Caller \union {None}
    /\ next \in {Iter, None, Nil, Odd} \union Cell

\* At these steps a call of a view has the mutex.
Holds(cl) == cl.kind = "view" /\ cl.step \in {"fill", "feed", "force", "thunk"}

Locked == \A c \in Caller : holder = c <=> call[c] # Idle /\ Holds(call[c])

\* A OnceLock is being forced exactly by the caller that runs its thunk.
Forcing == \A c \in Caller :
    /\ call[c] # Idle /\ call[c].step = "thunk" => cache[call[c].cell][call[c].part] = c
    /\ \A i \in Cell, p \in Part : cache[i][p] = c =>
          /\ call[c] # Idle /\ call[c].step = "thunk" /\ call[c].cell = i /\ call[c].part = p

\* What calls were given is what is kept.
Remembered == \A i \in Cell, p \in Part :
    heard[i][p] \subseteq IF cache[i][p] \in Caller \union {Unforced} THEN {} ELSE {cache[i][p]}

\* A cursor has taken its node and not yet read it.
Taken == \E c \in Caller : holder = c /\ call[c].step \in {"force", "thunk"}

\* Where the end of the list comes from.
EndInv == (done => ended \/ failed) /\ (next = None => ended \/ failed \/ Taken)

LInv == Shapes /\ Locked /\ Forcing /\ Remembered

-------------------------------------------------------------------------------
LEMMA ShapeIsNotIdle == ASSUME NEW cl, Shape(cl) PROVE cl # Idle
BY DEF Shape, StepNames, Reading, Idle

\* Neither the answers nor the marks of a OnceLock are callers.
LEMMA NoneIsNobody == /\ None \notin Caller /\ Unforced \notin Caller
                      /\ Kept \intersect (Caller \union {Unforced}) = {}
<1>1. Cell \subseteq Int
  BY OneIsCell
<1>2. None \notin Caller /\ Unforced \notin Caller
  BY ListSentinels
<1>3. \A x \in Kept : x \in Int \union {None, Nil, Odd, Error}
  BY <1>1 DEF Kept
<1> QED
  BY <1>2, <1>3, ListSentinels

\* c's call becomes e, and the mutex goes with it.
Moves(c, e) ==
    /\ To(c, e) /\ (e = Idle \/ Shape(e))
    /\ holder' \in Caller \union {None} /\ (holder' = c <=> e # Idle /\ Holds(e))
    /\ holder' # holder => {holder, holder'} = {c, None}
    /\ next' \in {Iter, None, Nil, Odd} \union Cell

Kinds == /\ cache' \in [Cell -> [Part -> Kept \union {Unforced} \union Caller]]
         /\ heard' \in [Cell -> [Part -> SUBSET Kept]]

\* One caller goes on: the shapes, and who has the mutex.
LEMMA OneMoves ==
    ASSUME LInv, NEW c \in Caller, NEW e, Moves(c, e), Kinds
    PROVE  /\ Shapes' /\ Locked' /\ call'[c] = e
           /\ \A d \in Caller \ {c} : call'[d] = call[d]
<1>1. /\ call'[c] = e /\ call' = [d \in Caller |-> call'[d]]
      /\ \A d \in Caller \ {c} : call'[d] = call[d]
  BY DEF To, LInv, Shapes, Moves
<1>2. Shapes'
  BY <1>1 DEF Shapes, LInv, Moves, Kinds
<1>3. Locked'
  BY <1>1, NoneIsNobody DEF LInv, Locked, Shapes, Moves
<1> QED
  BY <1>1, <1>2, <1>3

\* One caller goes on, and neither was in a thunk nor is in one.
LEMMA OneGoesOn ==
    ASSUME LInv, NEW c \in Caller, NEW e, Moves(c, e), e.step # "thunk",
           call[c] = Idle \/ call[c].step # "thunk", UNCHANGED <<cache, heard>>
    PROVE  LInv'
<1>1. /\ Shapes' /\ Locked' /\ call'[c] = e
      /\ \A d \in Caller \ {c} : call'[d] = call[d]
  BY OneMoves DEF LInv, Shapes, Kinds
<1>2. Forcing'
  BY <1>1 DEF LInv, Forcing, Shapes
<1>3. Remembered'
  BY DEF LInv, Remembered
<1> QED
  BY <1>1, <1>2, <1>3 DEF LInv

\* A step that leaves the source alone.
LEMMA EndStays ==
    ASSUME LInv, EndInv, NEW c \in Caller, NEW e, To(c, e), UNCHANGED <<next, done, ended, failed>>,
           holder = c /\ call[c].step \in {"force", "thunk"} =>
              holder' = c /\ e.step \in {"force", "thunk"},
           holder' # holder => c \in {holder, holder'} /\ None \in {holder, holder'}
    PROVE  EndInv'
<1> USE NoneIsNobody
<1>1. Taken => Taken'
  <2> SUFFICES ASSUME NEW d \in Caller, holder = d, call[d].step \in {"force", "thunk"}
               PROVE  Taken'
    BY DEF Taken
  <2>1. CASE d = c
    BY <2>1 DEF Taken, To, LInv, Shapes
  <2>2. CASE d # c
    BY <2>2 DEF Taken, To, LInv, Shapes
  <2> QED
    BY <2>1, <2>2
<1> QED
  BY <1>1 DEF EndInv

LEMMA LockStep == ASSUME LInv, EndInv, NEW c \in Caller, Lock(c) PROVE LInv' /\ EndInv'
<1> USE NoneIsNobody
<1> DEFINE e == IF poisoned THEN Ended(call[c], Error) ELSE [call[c] EXCEPT !.step = "fill"]
<1>0. Shape(call[c]) /\ call[c].step = "lock"
  BY DEF LInv, Shapes, Lock
<1>1. call[c].kind = "view"
  BY <1>0 DEF Shape
<1>2. Shape(e) /\ e.kind = "view" /\ e.step \in {"unregister", "done", "fill"}
      /\ (Holds(e) <=> ~poisoned) /\ To(c, e)
  <2>1. CASE poisoned
    BY <1>0, <1>1, <2>1, EndedShape DEF Holds, Lock
  <2>2. CASE ~poisoned
    BY <1>0, <1>1, <2>2 DEF Shape, Fields, StepNames, Reading, Holds, Lock
  <2> QED
    BY <2>1, <2>2
<1> HIDE DEF e
<1>3. /\ holder = None /\ holder' = (IF poisoned THEN None ELSE c)
      /\ UNCHANGED <<spine, cache, heard, ended, failed>>
  BY DEF Lock, Free
<1>4. LInv'
  BY <1>0, <1>2, <1>3, ShapeIsNotIdle, OneGoesOn DEF Moves, LInv, Shapes, spine
<1>5. EndInv'
  BY <1>0, <1>2, <1>3, EndStays DEF spine
<1> QED
  BY <1>4, <1>5

LEMMA SourcesDiffer ==
    /\ Iter \notin Cell /\ None \notin Cell /\ Nil \notin Cell /\ Odd \notin Cell /\ Error \notin Cell
    /\ None # Iter /\ None # Nil /\ None # Odd /\ Nil # Iter /\ Nil # Odd /\ Odd # Iter
    /\ None # Error /\ Nil # Error /\ Odd # Error
<1>1. Cell \subseteq Int
  BY OneIsCell
<1>2. \A x \in {None, Nil, Odd, Error, Iter} : x \notin Int
  BY ListSentinels
<1> QED
  BY <1>1, <1>2, ListSentinels

LEMMA FeedStep == ASSUME LInv, EndInv, NEW c \in Caller, Feed(c) PROVE LInv' /\ EndInv'
<1> USE NoneIsNobody
<1>0. Shape(call[c]) /\ call[c].step = "fill" /\ call[c].kind = "view" /\ holder = c
  BY DEF LInv, Shapes, Feed, Locked, Holds, Shape
<1>1. CASE next = Iter
  <2> DEFINE e == [call[c] EXCEPT !.step = "feed"]
  <2>1. Shape(e) /\ Holds(e) /\ e.step = "feed"
    BY <1>0 DEF Shape, Fields, StepNames, Reading, Holds
  <2>2. To(c, e) /\ UNCHANGED <<next, done, holder, cache, heard, ended, failed>>
    BY <1>1, SourcesDiffer DEF Feed
  <2> HIDE DEF e
  <2>3. LInv'
    BY <1>0, <2>1, <2>2, ShapeIsNotIdle, OneGoesOn DEF Moves, LInv, Shapes
  <2> QED
    BY <1>0, <2>1, <2>2, <2>3, EndStays
<1>2. CASE next \in Cell
  <2> DEFINE e == [call[c] EXCEPT !.step = "force", !.cell = next, !.part = "head"]
  <2>1. Shape(e) /\ Holds(e) /\ e.step = "force"
    BY <1>0, <1>2, OneIsCell DEF Shape, Fields, StepNames, Reading, Holds
  <2>2. To(c, e) /\ next' = None /\ UNCHANGED <<done, holder, cache, heard, ended, failed>>
    BY <1>2, SourcesDiffer DEF Feed
  <2> HIDE DEF e
  <2>3. LInv'
    BY <1>0, <2>1, <2>2, ShapeIsNotIdle, OneGoesOn DEF Moves, LInv, Shapes
  <2>4. Taken'
    BY <1>0, <2>1, <2>2 DEF Taken, To, LInv, Shapes
  <2> QED
    BY <2>2, <2>3, <2>4 DEF EndInv
<1>3. CASE next \in {None, Nil}
  <2>1. done' = TRUE /\ next' = None /\ ended' = (ended \/ next = Nil)
        /\ UNCHANGED <<call, holder, failed, cache, heard>>
    BY <1>3, SourcesDiffer DEF Feed
  <2>2. LInv'
    BY <2>1 DEF LInv, Shapes, Locked, Forcing, Remembered
  <2>3. ~Taken
    BY <1>0 DEF Taken
  <2> QED
    BY <1>3, <2>1, <2>2, <2>3 DEF EndInv
<1>4. CASE next = Odd
  <2> DEFINE e == Ended(call[c], Error)
  <2>1. Shape(e) /\ e.step \in {"unregister", "done"}
    BY <1>0, EndedShape
  <2>2. /\ To(c, e) /\ failed' = TRUE /\ holder' = None /\ next' = None
        /\ UNCHANGED <<done, ended, cache, heard>>
    BY <1>4, SourcesDiffer DEF Feed, Fails
  <2> HIDE DEF e
  <2>3. LInv'
    BY <1>0, <2>1, <2>2, ShapeIsNotIdle, OneGoesOn DEF Moves, LInv, Shapes, Holds
  <2> QED
    BY <2>2, <2>3 DEF EndInv
<1> QED
  BY <1>1, <1>2, <1>3, <1>4 DEF LInv, Shapes

LEMMA IteratorStep == ASSUME LInv, EndInv, NEW c \in Caller, IteratorAnswers(c) PROVE LInv' /\ EndInv'
<1> USE NoneIsNobody
<1>0. /\ Shape(call[c]) /\ call[c].step = "feed" /\ call[c].kind = "view" /\ holder = c
      /\ UNCHANGED <<next, cache, heard>>
  BY DEF LInv, Shapes, IteratorAnswers, Locked, Holds, Shape
<1>1. ~Taken
  BY <1>0 DEF Taken
<1>2. CASE /\ To(c, [call[c] EXCEPT !.step = "fill"]) /\ UNCHANGED <<lock, failed>>
           /\ UNCHANGED <<done, ended>> \/ ended'
  <2> DEFINE e == [call[c] EXCEPT !.step = "fill"]
  <2>1. Shape(e) /\ Holds(e) /\ e.step = "fill"
    BY <1>0 DEF Shape, Fields, StepNames, Reading, Holds
  <2>2. To(c, e)
    BY <1>2
  <2> HIDE DEF e
  <2>3. LInv'
    BY <1>0, <1>2, <2>1, <2>2, ShapeIsNotIdle, OneGoesOn DEF Moves, LInv, Shapes, lock
  <2> QED
    BY <1>0, <1>1, <1>2, <2>3 DEF EndInv
<1>3. CASE Fails(c, call[c]) /\ UNCHANGED <<done, ended>>
  <2> DEFINE e == Ended(call[c], Error)
  <2>1. Shape(e) /\ e.step \in {"unregister", "done"}
    BY <1>0, EndedShape
  <2>2. To(c, e) /\ failed' = TRUE /\ holder' = None
    BY <1>3 DEF Fails
  <2> HIDE DEF e
  <2>3. LInv'
    BY <1>0, <2>1, <2>2, ShapeIsNotIdle, OneGoesOn DEF Moves, LInv, Shapes, Holds
  <2> QED
    BY <2>2, <2>3 DEF EndInv
<1> QED
  BY <1>2, <1>3 DEF IteratorAnswers

LEMMA FillingStep == ASSUME LInv, EndInv, NEW c \in Caller, Filling(c) PROVE LInv' /\ EndInv'
<1> USE NoneIsNobody
<1>0. /\ Shape(call[c]) /\ call[c].step = "fill" /\ call[c].kind = "view" /\ holder = c
      /\ holder' = None /\ UNCHANGED <<next, done, cache, heard, ended, failed>>
  BY DEF LInv, Shapes, Filling, Locked, Holds, Shape, Unlocked, spine
<1>1. call[c].prim \in {"is_empty", "car", "cdr", "len_cmp"}
  BY <1>0 DEF Shape, Reading
<1>2. PICK e : /\ To(c, e)
               /\ (\E r : e = Continued(call[c], r)) \/ e = [call[c] EXCEPT !.step = "register"]
  <2>1. CASE call[c].prim = "is_empty"
    BY <2>1 DEF Filling
  <2>2. CASE call[c].prim = "car"
    BY <2>2 DEF Filling
  <2>3. CASE call[c].prim = "cdr"
    BY <2>3 DEF Filling
  <2>4. CASE call[c].prim = "len_cmp"
    BY <2>4 DEF Filling
  <2> QED
    BY <1>1, <2>1, <2>2, <2>3, <2>4
<1>3. Shape(e) /\ e.kind = "view" /\ e.step \in {"lock", "unregister", "done", "register"}
  <2>1. CASE \E r : e = Continued(call[c], r)
    BY <1>0, <2>1, ContinuedShape
  <2>2. CASE e = [call[c] EXCEPT !.step = "register"]
    BY <1>0, <2>2 DEF Shape, Fields, StepNames, Reading
  <2> QED
    BY <1>2, <2>1, <2>2
<1>4. LInv'
  BY <1>0, <1>2, <1>3, OneGoesOn DEF Moves, LInv, Shapes, Holds
<1>5. EndInv'
  BY <1>0, <1>2, EndStays
<1> QED
  BY <1>4, <1>5

LEMMA ReturnStep == ASSUME LInv, EndInv, NEW c \in Caller, Return(c) PROVE LInv' /\ EndInv'
<1> USE NoneIsNobody
<1>0. /\ call[c] # Idle /\ call[c].step = "done" /\ holder # c /\ To(c, Idle)
      /\ UNCHANGED <<next, done, holder, cache, heard, ended, failed>>
  BY DEF LInv, Locked, Holds, Return, spine, lock
<1>1. Idle.step # "thunk"
  BY DEF Idle
<1>2. LInv'
  BY <1>0, <1>1, OneGoesOn DEF Moves, LInv, Shapes
<1>3. EndInv'
  BY <1>0, EndStays
<1> QED
  BY <1>2, <1>3

LEMMA RegisterStep == ASSUME LInv, EndInv, NEW c \in Caller, Register(c) PROVE LInv' /\ EndInv'
<1> USE NoneIsNobody
<1> DEFINE cl == call[c]
           start == IF cl.op = "clone" THEN cl.at ELSE cl.at + 1
<1>0. /\ Shape(cl) /\ cl.step = "register" /\ cl.kind = "view" /\ holder # c
      /\ UNCHANGED <<next, done, holder, cache, heard, ended, failed>>
  BY DEF LInv, Shapes, Locked, Holds, Register, spine, lock, Shape
<1>1. PICK e : /\ To(c, e)
               /\ e \in {Ended(cl, start), Walked([cl EXCEPT !.tail = start]),
                         [cl EXCEPT !.tail = start, !.drop = cl.tail, !.step = "unregister"]}
  BY DEF Register
<1>2. Shape([cl EXCEPT !.tail = start]) /\ [cl EXCEPT !.tail = start].kind = "view"
  BY <1>0 DEF Shape, Fields
<1>3. Shape(e) /\ e.kind = "view" /\ e.step \in {"lock", "unregister", "done"}
  <2>1. CASE e = Ended(cl, start)
    BY <1>0, <2>1, EndedShape
  <2>2. CASE e = Walked([cl EXCEPT !.tail = start])
    BY <1>2, <2>2, WalkedShape DEF Part1
  <2>3. CASE e = [cl EXCEPT !.tail = start, !.drop = cl.tail, !.step = "unregister"]
    BY <1>0, <2>3 DEF Shape, Fields, StepNames, Reading
  <2> QED
    BY <1>1, <2>1, <2>2, <2>3
<1>4. LInv'
  BY <1>0, <1>1, <1>3, OneGoesOn DEF Moves, LInv, Shapes, Holds
<1>5. EndInv'
  BY <1>0, <1>1, EndStays
<1> QED
  BY <1>4, <1>5

LEMMA UnregisterStep == ASSUME LInv, EndInv, NEW c \in Caller, Unregister(c) PROVE LInv' /\ EndInv'
<1> USE NoneIsNobody
<1> DEFINE cl == [call[c] EXCEPT !.drop = None]
<1>0. /\ Shape(call[c]) /\ call[c].step = "unregister" /\ call[c].kind = "view" /\ holder # c
      /\ UNCHANGED <<next, done, holder, cache, heard, ended, failed>>
  BY DEF LInv, Shapes, Locked, Holds, Unregister, Unregisters, lock, Shape
<1>1. Shape(cl) /\ cl.kind = "view" /\ cl.step = "unregister"
  BY <1>0 DEF Shape, Fields
<1>2. PICK e : To(c, e) /\ e \in {Walked(cl), [cl EXCEPT !.step = "done"]}
  BY DEF Unregister
<1>3. Shape(e) /\ e.kind = "view" /\ e.step \in {"lock", "unregister", "done"}
  <2>1. CASE e = Walked(cl)
    BY <1>1, <2>1, WalkedShape DEF Part1
  <2>2. CASE e = [cl EXCEPT !.step = "done"]
    BY <1>1, <2>2, DoneShape DEF Fields
  <2> QED
    BY <1>2, <2>1, <2>2
<1>4. LInv'
  BY <1>0, <1>2, <1>3, OneGoesOn DEF Moves, LInv, Shapes, Holds
<1>5. EndInv'
  BY <1>0, <1>2, EndStays
<1> QED
  BY <1>4, <1>5

LEMMA BeginStep ==
    ASSUME LInv, EndInv, NEW c \in Caller, NEW op \in Ops, NEW n, NEW into, NEW kind, NEW on, NEW at,
           Begins(c, kind, op, on, at, n, into),
           \/ kind = "view"
           \/ kind = "cell" /\ op \in {"car", "cdr", "get", "for_each"} /\ at \in Cell
    PROVE  LInv' /\ EndInv'
<1> USE NoneIsNobody
<1> DEFINE e == [kind |-> kind, op |-> op, on |-> on, start |-> at, at |-> at, n |-> n, left |-> n,
              prim |-> First(op), step |-> FirstStep(kind, op), cell |-> 1, part |-> "head",
              head |-> None, tail |-> None, drop |-> None, into |-> into, out |-> <<>>,
              said |-> None, ending |-> FALSE]
<1>0. /\ call[c] = Idle /\ To(c, e) /\ holder # c
      /\ UNCHANGED <<next, done, holder, cache, heard, ended, failed>>
  BY DEF LInv, Locked, Begins, spine, lock
<1>1. /\ FirstStep(kind, op) \in {"force", "register", "unregister", "lock"}
      /\ kind = "cell" => FirstStep(kind, op) = "force" /\ First(op) \in {"car", "cdr"}
      /\ kind = "view" => FirstStep(kind, op) # "force"
      /\ FirstStep(kind, op) = "lock" => First(op) \in {"is_empty", "car", "cdr", "len_cmp"}
  BY DEF FirstStep, First, Ops
<1>2. Shape(e) /\ ~Holds(e) /\ e.step # "thunk"
  BY <1>1, OneIsCell DEF Shape, Fields, StepNames, Reading, Holds
<1> HIDE DEF e
<1>3. LInv'
  BY <1>0, <1>2, OneGoesOn DEF Moves, LInv, Shapes
<1>4. Idle.step \notin {"force", "thunk"}
  BY DEF Idle
<1>5. EndInv'
  BY <1>0, <1>4, EndStays
<1> QED
  BY <1>3, <1>5

\* A part of a cell is there: what the call that wanted it does.
LEMMA GetsStep ==
    ASSUME LInv, EndInv, NEW c \in Caller, call[c] # Idle, call[c].step \in {"force", "thunk"},
           NEW cl, Shape(cl), cl.kind = call[c].kind, cl.step = "force", NEW r \in Kept, Gets(c, cl, r)
    PROVE  EndInv' /\ \E e : Moves(c, e) /\ Shape(e) /\ e.step # "thunk"
<1> USE NoneIsNobody
<1>0. Shape(call[c]) /\ (holder = c <=> cl.kind = "view") /\ cl.kind \in {"view", "cell"}
  BY DEF LInv, Shapes, Locked, Holds, Shape
<1>t. holder \in Caller \union {None} /\ next \in {Iter, None, Nil, Odd} \union Cell
  BY DEF LInv, Shapes
<1>1. CASE cl.kind = "cell"
  <2>1. PICK e : To(c, e) /\ e = IF r = Error THEN Ended(cl, Error) ELSE Continued(cl, r)
    BY <1>1 DEF Gets
  <2>2. Shape(e) /\ e.kind = "cell" /\ e.step # "thunk"
    <3>1. CASE r = Error
      BY <1>1, <2>1, <3>1, EndedShape
    <3>2. CASE r # Error
      BY <1>1, <2>1, <3>2, ContinuedShape DEF Kept
    <3> QED
      BY <3>1, <3>2
  <2>3. UNCHANGED <<next, done, holder, ended, failed>>
    BY <1>1 DEF Gets, spine, lock
  <2>4. EndInv'
    BY <1>0, <1>1, <2>1, <2>3, EndStays
  <2> QED
    BY <1>0, <1>1, <1>t, <2>1, <2>2, <2>3, <2>4 DEF Moves, Holds
<1>2. CASE cl.kind = "view" /\ r = Error
  <2> DEFINE e == Ended(cl, Error)
  <2>1. /\ To(c, e) /\ failed' = TRUE /\ holder' = None /\ UNCHANGED <<next, done, ended>>
    BY <1>2 DEF Gets, Fails, spine
  <2>2. Shape(e) /\ e.step \in {"unregister", "done"}
    BY EndedShape
  <2> HIDE DEF e
  <2> QED
    BY <1>0, <1>2, <1>t, <2>1, <2>2 DEF Moves, Holds, EndInv
<1>3. CASE cl.kind = "view" /\ r # Error /\ cl.part = "head"
  <2> DEFINE e == [cl EXCEPT !.part = "tail"]
  <2>1. To(c, e) /\ UNCHANGED <<next, done, holder, ended, failed>>
    BY <1>3 DEF Gets, spine, lock
  <2>2. Shape(e) /\ e.step = "force" /\ e.kind = "view"
    BY <1>3, OneIsCell DEF Shape, Fields
  <2> HIDE DEF e
  <2>3. EndInv'
    BY <1>0, <1>3, <2>1, <2>2, EndStays
  <2> QED
    BY <1>0, <1>3, <1>t, <2>1, <2>2, <2>3, ShapeIsNotIdle DEF Moves, Holds
<1>4. CASE cl.kind = "view" /\ r # Error /\ cl.part = "tail"
  <2> DEFINE e == [cl EXCEPT !.step = "fill"]
  <2>1. /\ To(c, e) /\ next' = r /\ ended' = (ended \/ r \in {None, Nil})
        /\ UNCHANGED <<done, holder, failed>>
    BY <1>4 DEF Gets, Streams, lock
  <2>2. Shape(e) /\ e.step = "fill" /\ e.kind = "view"
    BY <1>4 DEF Shape, Fields, StepNames, Reading
  <2> HIDE DEF e
  <2>3. EndInv'
    BY <2>1 DEF EndInv
  <2> QED
    BY <1>0, <1>4, <1>t, <2>1, <2>2, <2>3, ShapeIsNotIdle DEF Moves, Holds, Kept
<1> QED
  BY <1>0, <1>1, <1>2, <1>3, <1>4 DEF Shape, Part

LEMMA WantedShape ==
    ASSUME NEW cl, Shape(cl)
    PROVE  Shape(Wanted(cl)) /\ Wanted(cl).kind = cl.kind /\ Wanted(cl).step = cl.step
<1>1. CASE cl.kind = "view"
  BY <1>1 DEF Wanted
<1>2. CASE cl.kind = "cell"
  BY <1>2, OneIsCell DEF Wanted, Shape, Fields
<1> QED
  BY <1>1, <1>2 DEF Shape

LEMMA AskStep == ASSUME LInv, EndInv, NEW c \in Caller, Ask(c) PROVE LInv' /\ EndInv'
<1> DEFINE cl == Wanted(call[c])
           now == cache[cl.cell][cl.part]
<1>0. call[c] # Idle /\ Shape(call[c]) /\ call[c].step = "force"
  BY DEF LInv, Shapes, Ask
<1>1. Shape(cl) /\ cl.kind = call[c].kind /\ cl.step = "force" /\ cl.cell \in Cell /\ cl.part \in Part
  BY <1>0, WantedShape DEF Shape
<1>t. /\ holder \in Caller \union {None} /\ next \in {Iter, None, Nil, Odd} \union Cell
      /\ now \in Kept \union {Unforced} \union Caller
  BY <1>1 DEF LInv, Shapes
<1>2. CASE now = Unforced
  <2> DEFINE e == [cl EXCEPT !.step = "thunk"]
  <2>1. /\ To(c, e) /\ cache' = [cache EXCEPT ![cl.cell][cl.part] = c]
        /\ UNCHANGED <<next, done, holder, heard, ended, failed>>
    BY <1>2 DEF Ask, spine, lock
  <2>2. Shape(e) /\ e.kind = cl.kind /\ e.step = "thunk" /\ e.cell = cl.cell /\ e.part = cl.part
    BY <1>1 DEF Shape, Fields, StepNames, Reading
  <2> HIDE DEF e, cl
  <2>3. Moves(c, e) /\ Kinds
    BY <1>0, <1>1, <1>t, <2>1, <2>2, ShapeIsNotIdle DEF Moves, Kinds, LInv, Shapes, Locked, Holds
  <2>4. Shapes' /\ Locked' /\ call'[c] = e /\ \A d \in Caller \ {c} : call'[d] = call[d]
    BY <2>3, OneMoves
  <2>5. cache'[cl.cell][cl.part] = c /\ \A i \in Cell, p \in Part :
           i # cl.cell \/ p # cl.part => cache'[i][p] = cache[i][p]
    BY <1>1, <2>1 DEF LInv, Shapes
  <2>6. Forcing'
    <3> SUFFICES ASSUME NEW d \in Caller
                 PROVE  /\ call'[d] # Idle /\ call'[d].step = "thunk" =>
                              cache'[call'[d].cell][call'[d].part] = d
                        /\ \A i \in Cell, p \in Part : cache'[i][p] = d =>
                               /\ call'[d] # Idle /\ call'[d].step = "thunk"
                               /\ call'[d].cell = i /\ call'[d].part = p
      BY DEF Forcing
    <3>1. /\ call[d] # Idle /\ call[d].step = "thunk" => cache[call[d].cell][call[d].part] = d
          /\ \A i \in Cell, p \in Part : cache[i][p] = d =>
                 /\ call[d] # Idle /\ call[d].step = "thunk"
                 /\ call[d].cell = i /\ call[d].part = p
      BY DEF LInv, Forcing
    <3>2. CASE d = c
      <4>1. \A i \in Cell, p \in Part : cache'[i][p] = c => i = cl.cell /\ p = cl.part
        BY <1>0, <2>5, <3>1, <3>2
      <4>2. call'[c] # Idle
        BY <2>2, <2>4, ShapeIsNotIdle
      <4> QED
        BY <2>2, <2>4, <2>5, <3>2, <4>1, <4>2
    <3>3. CASE d # c
      <4>1. call[d] # Idle => call[d].cell \in Cell /\ call[d].part \in Part
        BY DEF LInv, Shapes, Shape
      <4>2. call'[d] = call[d]
        BY <2>4, <3>3
      <4>3. \A i \in Cell, p \in Part : cache'[i][p] = d => cache[i][p] = d
        BY <2>5, <3>3
      <4>4. \A i \in Cell, p \in Part : cache[i][p] = d => cache'[i][p] = d
        BY <1>2, <2>5, NoneIsNobody
      <4> QED
        BY <3>1, <4>1, <4>2, <4>3, <4>4
    <3> QED
      BY <3>2, <3>3
  <2>7. Remembered'
    <3> SUFFICES ASSUME NEW i \in Cell, NEW p \in Part
                 PROVE  heard'[i][p] \subseteq IF cache'[i][p] \in Caller \union {Unforced} THEN {}
                                               ELSE {cache'[i][p]}
      BY DEF Remembered
    <3>1. heard[i][p] \subseteq IF cache[i][p] \in Caller \union {Unforced} THEN {} ELSE {cache[i][p]}
      BY DEF LInv, Remembered
    <3>2. heard' = heard
      BY <2>1
    <3>3. CASE i = cl.cell /\ p = cl.part
      BY <1>2, <3>1, <3>2, <3>3
    <3>4. CASE ~(i = cl.cell /\ p = cl.part)
      BY <2>5, <3>1, <3>2, <3>4
    <3> QED
      BY <3>3, <3>4
  <2>8. EndInv'
    BY <1>0, <1>1, <2>1, <2>2, EndStays
  <2> QED
    BY <2>4, <2>6, <2>7, <2>8 DEF LInv
<1>3. CASE now # Unforced
  <2>1. now \in Kept /\ Gets(c, cl, now) /\ UNCHANGED cache
    BY <1>3, <1>t DEF Ask
  <2>2. EndInv' /\ \E e : Moves(c, e) /\ Shape(e) /\ e.step # "thunk"
    BY <1>0, <1>1, <2>1, GetsStep
  <2>3. PICK e : Moves(c, e) /\ Shape(e) /\ e.step # "thunk"
    BY <2>2
  <2> HIDE DEF cl, now
  <2>4. heard' = [heard EXCEPT ![cl.cell][cl.part] = @ \union {now}]
    BY <2>1 DEF Gets
  <2>5. Kinds
    BY <1>1, <2>1, <2>4 DEF Kinds, LInv, Shapes
  <2>6. Shapes' /\ Locked' /\ call'[c] = e /\ \A d \in Caller \ {c} : call'[d] = call[d]
    BY <2>3, <2>5, OneMoves
  <2>7. Forcing'
    BY <1>0, <2>1, <2>3, <2>6 DEF LInv, Forcing
  <2>8. Remembered'
    <3> SUFFICES ASSUME NEW i \in Cell, NEW p \in Part
                 PROVE  heard'[i][p] \subseteq IF cache'[i][p] \in Caller \union {Unforced} THEN {}
                                               ELSE {cache'[i][p]}
      BY DEF Remembered
    <3>1. heard'[i][p] = IF i = cl.cell /\ p = cl.part THEN heard[i][p] \union {now} ELSE heard[i][p]
      BY <1>1, <2>4 DEF LInv, Shapes
    <3>2. heard[i][p] \subseteq IF cache[i][p] \in Caller \union {Unforced} THEN {} ELSE {cache[i][p]}
      BY DEF LInv, Remembered
    <3>3. cache'[i][p] = cache[i][p] /\ now \notin Caller \union {Unforced}
      BY <2>1, NoneIsNobody
    <3>4. CASE i = cl.cell /\ p = cl.part
      <4>1. cache[i][p] = now
        BY <3>4 DEF now
      <4> QED
        BY <3>1, <3>2, <3>3, <3>4, <4>1
    <3>5. CASE ~(i = cl.cell /\ p = cl.part)
      BY <3>1, <3>2, <3>3, <3>5
    <3> QED
      BY <3>4, <3>5
  <2> QED
    BY <2>2, <2>6, <2>7, <2>8 DEF LInv
<1> QED
  BY <1>2, <1>3

\* A thunk of c has ended: nobody forces that part any longer.
LEMMA NobodyForces ==
    ASSUME Forcing, NEW c \in Caller, NEW k \in Cell, NEW q \in Part, cache[k][q] = c,
           \A i \in Cell, p \in Part : (i = k /\ p = q) \/ cache'[i][p] = cache[i][p],
           cache'[k][q] \notin Caller, call'[c].step # "thunk",
           \A d \in Caller \ {c} : call'[d] = call[d],
           \A d \in Caller : call[d] # Idle => call[d].cell \in Cell /\ call[d].part \in Part
    PROVE  Forcing'
<1> SUFFICES ASSUME NEW d \in Caller
             PROVE  /\ call'[d] # Idle /\ call'[d].step = "thunk" =>
                          cache'[call'[d].cell][call'[d].part] = d
                    /\ \A i \in Cell, p \in Part : cache'[i][p] = d =>
                           /\ call'[d] # Idle /\ call'[d].step = "thunk"
                           /\ call'[d].cell = i /\ call'[d].part = p
  BY DEF Forcing
<1>1. \A i \in Cell, p \in Part : cache'[i][p] = d => cache[i][p] = d /\ ~(i = k /\ p = q)
  OBVIOUS
<1>2. CASE d = c
  <2>1. \A i \in Cell, p \in Part : cache[i][p] = c => i = call[c].cell /\ p = call[c].part
    BY DEF Forcing
  <2>2. k = call[c].cell /\ q = call[c].part
    BY <2>1
  <2> QED
    BY <1>1, <1>2, <2>1, <2>2
<1>3. CASE d # c
  <2>1. call'[d] = call[d]
    BY <1>3
  <2>2. call[d] # Idle /\ call[d].step = "thunk" => cache[call[d].cell][call[d].part] = d
    BY DEF Forcing
  <2>3. \A i \in Cell, p \in Part : cache[i][p] = d =>
            call[d] # Idle /\ call[d].step = "thunk" /\ call[d].cell = i /\ call[d].part = p
    BY DEF Forcing
  <2>4. call[d] # Idle /\ call[d].step = "thunk" => cache'[call[d].cell][call[d].part] = d
    BY <1>3, <2>2
  <2> QED
    BY <1>1, <2>1, <2>3, <2>4
<1> QED
  BY <1>2, <1>3

\* Part q of cell k, and who asked for it, is given r.
PartGets(k, q, r) == \A i \in Cell, p \in Part :
    /\ cache'[i][p] = IF i = k /\ p = q THEN r ELSE cache[i][p]
    /\ heard'[i][p] = IF i = k /\ p = q /\ r # Unforced THEN heard[i][p] \union {r} ELSE heard[i][p]

\* What the callers that wait for it are told is what is kept.
LEMMA AnswerIsKept ==
    ASSUME Remembered, NEW k \in Cell, NEW q \in Part, NEW r \in Kept \union {Unforced},
           cache[k][q] \in Caller,
           PartGets(k, q, r)
    PROVE  Remembered'
<1> SUFFICES ASSUME NEW i \in Cell, NEW p \in Part
             PROVE  heard'[i][p] \subseteq IF cache'[i][p] \in Caller \union {Unforced} THEN {}
                                           ELSE {cache'[i][p]}
  BY DEF Remembered
<1>1. heard[i][p] \subseteq IF cache[i][p] \in Caller \union {Unforced} THEN {} ELSE {cache[i][p]}
  BY DEF Remembered
<1>2. /\ cache'[i][p] = IF i = k /\ p = q THEN r ELSE cache[i][p]
      /\ heard'[i][p] = IF i = k /\ p = q /\ r # Unforced THEN heard[i][p] \union {r} ELSE heard[i][p]
  BY DEF PartGets
<1>3. CASE i = k /\ p = q
  <2>1. heard[i][p] = {}
    BY <1>1, <1>3
  <2> QED
    BY <1>2, <1>3, <2>1, NoneIsNobody
<1>4. CASE ~(i = k /\ p = q)
  BY <1>1, <1>2, <1>4
<1> QED
  BY <1>3, <1>4

LEMMA PartEnds ==
    ASSUME LInv, NEW c \in Caller, NEW e, Moves(c, e), Shape(e), e.step # "thunk", Kinds,
           NEW k \in Cell, NEW q \in Part, cache[k][q] = c, NEW r \in Kept \union {Unforced},
           PartGets(k, q, r)
    PROVE  LInv'
<1>1. Shapes' /\ Locked' /\ call'[c] = e /\ \A d \in Caller \ {c} : call'[d] = call[d]
  BY OneMoves
<1>2. cache'[k][q] \notin Caller
  BY NoneIsNobody DEF PartGets
<1>3. \A d \in Caller : call[d] # Idle => call[d].cell \in Cell /\ call[d].part \in Part
  BY DEF LInv, Shapes, Shape
<1>4. \A i \in Cell, p \in Part : (i = k /\ p = q) \/ cache'[i][p] = cache[i][p]
  BY DEF PartGets
<1>5. Forcing /\ Remembered
  BY DEF LInv
<1>6. Forcing'
  BY <1>1, <1>2, <1>3, <1>4, <1>5, NobodyForces
<1>7. Remembered'
  BY <1>5, AnswerIsKept
<1> QED
  BY <1>1, <1>6, <1>7 DEF LInv

\* A thunk of c ends, with an answer that is kept or with none.
LEMMA ThunkEnds ==
    ASSUME LInv, NEW c \in Caller, call[c] # Idle, call[c].step = "thunk",
           NEW e, Moves(c, e), Shape(e), e.step # "thunk", NEW r \in Kept \union {Unforced},
           cache' = [cache EXCEPT ![call[c].cell][call[c].part] = r],
           heard' = IF r = Unforced THEN heard
                    ELSE [heard EXCEPT ![call[c].cell][call[c].part] = @ \union {r}]
    PROVE  LInv'
<1> DEFINE k == call[c].cell
           q == call[c].part
<1>1. k \in Cell /\ q \in Part /\ cache[k][q] = c
  BY DEF LInv, Shapes, Shape, Forcing
<1> HIDE DEF k, q
<1>2. Kinds
  BY <1>1 DEF Kinds, LInv, Shapes, k, q
<1>3. cache \in [Cell -> [Part -> Kept \union {Unforced} \union Caller]] /\ heard \in [Cell -> [Part -> SUBSET Kept]]
  BY DEF LInv, Shapes
<1>4. \A i \in Cell, p \in Part : cache'[i][p] = IF i = k /\ p = q THEN r ELSE cache[i][p]
  BY <1>1, <1>3 DEF k, q
<1>5. \A i \in Cell, p \in Part :
         heard'[i][p] = IF i = k /\ p = q /\ r # Unforced THEN heard[i][p] \union {r} ELSE heard[i][p]
  <2>1. CASE r = Unforced
    BY <2>1
  <2>2. CASE r # Unforced
    BY <1>1, <1>3, <2>2 DEF k, q
  <2> QED
    BY <2>1, <2>2
<1>6. PartGets(k, q, r)
  BY <1>4, <1>5 DEF PartGets
<1> QED
  BY <1>1, <1>2, <1>6, PartEnds

LEMMA AnswerStep ==
    ASSUME LInv, EndInv, NEW c \in Caller, NEW r \in {None, Nil, Odd, Error} \union Cell,
           ThunkAnswers(c, r)
    PROVE  LInv' /\ EndInv'
<1> DEFINE cl == [call[c] EXCEPT !.step = "force"]
<1>0. call[c] # Idle /\ Shape(call[c]) /\ call[c].step = "thunk" /\ r \in Kept
  BY DEF LInv, Shapes, ThunkAnswers, Kept
<1>1. /\ Shape(cl) /\ cl.kind = call[c].kind /\ cl.step = "force"
      /\ cl.cell = call[c].cell /\ cl.part = call[c].part
  BY <1>0 DEF Shape, Fields, StepNames, Reading
<1>2. Gets(c, cl, r) /\ cache' = [cache EXCEPT ![call[c].cell][call[c].part] = r]
  BY DEF ThunkAnswers, Keeps
<1> HIDE DEF cl
<1>3. EndInv' /\ \E e : Moves(c, e) /\ Shape(e) /\ e.step # "thunk"
  BY <1>0, <1>1, <1>2, GetsStep
<1>4. heard' = [heard EXCEPT ![call[c].cell][call[c].part] = @ \union {r}]
  <2>1. heard' = [heard EXCEPT ![cl.cell][cl.part] = @ \union {r}]
    BY <1>2 DEF Gets
  <2> QED
    BY <1>1, <2>1
<1>5. LInv'
  BY <1>0, <1>2, <1>3, <1>4, NoneIsNobody, ThunkEnds
<1> QED
  BY <1>3, <1>5

LEMMA PanicStep == ASSUME LInv, EndInv, NEW c \in Caller, ThunkPanics(c) PROVE LInv' /\ EndInv'
<1> USE NoneIsNobody
<1> DEFINE e == Ended(call[c], Error)
<1>0. call[c] # Idle /\ Shape(call[c]) /\ call[c].step = "thunk"
  BY DEF LInv, Shapes, ThunkPanics
<1>1. /\ To(c, e) /\ UNCHANGED <<next, done, heard, ended>>
      /\ cache' = [cache EXCEPT ![call[c].cell][call[c].part] = Unforced]
      /\ IF holder = c THEN holder' = None /\ failed' = TRUE ELSE UNCHANGED <<holder, failed>>
  BY DEF ThunkPanics, spine, lock
<1>2. Shape(e) /\ e.step \in {"unregister", "done"}
  BY <1>0, EndedShape
<1> HIDE DEF e
<1>3. Moves(c, e)
  BY <1>1, <1>2 DEF Moves, LInv, Shapes, Holds
<1>4. LInv'
  BY <1>0, <1>1, <1>2, <1>3, ThunkEnds
<1>5. EndInv'
  BY <1>1, EndStays DEF EndInv
<1> QED
  BY <1>4, <1>5

LEMMA InitLocks == Init => LInv /\ EndInv
<1> SUFFICES ASSUME Init PROVE LInv /\ EndInv
  OBVIOUS
<1>1. Shapes
  BY OneIsCell, NoneIsNobody DEF Init, NewList, NewCells, Shapes, Kept
<1>2. Locked /\ Forcing /\ Remembered
  BY NoneIsNobody DEF Init, NewList, NewCells, Locked, Forcing, Remembered
<1>3. EndInv
  BY SourcesDiffer, OneIsCell DEF Init, EndInv
<1> QED
  BY <1>1, <1>2, <1>3 DEF LInv

LEMMA NextLocks == LInv /\ EndInv /\ [Next]_vars => LInv' /\ EndInv'
<1> SUFFICES ASSUME LInv, EndInv, [Next]_vars PROVE LInv' /\ EndInv'
  OBVIOUS
<1>1. CASE UNCHANGED vars
  BY <1>1 DEF vars, spine, census, lock, LInv, EndInv, Shapes, Locked, Forcing, Remembered, Taken
<1>2. ASSUME NEW c \in Caller, Steps(c) PROVE LInv' /\ EndInv'
  BY <1>2, LockStep, FeedStep, IteratorStep, FillingStep, AskStep, PanicStep, AnswerStep,
     RegisterStep, UnregisterStep, ReturnStep DEF Steps
<1>3. ASSUME NEW c \in Caller, NEW op \in Ops, NEW n \in 0..Deepest, NEW v \in View, CallView(c, op, v, n)
      PROVE  LInv' /\ EndInv'
  <2>1. PICK into : Begins(c, "view", op, v, view[v], n, into)
    BY <1>3 DEF CallView
  <2> QED
    BY <2>1, BeginStep
<1>4. ASSUME NEW c \in Caller, NEW op \in Ops, NEW n \in 0..Deepest, NEW i \in Cell, CallCell(c, op, i, n)
      PROVE  LInv' /\ EndInv'
  BY <1>4, BeginStep DEF CallCell
<1> QED
  BY <1>1, <1>2, <1>3, <1>4 DEF Next

\* lazy.rs:62-73, 129-141, iter.rs:102-113: the mutex is with the caller whose view reads
\* the source, a OnceLock that is being forced is with the caller who runs its thunk, and
\* what calls were given is what the OnceLock keeps.
THEOREM LocksInvariance == Spec => [](LInv /\ EndInv)
<1> QED
  BY InitLocks, NextLocks, PTL DEF Spec

\* iter.rs:102-113: the list is at its end only if its source has said so, or if a call
\* has failed while it read it.
THEOREM ListsEndTruly == Spec => []EndIsTrue
<1>1. EndInv => EndIsTrue
  BY DEF EndInv, EndIsTrue
<1> QED
  BY <1>1, LocksInvariance, PTL

\* lazy.rs:62-73, 129-141: whoever asks a cell for its head or its tail is given the same,
\* an error included.
THEOREM CellsAnswerOnce == Spec => []CellAnswersOnce
<1>1. ASSUME LInv PROVE CellAnswersOnce
  <2> SUFFICES ASSUME NEW i \in Cell, NEW p \in Part PROVE Cardinality(heard[i][p]) <= 1
    BY DEF CellAnswersOnce
  <2>1. heard[i][p] \subseteq {} \/ heard[i][p] \subseteq {cache[i][p]}
    BY <1>1 DEF LInv, Remembered
  <2>2. heard[i][p] = {} \/ heard[i][p] = {cache[i][p]}
    BY <2>1
  <2>3. CASE heard[i][p] = {}
    BY <2>3, FS_EmptySet
  <2>4. CASE heard[i][p] = {cache[i][p]}
    <3>1. Cardinality({cache[i][p]}) = 1
      BY FS_Singleton
    <3> QED
      BY <2>4, <3>1
  <2> QED
    BY <2>2, <2>3, <2>4
<1> QED
  BY <1>1, LocksInvariance, PTL

\* iter.rs:102-113, 196-213, lazy.rs:129-141: callers that wait for the mutex and for each
\* other's thunks never wait in a circle: who runs a thunk waits for nobody, and who has
\* the mutex waits at most for a thunk.
THEOREM NobodyWaitsInACircle == Spec => []NoCircle
<1>1. ASSUME LInv PROVE NoCircle
  <2> SUFFICES ASSUME NEW S \in SUBSET Caller, S # {}, \A c \in S : WaitsFor(c) \intersect S # {}
               PROVE  FALSE
    BY DEF NoCircle
  <2>1. ASSUME NEW c \in Caller, call[c] # Idle, call[c].step = "thunk" PROVE WaitsFor(c) = {}
    BY <2>1 DEF WaitsFor
  <2>2. ASSUME NEW c \in S, call[c] # Idle, call[c].step = "force" PROVE FALSE
    <3> DEFINE w == Wanted(call[c])
    <3>0. Shape(call[c])
      BY <1>1, <2>2 DEF LInv, Shapes
    <3>1. w.cell \in Cell /\ w.part \in Part
      BY <3>0, WantedShape DEF Shape
    <3>2. PICK d \in S : d \in WaitsFor(c)
      OBVIOUS
    <3>3. WaitsFor(c) = {cache[w.cell][w.part]} \intersect Caller
      BY <2>2 DEF WaitsFor
    <3>4. cache[w.cell][w.part] = d
      BY <3>2, <3>3
    <3>5. call[d] # Idle /\ call[d].step = "thunk"
      BY <1>1, <3>1, <3>4 DEF LInv, Forcing
    <3> QED
      BY <2>1, <3>5
  <2>3. PICK c \in S : TRUE
    OBVIOUS
  <2>4. call[c] # Idle /\ call[c].step \in {"lock", "register", "unregister"} /\ holder \in S
    <3>1. call[c] # Idle
      BY DEF WaitsFor
    <3>2. call[c].step \in {"lock", "register", "unregister"}
      BY <2>2, <3>1 DEF WaitsFor
    <3>3. WaitsFor(c) = {holder} \ {None}
      BY <3>1, <3>2 DEF WaitsFor
    <3> QED
      BY <3>1, <3>2, <3>3
  <2>5. call[holder] # Idle /\ call[holder].step \in {"fill", "feed", "force", "thunk"}
    BY <1>1, <2>4 DEF LInv, Locked, Holds
  <2>6. call[holder].step = "force"
    BY <2>4, <2>5 DEF WaitsFor
  <2> QED
    BY <2>2, <2>4, <2>5, <2>6
<1> QED
  BY <1>1, LocksInvariance, PTL

-------------------------------------------------------------------------------
\* Numbers and bags

LEMMA LeastOfNaturals ==
    ASSUME NEW T \in SUBSET Nat, T # {}
    PROVE  \E m \in T : \A o \in T : m <= o
<1> DEFINE R == {ss \in Nat \X Nat : ss[1] < ss[2]}
<1>1. IsWellFoundedOn(R, Nat)
  BY NatLessThanWellFounded DEF OpToRel
<1> HIDE DEF R
<1>2. \E m \in T : \A o \in T : <<o, m>> \notin R
  BY <1>1, WFMin
<1>3. PICK m \in T : \A o \in T : <<o, m>> \notin R
  BY <1>2
<1>4. \A o \in T : ~(o < m)
  BY <1>3 DEF R
<1> QED
  BY <1>3, <1>4

\* How often s is in bag b.
CountIn(b, s) == IF s \in BagToSet(b) THEN b[s] ELSE 0

BagOfNats(b) == BagToSet(b) \subseteq Nat /\ b \in [BagToSet(b) -> Nat \ {0}]

\* What register does to the census.
LEMMA BagGains ==
    ASSUME NEW b, BagOfNats(b), NEW s \in Nat
    PROVE  LET b2 == b (+) SetToBag({s})
           IN  /\ BagOfNats(b2) /\ BagToSet(b2) = BagToSet(b) \union {s}
               /\ \A t \in Nat : CountIn(b2, t) = CountIn(b, t) + (IF t = s THEN 1 ELSE 0)
<1> DEFINE b2 == b (+) SetToBag({s})
<1>1. DOMAIN b2 = DOMAIN b \union {s}
  BY DEF (+), SetToBag, BagToSet
<1>2. b2 = [e \in DOMAIN b2 |-> (IF e \in DOMAIN b THEN b[e] ELSE 0) + (IF e = s THEN 1 ELSE 0)]
  BY <1>1 DEF (+), SetToBag, BagToSet
<1> QED
  BY <1>1, <1>2 DEF BagOfNats, BagToSet, CountIn

\* What unregister does to it.
LEMMA BagLoses ==
    ASSUME NEW b, BagOfNats(b), NEW s \in BagToSet(b)
    PROVE  LET b2 == Counted(b, s)
           IN  /\ BagOfNats(b2) /\ BagToSet(b2) \subseteq BagToSet(b)
               /\ \A t \in Nat : CountIn(b2, t) = CountIn(b, t) - (IF t = s THEN 1 ELSE 0)
<1> DEFINE one == SetToBag({s})
           B == [e \in DOMAIN b |-> IF e \in DOMAIN one THEN b[e] - one[e] ELSE b[e]]
           b2 == Counted(b, s)
<1>1. \A e \in DOMAIN b : B[e] = b[e] - (IF e = s THEN 1 ELSE 0)
  BY DEF SetToBag, BagToSet, BagOfNats
<1>2. b2 = [e \in {d \in DOMAIN b : B[d] > 0} |-> B[e]]
  BY DEF Counted, (-), BagToSet
<1> HIDE DEF B
<1> QED
  BY <1>1, <1>2 DEF BagOfNats, BagToSet, CountIn

-------------------------------------------------------------------------------
\* Views and the census

\* What is true of a call at each of its steps.
Frame(cl) ==
    /\ cl.op \in Ops
    /\ cl.kind = "cell" => cl.drop = None /\ cl.into = None
    /\ cl.kind = "view" =>
          /\ cl.on \in View /\ cl.start \in Nat /\ cl.at \in Nat /\ cl.into \in View \union {None}
          /\ cl.tail \in Nat \union {None} /\ cl.drop \in Nat \union {None}
          /\ cl.op \in Walking => cl.prim \in {"is_empty", "car", "cdr"}
          /\ cl.op \notin Walking => /\ cl.prim = cl.op /\ cl.at = cl.start
                                     /\ cl.tail = None /\ cl.drop = None

\* What is true of a call of a view at its step.
Stage(cl) == cl.kind = "view" =>
    /\ cl.step \in Reading \union {"register"} =>
          /\ cl.drop = None /\ ~cl.ending
          /\ cl.tail = cl.at \/ (cl.tail = None /\ cl.at = cl.start)
    /\ cl.step = "register" => cl.op \in Walking \union {"cdr", "clone"}
    /\ cl.step = "unregister" => \/ cl.op = "drop"
                                 \/ /\ cl.op \in Walking /\ cl.drop \in Nat
                                    /\ cl.ending => cl.tail = None
    /\ cl.step = "done" => cl.drop = None /\ cl.tail = None

Staged(cl) == Frame(cl) /\ Stage(cl)

\* e follows cl in the same call, and has the views of the tail that cl had.
Hands(cl, e) ==
    \/ e.drop = cl.drop /\ (cl.kind = "view" => e.tail = cl.tail)
    \/ cl.kind = "view" /\ cl.drop = None /\ e.drop = cl.tail /\ e.tail = None

Follows(cl, e) ==
    /\ e.kind = cl.kind /\ e.op = cl.op /\ e.on = cl.on /\ e.start = cl.start /\ e.into = cl.into
    /\ Hands(cl, e)

\* What a call does next hands on its views of the tail.
LEMMA EndedFollows ==
    ASSUME NEW cl, Shape(cl), Frame(cl), cl.drop = None, NEW a
    PROVE  Follows(cl, Ended(cl, a)) /\ Staged(Ended(cl, a))
<1> DEFINE e == Ended(cl, a)
<1>1. CASE cl.kind = "view" /\ cl.tail # None
  <2>1. /\ e.kind = cl.kind /\ e.op = cl.op /\ e.on = cl.on /\ e.start = cl.start /\ e.into = cl.into
        /\ e.at = cl.at /\ e.prim = cl.prim /\ e.drop = cl.tail /\ e.tail = None
        /\ e.step = "unregister"
    BY <1>1 DEF Ended, Shape, Fields
  <2> HIDE DEF e
  <2>2. Frame(e) /\ Stage(e) /\ Follows(cl, e)
    BY <1>1, <2>1 DEF Follows, Hands, Frame, Stage, Reading
  <2> QED
    BY <2>2 DEF Staged, e
<1>2. CASE ~(cl.kind = "view" /\ cl.tail # None)
  <2>1. /\ e.kind = cl.kind /\ e.op = cl.op /\ e.on = cl.on /\ e.start = cl.start /\ e.into = cl.into
        /\ e.at = cl.at /\ e.prim = cl.prim /\ e.drop = cl.drop /\ e.tail = cl.tail
        /\ e.step = "done"
    BY <1>2 DEF Ended, Shape, Fields
  <2> HIDE DEF e
  <2>2. Frame(e) /\ Stage(e) /\ Follows(cl, e)
    BY <1>2, <2>1 DEF Follows, Hands, Frame, Stage, Reading
  <2> QED
    BY <2>2 DEF Staged, e
<1> QED
  BY <1>1, <1>2

LEMMA WalkedFollows ==
    ASSUME NEW cl, Shape(cl), Frame(cl), cl.drop = None, cl.op \in Walking,
           cl.kind = "view" => ~cl.ending
    PROVE  Follows(cl, Walked(cl)) /\ Staged(Walked(cl))
<1>1. CASE cl.head = None \/ cl.left = 0
  <2>1. Walked(cl) = Ended(cl, IF cl.op = "get" THEN cl.head ELSE None)
    BY <1>1 DEF Walked
  <2> QED
    BY <2>1, EndedFollows
<1>2. CASE ~(cl.head = None \/ cl.left = 0)
  <2> DEFINE visited == [cl EXCEPT !.left = @ - 1, !.out = Append(@, cl.head)]
  <2>1. Shape(visited) /\ Frame(visited) /\ Follows(cl, visited) /\ visited.drop = None
        /\ visited.tail = cl.tail /\ visited.op \in Walking /\ visited.ending = cl.ending
    BY DEF Shape, Fields, Frame, Follows, Hands
  <2>2. Walked(cl) = IF cl.tail \notin Nat THEN Ended(visited, None)
                     ELSE IF cl.kind = "cell"
                     THEN [visited EXCEPT !.prim = "car", !.at = cl.tail, !.step = "force"]
                     ELSE [visited EXCEPT !.prim = "is_empty", !.at = cl.tail, !.step = "lock"]
    BY <1>2 DEF Walked
  <2> HIDE DEF visited
  <2>3. CASE cl.tail \notin Nat
    <3>1. Follows(visited, Ended(visited, None)) /\ Staged(Ended(visited, None))
      BY <2>1, EndedFollows
    <3>2. Follows(cl, Ended(visited, None))
      BY <2>1, <3>1 DEF Follows, Hands
    <3> QED
      BY <2>2, <2>3, <3>1, <3>2
  <2>4. CASE cl.tail \in Nat
    <3> DEFINE e == Walked(cl)
    <3>1. /\ e.kind = cl.kind /\ e.op = cl.op /\ e.on = cl.on /\ e.start = cl.start /\ e.into = cl.into
          /\ e.at = cl.tail /\ e.drop = None /\ e.tail = cl.tail
          /\ cl.kind = "view" => e.prim = "is_empty" /\ e.step = "lock" /\ ~e.ending
      <4>1. /\ visited.kind = cl.kind /\ visited.op = cl.op /\ visited.on = cl.on
            /\ visited.start = cl.start /\ visited.into = cl.into
        BY <2>1 DEF Follows
      <4>2. CASE cl.kind = "cell"
        <5>1. e = [visited EXCEPT !.prim = "car", !.at = cl.tail, !.step = "force"]
          BY <2>2, <2>4, <4>2
        <5> HIDE DEF e
        <5> QED
          BY <2>1, <4>1, <4>2, <5>1 DEF Shape, Fields
      <4>3. CASE cl.kind # "cell"
        <5>1. e = [visited EXCEPT !.prim = "is_empty", !.at = cl.tail, !.step = "lock"]
          BY <2>2, <2>4, <4>3
        <5> HIDE DEF e
        <5> QED
          BY <2>1, <4>1, <5>1 DEF Shape, Fields
      <4> QED
        BY <4>2, <4>3
    <3> HIDE DEF e
    <3>2. Frame(e)
      BY <2>4, <3>1 DEF Frame
    <3>3. Stage(e) /\ Follows(cl, e)
      BY <2>4, <3>1 DEF Stage, Follows, Hands, Reading
    <3> QED
      BY <3>2, <3>3 DEF Staged, e
  <2> QED
    BY <2>3, <2>4
<1> QED
  BY <1>1, <1>2

LEMMA ContinuedFollows ==
    ASSUME NEW cl, Shape(cl), Staged(cl), cl.drop = None, NEW r,
           cl.kind = "view" => cl.step \in Reading
    PROVE  Follows(cl, Continued(cl, r)) /\ Staged(Continued(cl, r))
<1> DEFINE e == Continued(cl, r)
<1>0. Frame(cl)
  BY DEF Staged
<1>1. CASE cl.op \notin Walking
  BY <1>0, <1>1, EndedFollows DEF Continued, Walking
<1>2. CASE cl.op \in Walking /\ cl.prim = "is_empty" /\ r = 0
  BY <1>0, <1>2, EndedFollows DEF Continued, Walking
<1>3. CASE cl.op \in Walking /\ ((cl.prim = "is_empty" /\ r # 0) \/ cl.prim = "car")
  <2>1. /\ e.kind = cl.kind /\ e.op = cl.op /\ e.on = cl.on /\ e.start = cl.start /\ e.into = cl.into
        /\ e.at = cl.at /\ e.drop = cl.drop /\ e.tail = cl.tail /\ e.prim \in {"car", "cdr"}
        /\ cl.kind = "view" => e.step = "lock" /\ e.ending = cl.ending
    BY <1>3 DEF Shape, Fields, Continued, Walking
  <2> HIDE DEF e
  <2>2. Frame(e) /\ Stage(e) /\ Follows(cl, e)
    BY <1>3, <2>1 DEF Frame, Stage, Follows, Hands, Staged, Reading
  <2> QED
    BY <2>2 DEF Staged, e
<1>4. CASE cl.op \in Walking /\ cl.prim = "cdr" /\ cl.kind = "cell"
  <2> DEFINE w == [cl EXCEPT !.tail = r]
  <2>1. e = Walked(w)
    BY <1>4 DEF Continued, Walking
  <2>2. Shape(w) /\ Frame(w) /\ Follows(cl, w) /\ w.drop = None /\ w.op \in Walking
    BY <1>0, <1>4 DEF Shape, Fields, Frame, Follows, Hands
  <2>4. w.kind = "cell"
    BY <1>4 DEF Shape, Fields
  <2> HIDE DEF w
  <2>3. Follows(w, e) /\ Staged(e)
    BY <2>1, <2>2, <2>4, WalkedFollows
  <2> QED
    BY <1>4, <2>2, <2>3 DEF Follows, Hands
<1>5. CASE cl.op \in Walking /\ cl.prim = "cdr" /\ cl.kind = "view" /\ cl.tail = None
  <2>1. ~cl.ending
    BY <1>5 DEF Staged, Stage
  <2> QED
    BY <1>0, <1>5, <2>1, WalkedFollows DEF Continued, Walking
<1>6. CASE cl.op \in Walking /\ cl.prim = "cdr" /\ cl.kind = "view" /\ cl.tail # None
  <2>1. /\ e.kind = cl.kind /\ e.op = cl.op /\ e.on = cl.on /\ e.start = cl.start /\ e.into = cl.into
        /\ e.at = cl.at /\ e.drop = cl.tail /\ e.tail = None /\ e.prim = "cdr" /\ e.step = "unregister"
    BY <1>6 DEF Shape, Fields, Continued, Walking
  <2> HIDE DEF e
  <2>2. Frame(e) /\ Stage(e) /\ Follows(cl, e)
    BY <1>0, <1>6, <2>1 DEF Frame, Stage, Follows, Hands, Reading
  <2> QED
    BY <2>2 DEF Staged, e
<1>7. cl.op \in Walking => cl.prim \in {"is_empty", "car", "cdr"}
  BY <1>0 DEF Frame, Shape
<1> QED
  BY <1>1, <1>2, <1>3, <1>4, <1>5, <1>6, <1>7 DEF Shape

-------------------------------------------------------------------------------
\* Who has a view that starts at s: callers of the list, and calls, as a tail or to drop it.
Views(s) == {v \in View : view[v] = s}
Tails(s) == {c \in Caller : call[c] # Idle /\ call[c].kind = "view" /\ call[c].tail = s}
Drops(s) == {c \in Caller : call[c] # Idle /\ call[c].drop = s}

\* The census counts them.
Census == /\ BagOfNats(live)
          /\ \A s \in Nat : CountIn(live, s) = Cardinality(Views(s)) + Cardinality(Tails(s))
                                                + Cardinality(Drops(s))

Typed == /\ \A c \in Caller : call[c] # Idle => Staged(call[c])
         /\ view \in [View -> Nat \union {Gone}]
         /\ buffer \in Seq(Nat) /\ base \in Nat /\ made \in Nat

\* The call is of a view that exists.
Using(cl) == cl.kind = "view" /\ (cl.op = "drop" => cl.step # "done")

Used == \A c \in Caller : call[c] # Idle /\ Using(call[c]) => view[call[c].on] = call[c].start

\* A view is dropped when nobody uses it.
DropsAlone == \A c, d \in Caller :
    call[c] # Idle /\ call[d] # Idle /\ c # d /\ call[c].kind = "view" /\ call[c].op = "drop"
          /\ call[d].kind = "view" => call[c].on # call[d].on

\* The call makes a view, in a place that nobody else has.
Making(cl) == cl.kind = "view" /\ cl.op \in {"cdr", "clone"}

Reserved ==
    /\ \A c \in Caller : call[c] # Idle /\ Making(call[c]) =>
          call[c].into \in View /\ (call[c].step # "done" => view[call[c].into] = Gone)
    /\ \A c, d \in Caller :
          call[c] # Idle /\ call[d] # Idle /\ c # d /\ call[c].into \in View =>
             call[c].into # call[d].into

\* What cdr registers is in the buffer.
Room == \A c \in Caller :
    call[c] # Idle /\ call[c].step = "register" /\ call[c].op # "clone" => call[c].at < Filled

\* What is in the buffer is what views can reach.
Covered == /\ \A s \in BagToSet(live) : base <= s /\ s <= Filled
           /\ BagToSet(live) = {} => buffer = <<>>
           /\ BagToSet(live) # {} => base \in BagToSet(live)

VInv == LInv /\ Typed /\ Census /\ Used /\ DropsAlone /\ Reserved /\ Room /\ Covered

-------------------------------------------------------------------------------
\* Counting

LEMMA Groups ==
    ASSUME NEW s
    PROVE  /\ IsFiniteSet(Views(s)) /\ IsFiniteSet(Tails(s)) /\ IsFiniteSet(Drops(s))
           /\ Cardinality(Views(s)) \in Nat /\ Cardinality(Tails(s)) \in Nat
           /\ Cardinality(Drops(s)) \in Nat
<1>1. IsFiniteSet(Views(s)) /\ IsFiniteSet(Tails(s)) /\ IsFiniteSet(Drops(s))
  BY ListBounds, FS_Subset DEF Views, Tails, Drops
<1> QED
  BY <1>1, FS_CardinalityType

LEMMA GroupsAfter ==
    ASSUME NEW s
    PROVE  /\ IsFiniteSet(Views(s)') /\ IsFiniteSet(Tails(s)') /\ IsFiniteSet(Drops(s)')
           /\ Cardinality(Views(s)') \in Nat /\ Cardinality(Tails(s)') \in Nat
           /\ Cardinality(Drops(s)') \in Nat
<1>1. IsFiniteSet(Views(s)') /\ IsFiniteSet(Tails(s)') /\ IsFiniteSet(Drops(s)')
  BY ListBounds, FS_Subset DEF Views, Tails, Drops
<1> QED
  BY <1>1, FS_CardinalityType

\* Two sets that differ at most in x.
LEMMA OneApart ==
    ASSUME NEW A, NEW B, NEW x, IsFiniteSet(A), IsFiniteSet(B), A \ {x} = B \ {x}
    PROVE  Cardinality(B) = Cardinality(A) - (IF x \in A THEN 1 ELSE 0) + (IF x \in B THEN 1 ELSE 0)
<1>1. Cardinality(A) \in Nat /\ Cardinality(B) \in Nat
  BY FS_CardinalityType
<1>2. /\ Cardinality(A \ {x}) = IF x \in A THEN Cardinality(A) - 1 ELSE Cardinality(A)
      /\ Cardinality(B \ {x}) = IF x \in B THEN Cardinality(B) - 1 ELSE Cardinality(B)
  BY FS_RemoveElement
<1> QED
  BY <1>1, <1>2

\* How often a call has a view of the tail that starts at s.
Claims(cl, s) == (IF cl # Idle /\ cl.kind = "view" /\ cl.tail = s THEN 1 ELSE 0)
                 + (IF cl # Idle /\ cl.drop = s THEN 1 ELSE 0)

\* The tails that calls have, when c goes on.
LEMMA ClaimsCount ==
    ASSUME NEW c \in Caller, Shapes, NEW e, To(c, e), NEW s
    PROVE  (Cardinality(Tails(s)) + Cardinality(Drops(s)))' =
              Cardinality(Tails(s)) + Cardinality(Drops(s)) - Claims(call[c], s) + Claims(e, s)
<1>1. call'[c] = e /\ \A d \in Caller \ {c} : call'[d] = call[d]
  BY DEF Shapes, To
<1>2. Tails(s) \ {c} = Tails(s)' \ {c} /\ Drops(s) \ {c} = Drops(s)' \ {c}
  BY <1>1 DEF Tails, Drops
<1>3. /\ IsFiniteSet(Tails(s)) /\ IsFiniteSet(Drops(s))
      /\ Cardinality(Tails(s)) \in Nat /\ Cardinality(Drops(s)) \in Nat
  BY Groups
<1>4. /\ IsFiniteSet(Tails(s)') /\ IsFiniteSet(Drops(s)')
  BY ListBounds, FS_Subset DEF Tails, Drops
<1>5. /\ Cardinality(Tails(s)') = Cardinality(Tails(s)) - (IF c \in Tails(s) THEN 1 ELSE 0)
                                  + (IF c \in Tails(s)' THEN 1 ELSE 0)
      /\ Cardinality(Drops(s)') = Cardinality(Drops(s)) - (IF c \in Drops(s) THEN 1 ELSE 0)
                                  + (IF c \in Drops(s)' THEN 1 ELSE 0)
  BY <1>2, <1>3, <1>4, OneApart
<1>6. /\ c \in Tails(s) <=> call[c] # Idle /\ call[c].kind = "view" /\ call[c].tail = s
      /\ c \in Drops(s) <=> call[c] # Idle /\ call[c].drop = s
  BY DEF Tails, Drops
<1>7. /\ c \in Tails(s)' <=> e # Idle /\ e.kind = "view" /\ e.tail = s
      /\ c \in Drops(s)' <=> e # Idle /\ e.drop = s
  BY <1>1 DEF Tails, Drops
<1> HIDE DEF Tails, Drops
<1> QED
  BY <1>3, <1>5, <1>6, <1>7 DEF Claims

LEMMA SameClaims ==
    ASSUME NEW cl, NEW e, cl # Idle, e # Idle, Follows(cl, e), NEW s \in Nat
    PROVE  Claims(e, s) = Claims(cl, s)
<1>1. None # s
  BY ListSentinels
<1>2. CASE e.drop = cl.drop /\ (cl.kind = "view" => e.tail = cl.tail)
  BY <1>2 DEF Follows, Claims
<1>3. CASE cl.kind = "view" /\ cl.drop = None /\ e.drop = cl.tail /\ e.tail = None
  BY <1>1, <1>3 DEF Follows, Claims
<1> QED
  BY <1>2, <1>3 DEF Follows, Hands

\* Who is in the census.
LEMMA CensusMembers ==
    ASSUME Census, NEW s \in Nat
    PROVE  s \in BagToSet(live) <=> Views(s) # {} \/ Tails(s) # {} \/ Drops(s) # {}
<1>1. s \in BagToSet(live) <=> CountIn(live, s) # 0
  BY DEF CountIn, Census, BagOfNats
<1>2. /\ IsFiniteSet(Views(s)) /\ IsFiniteSet(Tails(s)) /\ IsFiniteSet(Drops(s))
      /\ Cardinality(Views(s)) \in Nat /\ Cardinality(Tails(s)) \in Nat
      /\ Cardinality(Drops(s)) \in Nat
  BY Groups
<1>3. /\ Views(s) = {} <=> Cardinality(Views(s)) = 0
      /\ Tails(s) = {} <=> Cardinality(Tails(s)) = 0
      /\ Drops(s) = {} <=> Cardinality(Drops(s)) = 0
  BY <1>2, FS_EmptySet
<1>4. CountIn(live, s) = Cardinality(Views(s)) + Cardinality(Tails(s)) + Cardinality(Drops(s))
  BY DEF Census
<1>5. CountIn(live, s) = 0 <=> /\ Cardinality(Views(s)) = 0 /\ Cardinality(Tails(s)) = 0
                               /\ Cardinality(Drops(s)) = 0
  BY <1>2, <1>4
<1> QED
  BY <1>1, <1>3, <1>5

\* A call of a view that exists is of a view that the census counts.
LEMMA ItsView ==
    ASSUME VInv, NEW c \in Caller, call[c] # Idle, Using(call[c])
    PROVE  /\ call[c].start \in BagToSet(live) /\ call[c].start \in Nat /\ call[c].on \in View
           /\ view[call[c].on] = call[c].start
<1>1. call[c].on \in View /\ call[c].start \in Nat
  BY DEF VInv, Typed, Staged, Frame, Using
<1>2. view[call[c].on] = call[c].start
  BY DEF VInv, Used
<1>3. Views(call[c].start) # {}
  BY <1>1, <1>2 DEF Views
<1> QED
  BY <1>1, <1>2, <1>3, CensusMembers DEF VInv

-------------------------------------------------------------------------------
\* A call goes on, and the views are as they were.
LEMMA QuietStep ==
    ASSUME VInv, LInv', NEW c \in Caller, call[c] # Idle, call[c].step # "done",
           NEW e, To(c, e), Shape(e), Follows(call[c], e), Staged(e),
           UNCHANGED <<live, view, base>>, made' \in Nat, buffer' \in Seq(Nat), Len(buffer) <= Len(buffer'),
           buffer' # buffer => call[c].kind = "view" /\ call[c].op # "drop",
           e.step = "register" /\ e.op # "clone" => e.at < Filled
    PROVE  VInv'
<1>0. Len(buffer) \in Nat /\ Len(buffer') \in Nat /\ base \in Nat /\ Filled <= Filled' /\ Filled \in Nat
      /\ Filled' \in Nat
  BY DEF VInv, Typed, Filled
<1>1. call'[c] = e /\ e # Idle /\ \A d \in Caller \ {c} : call'[d] = call[d]
  BY ShapeIsNotIdle DEF VInv, LInv, Shapes, To
<1>2. /\ e.kind = call[c].kind /\ e.op = call[c].op /\ e.on = call[c].on /\ e.start = call[c].start
      /\ e.into = call[c].into
  BY DEF Follows
<1>3. Typed'
  BY <1>1 DEF VInv, Typed
<1>4. Census'
  <2> SUFFICES ASSUME NEW s \in Nat
               PROVE  CountIn(live, s)' = Cardinality(Views(s)') + Cardinality(Tails(s)')
                                            + Cardinality(Drops(s)')
    BY DEF VInv, Census
  <2>1. Cardinality(Tails(s)') + Cardinality(Drops(s)') =
              Cardinality(Tails(s)) + Cardinality(Drops(s)) - Claims(call[c], s) + Claims(e, s)
    BY ClaimsCount DEF VInv, LInv
  <2>2. Claims(e, s) = Claims(call[c], s) /\ Claims(e, s) \in Nat
    BY <1>1, SameClaims DEF Claims
  <2>3. Views(s)' = Views(s) /\ CountIn(live, s)' = CountIn(live, s)
    BY DEF Views, CountIn
  <2>4. CountIn(live, s) = Cardinality(Views(s)) + Cardinality(Tails(s)) + Cardinality(Drops(s))
    BY DEF VInv, Census
  <2>5. /\ Cardinality(Views(s)) \in Nat /\ Cardinality(Tails(s)) \in Nat
        /\ Cardinality(Drops(s)) \in Nat
    BY Groups
  <2>6. /\ Cardinality(Views(s)') = Cardinality(Views(s))
        /\ Cardinality(Tails(s)') \in Nat /\ Cardinality(Drops(s)') \in Nat
    BY <2>3, GroupsAfter
  <2>7. Cardinality(Tails(s)') + Cardinality(Drops(s)') = Cardinality(Tails(s)) + Cardinality(Drops(s))
    BY <2>1, <2>2, <2>5
  <2> DEFINE n == Cardinality(Tails(s)) + Cardinality(Drops(s))
             m == Cardinality(Tails(s)') + Cardinality(Drops(s)')
  <2>8. /\ n \in Nat /\ m = n /\ CountIn(live, s) = Cardinality(Views(s)) + n
        /\ Cardinality(Views(s)') + m = Cardinality(Views(s)') + Cardinality(Tails(s)')
                                             + Cardinality(Drops(s)')
    BY <2>4, <2>5, <2>6, <2>7
  <2> HIDE DEF n, m
  <2> QED
    BY <2>3, <2>6, <2>8
<1>5. Used' /\ DropsAlone'
  BY <1>1, <1>2 DEF VInv, Used, DropsAlone, Using
<1>6. Reserved'
  BY <1>1, <1>2 DEF VInv, Reserved, Making
<1>7. Room'
  <2> SUFFICES ASSUME NEW d \in Caller, call'[d] # Idle, call'[d].step = "register", call'[d].op # "clone"
               PROVE  call'[d].at < Filled'
    BY DEF Room
  <2>1. Shape(call'[d]) /\ Staged(call'[d])
    BY <1>3 DEF LInv, Shapes, Typed
  <2>2. call'[d].at \in Nat
    BY <2>1 DEF Shape, Staged, Frame
  <2>3. call'[d].at < Filled
    BY <1>1 DEF VInv, Room
  <2> QED
    BY <1>0, <2>2, <2>3
<1>8. Covered'
  <2>1. buffer' # buffer => BagToSet(live) # {}
    BY ItsView DEF Using
  <2>2. BagToSet(live) \subseteq Nat
    BY DEF VInv, Census, BagOfNats
  <2> QED
    BY <1>0, <2>1, <2>2 DEF VInv, Covered
<1> QED
  BY <1>3, <1>4, <1>5, <1>6, <1>7, <1>8 DEF VInv

\* The list is as it was, too.
LEMMA QuietCall ==
    ASSUME VInv, LInv', NEW c \in Caller, call[c] # Idle, call[c].step # "done",
           NEW e, To(c, e), Shape(e), Follows(call[c], e), Staged(e),
           UNCHANGED <<live, view, base, made, buffer>>,
           e.step = "register" /\ e.op # "clone" => e.at < Filled
    PROVE  VInv'
<1>1. made' \in Nat /\ buffer' \in Seq(Nat) /\ Len(buffer) <= Len(buffer') /\ buffer' = buffer
  BY DEF VInv, Typed
<1> QED
  BY <1>1, QuietStep

\* A call that goes on reading.
LEMMA ReadsOn ==
    ASSUME NEW cl, Shape(cl), Staged(cl), cl.step \in Reading, NEW e, e.step \in Reading,
           e.kind = cl.kind, e.op = cl.op, e.on = cl.on, e.start = cl.start, e.into = cl.into,
           cl.kind = "view" => e.at = cl.at, e.prim = cl.prim, e.tail = cl.tail, e.drop = cl.drop,
           e.ending = cl.ending
    PROVE  Follows(cl, e) /\ Staged(e)
<1>1. Frame(e) /\ Follows(cl, e)
  BY DEF Staged, Frame, Follows, Hands
<1>2. Stage(e)
  BY DEF Staged, Stage, Frame, Reading
<1> QED
  BY <1>1, <1>2 DEF Staged

\* A view in use is not being dropped.
LEMMA NotDropped ==
    ASSUME NEW cl, Shape(cl), Staged(cl), cl.step \in Reading
    PROVE  cl.drop = None /\ Frame(cl) /\ (cl.kind = "view" => cl.op # "drop")
BY DEF Shape, Staged, Frame, Stage, Reading, Walking

LEMMA LockViews == ASSUME VInv, LInv', NEW c \in Caller, Lock(c) PROVE VInv'
<1> DEFINE e == IF poisoned THEN Ended(call[c], Error) ELSE [call[c] EXCEPT !.step = "fill"]
<1>0. call[c] # Idle /\ Shape(call[c]) /\ Staged(call[c]) /\ call[c].step = "lock"
  BY DEF VInv, LInv, Shapes, Typed, Lock
<1>1. /\ To(c, e) /\ UNCHANGED <<live, view, base, made, buffer>>
  BY DEF Lock, spine, census
<1>2. Shape(e) /\ Follows(call[c], e) /\ Staged(e) /\ e.step # "register"
  <2>1. CASE poisoned
    BY <1>0, <2>1, EndedShape, EndedFollows, NotDropped DEF Reading
  <2>2. CASE ~poisoned
    <3>1. /\ Shape(e) /\ e.step = "fill" /\ e.kind = call[c].kind /\ e.op = call[c].op
          /\ e.on = call[c].on /\ e.start = call[c].start /\ e.into = call[c].into
          /\ e.at = call[c].at /\ e.prim = call[c].prim /\ e.tail = call[c].tail
          /\ e.drop = call[c].drop /\ e.ending = call[c].ending
      BY <1>0, <2>2 DEF Shape, Fields, StepNames, Reading
    <3> HIDE DEF e
    <3> QED
      BY <1>0, <3>1, ReadsOn DEF Reading
  <2> QED
    BY <2>1, <2>2
<1> HIDE DEF e
<1> QED
  BY <1>0, <1>1, <1>2, QuietCall

LEMMA FeedViews == ASSUME VInv, LInv', NEW c \in Caller, Feed(c) PROVE VInv'
<1> DEFINE cl == call[c]
<1>0. /\ cl # Idle /\ Shape(cl) /\ Staged(cl) /\ cl.step = "fill" /\ cl.kind = "view"
      /\ UNCHANGED <<live, view, base, made, buffer>>
      /\ next \in {Iter, None, Nil, Odd} \union Cell
  BY DEF VInv, LInv, Shapes, Typed, Feed, census, Shape
<1> HIDE DEF cl
<1>1. CASE next = Iter \/ next \in Cell
  <2> DEFINE e == IF next = Iter THEN [cl EXCEPT !.step = "feed"]
                  ELSE [cl EXCEPT !.step = "force", !.cell = next, !.part = "head"]
  <2>1. To(c, e)
    BY <1>1, SourcesDiffer DEF Feed, cl
  <2>2. /\ Shape(e) /\ e.step \in {"feed", "force"} /\ e.kind = cl.kind /\ e.op = cl.op
        /\ e.on = cl.on /\ e.start = cl.start /\ e.into = cl.into
        /\ e.at = cl.at /\ e.prim = cl.prim /\ e.tail = cl.tail
        /\ e.drop = cl.drop /\ e.ending = cl.ending
    BY <1>0, <1>1, OneIsCell DEF Shape, Fields, StepNames, Reading
  <2> HIDE DEF e
  <2>3. Follows(cl, e) /\ Staged(e)
    BY <1>0, <2>2, ReadsOn DEF Reading
  <2> QED
    BY <1>0, <2>1, <2>2, <2>3, QuietCall DEF cl
<1>2. CASE next \in {None, Nil}
  <2>1. UNCHANGED call
    BY <1>2, SourcesDiffer DEF Feed
  <2> QED
    BY <1>0, <2>1 DEF VInv, Typed, Census, CountIn, Views, Tails, Drops, Used, DropsAlone,
                      Reserved, Room, Covered, Filled
<1>3. CASE next = Odd
  <2> DEFINE e == Ended(cl, Error)
  <2>1. To(c, e)
    BY <1>3, SourcesDiffer DEF Feed, Fails, cl
  <2>2. Shape(e) /\ Follows(cl, e) /\ Staged(e) /\ e.step # "register"
    BY <1>0, EndedShape, EndedFollows, NotDropped DEF Reading
  <2> HIDE DEF e
  <2> QED
    BY <1>0, <2>1, <2>2, QuietCall DEF cl
<1> QED
  BY <1>0, <1>1, <1>2, <1>3

LEMMA IteratorViews == ASSUME VInv, LInv', NEW c \in Caller, IteratorAnswers(c) PROVE VInv'
<1> DEFINE cl == call[c]
<1>0. /\ cl # Idle /\ Shape(cl) /\ Staged(cl) /\ cl.step = "feed" /\ cl.kind = "view"
      /\ cl.op # "drop" /\ UNCHANGED <<live, view, base>>
  BY NotDropped DEF VInv, LInv, Shapes, Typed, IteratorAnswers, census, Shape, Reading
<1>1. /\ made' \in Nat /\ buffer' \in Seq(Nat) /\ Len(buffer) <= Len(buffer')
  <2>1. made \in Nat /\ buffer \in Seq(Nat)
    BY DEF VInv, Typed
  <2>2. CASE made' = made + 1 /\ buffer' = Append(buffer, made)
    BY <2>1, <2>2
  <2>3. CASE UNCHANGED <<made, buffer>>
    BY <2>1, <2>3
  <2>4. (made' = made + 1 /\ buffer' = Append(buffer, made)) \/ UNCHANGED <<made, buffer>>
    BY DEF IteratorAnswers
  <2> QED
    BY <2>2, <2>3, <2>4
<1> HIDE DEF cl
<1>2. CASE To(c, [cl EXCEPT !.step = "fill"])
  <2> DEFINE e == [cl EXCEPT !.step = "fill"]
  <2>2. /\ Shape(e) /\ e.step = "fill" /\ e.kind = cl.kind /\ e.op = cl.op
        /\ e.on = cl.on /\ e.start = cl.start /\ e.into = cl.into
        /\ e.at = cl.at /\ e.prim = cl.prim /\ e.tail = cl.tail
        /\ e.drop = cl.drop /\ To(c, e) /\ e.ending = cl.ending
    BY <1>0, <1>2 DEF Shape, Fields, StepNames, Reading
  <2> HIDE DEF e
  <2>3. Follows(cl, e) /\ Staged(e)
    BY <1>0, <2>2, ReadsOn DEF Reading
  <2> QED
    BY <1>0, <1>1, <2>2, <2>3, QuietStep DEF cl
<1>3. CASE To(c, Ended(cl, Error))
  <2>2. Shape(Ended(cl, Error)) /\ Follows(cl, Ended(cl, Error)) /\ Staged(Ended(cl, Error))
        /\ Ended(cl, Error).step # "register"
    BY <1>0, EndedShape, EndedFollows, NotDropped DEF Reading
  <2> QED
    BY <1>0, <1>1, <1>3, <2>2, QuietStep DEF cl
<1> QED
  BY <1>2, <1>3 DEF IteratorAnswers, Fails, cl

LEMMA FillingViews == ASSUME VInv, LInv', NEW c \in Caller, Filling(c) PROVE VInv'
<1> DEFINE cl == call[c]
<1>0. /\ cl # Idle /\ Shape(cl) /\ Staged(cl) /\ cl.step = "fill" /\ cl.kind = "view"
      /\ UNCHANGED <<live, view, base, made, buffer>>
  BY DEF VInv, LInv, Shapes, Typed, Filling, census, spine, Shape
<1>1. cl.prim \in {"is_empty", "car", "cdr", "len_cmp"}
  BY <1>0 DEF Shape, Reading
<1>2. PICK e : /\ To(c, e)
               /\ \/ \E r : e = Continued(cl, r)
                  \/ e = [cl EXCEPT !.step = "register"] /\ cl.prim = "cdr" /\ ~(Filled <= cl.at)
  <2>1. CASE cl.prim = "is_empty"
    BY <2>1 DEF Filling
  <2>2. CASE cl.prim = "car"
    BY <2>2 DEF Filling
  <2>3. CASE cl.prim = "cdr"
    BY <2>3 DEF Filling
  <2>4. CASE cl.prim = "len_cmp"
    BY <2>4 DEF Filling
  <2> QED
    BY <1>1, <2>1, <2>2, <2>3, <2>4
<1> HIDE DEF cl
<1>3. CASE \E r : e = Continued(cl, r)
  <2>1. Shape(e) /\ Follows(cl, e) /\ Staged(e) /\ e.step # "register"
    BY <1>0, <1>3, ContinuedShape, ContinuedFollows, NotDropped DEF Reading
  <2> QED
    BY <1>0, <1>2, <2>1, QuietCall DEF cl
<1>4. CASE e = [cl EXCEPT !.step = "register"] /\ cl.prim = "cdr" /\ ~(Filled <= cl.at)
  <2>1. /\ Shape(e) /\ e.step = "register" /\ e.kind = cl.kind /\ e.op = cl.op
        /\ e.on = cl.on /\ e.start = cl.start /\ e.into = cl.into
        /\ e.at = cl.at /\ e.prim = cl.prim /\ e.tail = cl.tail /\ e.drop = cl.drop
          /\ e.ending = cl.ending
    BY <1>0, <1>4 DEF Shape, Fields, StepNames, Reading
  <2>2. cl.drop = None /\ (cl.tail = cl.at \/ (cl.tail = None /\ cl.at = cl.start))
    BY <1>0 DEF Staged, Stage, Reading
  <2>3. Frame(e) /\ Stage(e) /\ Follows(cl, e)
    BY <1>0, <1>4, <2>1, <2>2 DEF Staged, Frame, Stage, Follows, Hands, Reading
  <2>4. e.at < Filled
    BY <1>0, <1>4, <2>1 DEF Staged, Frame, Filled, VInv, Typed
  <2> QED
    BY <1>0, <1>2, <2>1, <2>3, <2>4, QuietCall DEF cl, Staged
<1> QED
  BY <1>2, <1>3, <1>4

\* A part of a cell is there.
LEMMA GetsFollows ==
    ASSUME VInv, NEW c \in Caller, NEW cl, Shape(cl), Staged(cl), cl.step = "force", NEW r \in Kept,
           Gets(c, cl, r)
    PROVE  /\ \E e : To(c, e) /\ Shape(e) /\ Follows(cl, e) /\ Staged(e) /\ e.step # "register"
           /\ UNCHANGED <<base, made>> /\ buffer' \in Seq(Nat) /\ Len(buffer) <= Len(buffer')
           /\ buffer' # buffer => cl.kind = "view"
<1>0. cl.drop = None /\ Frame(cl)
  BY NotDropped DEF Reading
<1>1. CASE cl.kind = "cell"
  <2>1. PICK e : To(c, e) /\ e = IF r = Error THEN Ended(cl, Error) ELSE Continued(cl, r)
    BY <1>1 DEF Gets
  <2>2. Shape(e) /\ Follows(cl, e) /\ Staged(e) /\ e.step # "register"
    <3>1. CASE r = Error
      BY <1>0, <1>1, <2>1, <3>1, EndedShape, EndedFollows
    <3>2. CASE r # Error
      BY <1>0, <1>1, <2>1, <3>2, ContinuedShape, ContinuedFollows DEF Kept
    <3> QED
      BY <3>1, <3>2
  <2> QED
    BY <1>1, <2>1, <2>2 DEF Gets, spine, VInv, Typed
<1>2. CASE cl.kind = "view" /\ r = Error
  <2>1. To(c, Ended(cl, Error)) /\ UNCHANGED <<base, made, buffer>>
    BY <1>2 DEF Gets, Fails, spine
  <2>2. /\ Shape(Ended(cl, Error)) /\ Follows(cl, Ended(cl, Error)) /\ Staged(Ended(cl, Error))
        /\ Ended(cl, Error).step # "register"
    BY <1>0, EndedShape, EndedFollows
  <2> QED
    BY <2>1, <2>2 DEF VInv, Typed
<1>3. CASE cl.kind = "view" /\ r # Error
  <2> DEFINE e == IF cl.part = "head" THEN [cl EXCEPT !.part = "tail"] ELSE [cl EXCEPT !.step = "fill"]
  <2>1. /\ To(c, e) /\ UNCHANGED <<base, made>>
        /\ buffer' = IF cl.part = "head" THEN buffer ELSE Append(buffer, cl.cell)
    BY <1>3 DEF Gets, Streams, spine, Shape, Part
  <2>2. /\ Shape(e) /\ e.step \in {"force", "fill"} /\ e.kind = cl.kind /\ e.op = cl.op
        /\ e.on = cl.on /\ e.start = cl.start /\ e.into = cl.into
        /\ e.at = cl.at /\ e.prim = cl.prim /\ e.tail = cl.tail /\ e.drop = cl.drop
          /\ e.ending = cl.ending
    BY <1>3, OneIsCell DEF Shape, Fields, StepNames, Reading
  <2> HIDE DEF e
  <2>3. Follows(cl, e) /\ Staged(e)
    BY <2>2, ReadsOn DEF Reading
  <2>4. buffer' \in Seq(Nat) /\ Len(buffer) <= Len(buffer')
    BY <2>1, OneIsCell DEF VInv, Typed, Shape
  <2> QED
    BY <1>3, <2>1, <2>2, <2>3, <2>4
<1> QED
  BY <1>1, <1>2, <1>3 DEF Shape

LEMMA WantedFollows ==
    ASSUME NEW cl, Shape(cl), Staged(cl), cl.step = "force"
    PROVE  LET w == Wanted(cl)
           IN  /\ Shape(w) /\ Staged(w) /\ w.step = "force" /\ Follows(cl, w)
               /\ w.kind = cl.kind /\ w.drop = cl.drop /\ w.tail = cl.tail
<1> DEFINE w == Wanted(cl)
<1>1. /\ Shape(w) /\ w.step = "force" /\ w.kind = cl.kind
  BY WantedShape
<1>2. /\ w.op = cl.op /\ w.on = cl.on /\ w.start = cl.start /\ w.into = cl.into /\ w.at = cl.at
      /\ w.prim = cl.prim /\ w.tail = cl.tail /\ w.drop = cl.drop /\ w.ending = cl.ending
  BY DEF Wanted, Shape, Fields
<1> HIDE DEF w
<1>3. Follows(cl, w) /\ Staged(w)
  BY <1>1, <1>2, ReadsOn DEF Reading
<1> QED
  BY <1>1, <1>2, <1>3 DEF w

LEMMA AskViews == ASSUME VInv, LInv', NEW c \in Caller, Ask(c) PROVE VInv'
<1> DEFINE cl == Wanted(call[c])
           now == cache[cl.cell][cl.part]
<1>0. /\ call[c] # Idle /\ Shape(call[c]) /\ Staged(call[c]) /\ call[c].step = "force"
      /\ UNCHANGED <<live, view>>
  BY DEF VInv, LInv, Shapes, Typed, Ask, census
<1>1. /\ Shape(cl) /\ Staged(cl) /\ cl.step = "force" /\ Follows(call[c], cl)
      /\ cl.kind = call[c].kind /\ cl.drop = call[c].drop /\ cl.tail = call[c].tail
      /\ cl.cell \in Cell /\ cl.part \in Part
  BY <1>0, WantedFollows DEF Shape
<1>2. now \in Kept \union {Unforced} \union Caller
  BY <1>1 DEF VInv, LInv, Shapes
<1>3. /\ \E e : To(c, e) /\ Shape(e) /\ Follows(cl, e) /\ Staged(e) /\ e.step # "register"
      /\ UNCHANGED <<base, made>> /\ buffer' \in Seq(Nat) /\ Len(buffer) <= Len(buffer')
      /\ buffer' # buffer => cl.kind = "view"
  <2>1. CASE now = Unforced
    <3> DEFINE e == [cl EXCEPT !.step = "thunk"]
    <3>1. To(c, e) /\ UNCHANGED <<base, made, buffer>>
      BY <2>1 DEF Ask, spine
    <3>2. /\ Shape(e) /\ e.step = "thunk" /\ e.kind = cl.kind /\ e.op = cl.op
          /\ e.on = cl.on /\ e.start = cl.start /\ e.into = cl.into
          /\ e.at = cl.at /\ e.prim = cl.prim /\ e.tail = cl.tail /\ e.drop = cl.drop
          /\ e.ending = cl.ending
      BY <1>1 DEF Shape, Fields, StepNames, Reading
    <3> HIDE DEF e, cl, now
    <3>3. Follows(cl, e) /\ Staged(e)
      BY <1>1, <3>2, ReadsOn DEF Reading
    <3> QED
      BY <3>1, <3>2, <3>3 DEF VInv, Typed
  <2>2. CASE now # Unforced
    <3>1. now \in Kept /\ Gets(c, cl, now)
      BY <1>2, <2>2 DEF Ask
    <3> QED
      BY <1>1, <3>1, GetsFollows
  <2> QED
    BY <2>1, <2>2
<1> HIDE DEF cl, now
<1>4. PICK e : To(c, e) /\ Shape(e) /\ Follows(cl, e) /\ Staged(e) /\ e.step # "register"
  BY <1>3
<1>5. Follows(call[c], e)
  BY <1>1, <1>4 DEF Follows, Hands
<1>6. made' \in Nat /\ (call[c].kind = "view" => call[c].op # "drop")
  BY <1>0, <1>3, NotDropped DEF VInv, Typed, Reading
<1> QED
  BY <1>0, <1>1, <1>3, <1>4, <1>5, <1>6, QuietStep

LEMMA AnswerViews ==
    ASSUME VInv, LInv', NEW c \in Caller, NEW r \in {None, Nil, Odd, Error} \union Cell,
           ThunkAnswers(c, r)
    PROVE  VInv'
<1> DEFINE cl == [call[c] EXCEPT !.step = "force"]
<1>0. /\ call[c] # Idle /\ Shape(call[c]) /\ Staged(call[c]) /\ call[c].step = "thunk" /\ r \in Kept
      /\ UNCHANGED <<live, view>> /\ Gets(c, cl, r)
  BY DEF VInv, LInv, Shapes, Typed, ThunkAnswers, Kept, census
<1>1. /\ Shape(cl) /\ cl.kind = call[c].kind /\ cl.step = "force" /\ cl.op = call[c].op
      /\ cl.on = call[c].on /\ cl.start = call[c].start /\ cl.into = call[c].into
      /\ cl.at = call[c].at /\ cl.prim = call[c].prim /\ cl.tail = call[c].tail
      /\ cl.drop = call[c].drop /\ cl.ending = call[c].ending
  BY <1>0 DEF Shape, Fields, StepNames, Reading
<1> HIDE DEF cl
<1>2. Staged(cl)
  BY <1>0, <1>1, ReadsOn DEF Reading
<1>3. /\ \E e : To(c, e) /\ Shape(e) /\ Follows(cl, e) /\ Staged(e) /\ e.step # "register"
      /\ UNCHANGED <<base, made>> /\ buffer' \in Seq(Nat) /\ Len(buffer) <= Len(buffer')
      /\ buffer' # buffer => cl.kind = "view"
  BY <1>0, <1>1, <1>2, GetsFollows
<1>4. PICK e : To(c, e) /\ Shape(e) /\ Follows(cl, e) /\ Staged(e) /\ e.step # "register"
  BY <1>3
<1>5. Follows(call[c], e)
  BY <1>1, <1>4 DEF Follows, Hands
<1>6. made' \in Nat /\ (call[c].kind = "view" => call[c].op # "drop")
  BY <1>0, <1>3, NotDropped DEF VInv, Typed, Reading
<1> QED
  BY <1>0, <1>1, <1>3, <1>4, <1>5, <1>6, QuietStep

LEMMA PanicViews == ASSUME VInv, LInv', NEW c \in Caller, ThunkPanics(c) PROVE VInv'
<1> DEFINE e == Ended(call[c], Error)
<1>0. /\ call[c] # Idle /\ Shape(call[c]) /\ Staged(call[c]) /\ call[c].step = "thunk"
      /\ UNCHANGED <<live, view, base, made, buffer>> /\ To(c, e)
  BY DEF VInv, LInv, Shapes, Typed, ThunkPanics, census, spine
<1>1. Shape(e) /\ Follows(call[c], e) /\ Staged(e) /\ e.step # "register"
  BY <1>0, EndedShape, EndedFollows, NotDropped DEF Reading
<1> HIDE DEF e
<1> QED
  BY <1>0, <1>1, QuietCall

\* The census, when c's call becomes e and the views v.
LEMMA CensusAfter ==
    ASSUME VInv, NEW c \in Caller, NEW e, To(c, e), BagOfNats(live'),
           \A s \in Nat : CountIn(live', s) - CountIn(live, s) =
              Cardinality(Views(s)') - Cardinality(Views(s)) + Claims(e, s) - Claims(call[c], s)
    PROVE  Census'
<1> SUFFICES ASSUME NEW s \in Nat
             PROVE  CountIn(live, s)' = Cardinality(Views(s)') + Cardinality(Tails(s)')
                                          + Cardinality(Drops(s)')
  BY DEF Census
<1>1. Cardinality(Tails(s)') + Cardinality(Drops(s)') =
            Cardinality(Tails(s)) + Cardinality(Drops(s)) - Claims(call[c], s) + Claims(e, s)
  BY ClaimsCount DEF VInv, LInv
<1>2. CountIn(live, s) = Cardinality(Views(s)) + Cardinality(Tails(s)) + Cardinality(Drops(s))
  BY DEF VInv, Census
<1>3. CountIn(live, s)' = CountIn(live', s)
  BY DEF CountIn
<1>4. CountIn(live', s) \in Nat /\ CountIn(live, s) \in Nat /\ Claims(e, s) \in Nat /\ Claims(call[c], s) \in Nat
  BY DEF CountIn, Claims, BagOfNats, VInv, Census
<1> QED
  BY <1>1, <1>2, <1>3, <1>4, Groups, GroupsAfter

LEMMA ReturnViews == ASSUME VInv, LInv', NEW c \in Caller, Return(c) PROVE VInv'
<1>0. /\ call[c] # Idle /\ Shape(call[c]) /\ Staged(call[c]) /\ call[c].step = "done"
      /\ UNCHANGED <<live, view, base, made, buffer>> /\ To(c, Idle)
  BY DEF VInv, LInv, Shapes, Typed, Return, census, spine
<1>1. call'[c] = Idle /\ \A d \in Caller \ {c} : call'[d] = call[d]
  BY <1>0 DEF VInv, LInv, Shapes, To
<1>2. \A s \in Nat : Claims(Idle, s) = 0 /\ Claims(call[c], s) = 0
  <2>1. call[c].drop = None /\ (call[c].kind = "view" => call[c].tail = None)
    BY <1>0 DEF Staged, Stage, Frame, Shape
  <2>2. None \notin Nat
    BY ListSentinels
  <2> QED
    BY <1>0, <2>1, <2>2 DEF Claims
<1>3. Census'
  <2>1. \A s \in Nat : CountIn(live', s) = CountIn(live, s) /\ Views(s)' = Views(s)
    BY <1>0 DEF Views, CountIn
  <2>2. \A s \in Nat : CountIn(live, s) \in Nat /\ Cardinality(Views(s)) \in Nat
    BY Groups DEF CountIn, VInv, Census, BagOfNats
  <2>3. BagOfNats(live')
    BY <1>0 DEF VInv, Census
  <2> QED
    BY <1>0, <1>2, <2>1, <2>2, <2>3, CensusAfter
<1>4. Typed' /\ Used' /\ DropsAlone' /\ Reserved' /\ Room' /\ Covered'
  BY <1>0, <1>1 DEF VInv, Typed, Used, DropsAlone, Reserved, Room, Covered, Filled
<1> QED
  BY <1>3, <1>4 DEF VInv

LEMMA BeginViews ==
    ASSUME VInv, LInv', NEW c \in Caller, NEW op \in Ops, NEW n, NEW into, NEW kind, NEW on, NEW at,
           Begins(c, kind, op, on, at, n, into),
           \/ /\ kind = "view" /\ on \in View /\ at = view[on] /\ at # Gone
              /\ \A d \in Caller : call[d] # Idle => ~(call[d].op = "drop" /\ call[d].on = on)
              /\ op = "drop" => ~InUse(on)
              /\ IF op \in {"cdr", "clone"} THEN into \in Unused ELSE into = None
           \/ /\ kind = "cell" /\ op \in {"car", "cdr", "get", "for_each"} /\ at \in Cell /\ into = None
    PROVE  VInv'
<1> DEFINE e == [kind |-> kind, op |-> op, on |-> on, start |-> at, at |-> at, n |-> n, left |-> n,
              prim |-> First(op), step |-> FirstStep(kind, op), cell |-> 1, part |-> "head",
              head |-> None, tail |-> None, drop |-> None, into |-> into, out |-> <<>>,
              said |-> None, ending |-> FALSE]
<1>0. /\ call[c] = Idle /\ To(c, e) /\ UNCHANGED <<live, view, base, made, buffer>>
  BY DEF Begins, spine, census
<1>a. call'[c] = e /\ \A d \in Caller \ {c} : call'[d] = call[d]
  BY <1>0 DEF VInv, LInv, Shapes, To
<1>1. /\ e.kind = kind /\ e.op = op /\ e.on = on /\ e.start = at /\ e.at = at /\ e.into = into
      /\ e.prim = First(op) /\ e.step = FirstStep(kind, op) /\ e.tail = None /\ e.drop = None
      /\ e.ending = FALSE
  OBVIOUS
<1> HIDE DEF e
<1>2. /\ FirstStep(kind, op) \in {"force", "register", "unregister", "lock"}
      /\ kind = "cell" => FirstStep(kind, op) = "force"
      /\ FirstStep(kind, op) = "unregister" => op = "drop"
      /\ FirstStep(kind, op) = "register" => op = "clone"
      /\ op \notin Walking => First(op) = op
      /\ op \in Walking => First(op) = "car"
  BY DEF FirstStep, First, Ops, Walking
<1>3. into \in View \union {None} /\ (kind = "view" => at \in Nat)
  BY DEF Unused, VInv, Typed
<1>4. Frame(e)
  BY <1>1, <1>2, <1>3 DEF Frame, Walking
<1>5. Stage(e)
  BY <1>1, <1>2 DEF Stage, Reading
<1>6. Typed'
  BY <1>0, <1>a, <1>4, <1>5 DEF VInv, Typed, Staged
<1>7. Census'
  <2>1. \A s \in Nat : CountIn(live', s) = CountIn(live, s) /\ Views(s)' = Views(s)
    BY <1>0 DEF Views, CountIn
  <2>2. \A s \in Nat : CountIn(live, s) \in Nat /\ Cardinality(Views(s)) \in Nat
    BY Groups DEF CountIn, VInv, Census, BagOfNats
  <2>3. BagOfNats(live')
    BY <1>0 DEF VInv, Census
  <2>4. \A s \in Nat : Claims(e, s) = 0 /\ Claims(call[c], s) = 0
    BY <1>0, <1>1, ListSentinels DEF Claims
  <2> QED
    BY <1>0, <2>1, <2>2, <2>3, <2>4, CensusAfter
<1>8. Used'
  BY <1>0, <1>a, <1>1 DEF VInv, Used, Using
<1>9. DropsAlone'
  BY <1>a, <1>1 DEF VInv, DropsAlone, InUse
<1>10. Reserved'
  <2>1. None \notin View
    BY ListSentinels
  <2>2. into \in View => into \in Unused /\ view[into] = Gone
    BY <2>1 DEF Unused
  <2>3. kind = "view" /\ op \in {"cdr", "clone"} => into \in View
    BY DEF Unused
  <2> QED
    BY <1>0, <1>a, <1>1, <2>2, <2>3 DEF VInv, Reserved, Making, Unused
<1>11. Room' /\ Covered'
  BY <1>0, <1>a, <1>1, <1>2 DEF VInv, Room, Covered, Filled
<1> QED
  BY <1>6, <1>7, <1>8, <1>9, <1>10, <1>11 DEF VInv

-------------------------------------------------------------------------------
\* Views come and go

\* A call of a view reads at a place that the census counts.
LEMMA ItsPlace ==
    ASSUME VInv, NEW c \in Caller, call[c] # Idle, call[c].kind = "view",
           call[c].step \in Reading \union {"register"}
    PROVE  call[c].at \in BagToSet(live) /\ call[c].at \in Nat /\ base <= call[c].at
<1>0. /\ call[c].tail = call[c].at \/ (call[c].tail = None /\ call[c].at = call[c].start)
      /\ call[c].at \in Nat
  BY DEF VInv, Typed, Staged, Frame, Stage
<1>1. CASE call[c].tail = call[c].at
  <2>1. Tails(call[c].at) # {}
    BY <1>1 DEF Tails
  <2> QED
    BY <1>0, <2>1, CensusMembers DEF VInv, Covered
<1>2. CASE call[c].tail = None /\ call[c].at = call[c].start
  BY <1>0, <1>2, ItsView DEF Using, Reading, VInv, Covered
<1> QED
  BY <1>0, <1>1, <1>2

LEMMA RegisterViews == ASSUME VInv, LInv', NEW c \in Caller, Register(c) PROVE VInv'
<1> DEFINE cl == call[c]
           start == IF cl.op = "clone" THEN cl.at ELSE cl.at + 1
<1>0. /\ cl # Idle /\ Shape(cl) /\ Staged(cl) /\ cl.step = "register" /\ cl.kind = "view"
      /\ UNCHANGED <<base, made, buffer>> /\ live' = live (+) SetToBag({start})
  BY DEF VInv, LInv, Shapes, Typed, Register, Registers, spine, Shape
<1>1. /\ cl.drop = None /\ ~cl.ending /\ (cl.tail = cl.at \/ (cl.tail = None /\ cl.at = cl.start))
      /\ cl.op \in Walking \union {"cdr", "clone"} /\ cl.at \in Nat /\ cl.tail \in Nat \union {None}
      /\ cl.op \notin Walking => cl.at = cl.start /\ cl.tail = None
      /\ Frame(cl)
  BY <1>0 DEF Staged, Stage, Frame, Walking, Reading
<1>2. start \in Nat
  BY <1>1
<1>3. /\ BagOfNats(live') /\ BagToSet(live') = BagToSet(live) \union {start}
      /\ \A t \in Nat : CountIn(live', t) = CountIn(live, t) + (IF t = start THEN 1 ELSE 0)
  <2> HIDE DEF start
  <2>1. BagOfNats(live)
    BY DEF VInv, Census
  <2> QED
    BY <1>0, <1>2, <2>1, BagGains
<1>4. BagToSet(live) \subseteq Nat /\ base \in Nat /\ Filled \in Nat
  BY DEF VInv, Census, BagOfNats, Typed, Filled
<1>5. cl.at \in BagToSet(live)
  BY <1>0, ItsPlace
<1>6. base <= start /\ start <= Filled
  BY <1>0, <1>1, <1>4, <1>5 DEF VInv, Covered, Room
<1>7. Covered'
  BY <1>0, <1>3, <1>4, <1>5, <1>6 DEF VInv, Covered, Filled
<1> HIDE DEF start
<1>8. CASE cl.op \in {"cdr", "clone"}
  <2> DEFINE e == Ended(cl, start)
  <2>1. view' = [view EXCEPT ![cl.into] = start] /\ To(c, e)
    BY <1>8 DEF Register, start
  <2>2. Shape(e) /\ Follows(cl, e) /\ Staged(e) /\ e.step \in {"unregister", "done"}
    BY <1>0, <1>1, EndedShape, EndedFollows
  <2> HIDE DEF e
  <2>3. e.step = "done"
    BY <1>8, <2>2 DEF Staged, Stage, Follows, Walking, Shape
  <2>4. /\ call'[c] = e /\ e # Idle /\ \A d \in Caller \ {c} : call'[d] = call[d]
    BY <2>1, <2>2, ShapeIsNotIdle DEF VInv, LInv, Shapes, To
  <2>5. cl.into \in View /\ view[cl.into] = Gone
    BY <1>0, <1>8 DEF VInv, Reserved, Making
  <2>6. /\ view'[cl.into] = start /\ \A w \in View \ {cl.into} : view'[w] = view[w]
        /\ view' \in [View -> Nat \union {Gone}]
    BY <1>2, <2>1, <2>5 DEF VInv, Typed
  <2>7. Gone \notin Nat
    BY ListSentinels
  <2>8. \A s \in Nat : Cardinality(Views(s)') = Cardinality(Views(s)) + (IF s = start THEN 1 ELSE 0)
    <3> SUFFICES ASSUME NEW s \in Nat
                 PROVE  Cardinality(Views(s)') = Cardinality(Views(s)) + (IF s = start THEN 1 ELSE 0)
      OBVIOUS
    <3>1. Views(s) \ {cl.into} = Views(s)' \ {cl.into}
      BY <2>6 DEF Views
    <3>2. cl.into \notin Views(s) /\ (cl.into \in Views(s)' <=> s = start)
      BY <2>5, <2>6, <2>7 DEF Views
    <3>3. Cardinality(Views(s)') = Cardinality(Views(s)) - (IF cl.into \in Views(s) THEN 1 ELSE 0)
                                   + (IF cl.into \in Views(s)' THEN 1 ELSE 0)
      BY <3>1, Groups, GroupsAfter, OneApart
    <3> QED
      BY <3>2, <3>3, Groups
  <2>9. Census'
    <3>1. \A s \in Nat : Claims(e, s) = Claims(call[c], s) /\ Claims(e, s) \in Nat
      BY <1>0, <2>2, <2>4, SameClaims DEF Claims
    <3>2. \A s \in Nat : CountIn(live, s) \in Nat /\ Cardinality(Views(s)) \in Nat
      BY Groups DEF CountIn, VInv, Census, BagOfNats
    <3> QED
      BY <1>3, <2>1, <2>8, <3>1, <3>2, CensusAfter
  <2>10. /\ e.kind = cl.kind /\ e.op = cl.op /\ e.on = cl.on /\ e.start = cl.start /\ e.into = cl.into
    BY <2>2 DEF Follows
  <2>11. Typed'
    BY <1>0, <2>2, <2>4, <2>6 DEF VInv, Typed
  <2>12. Used'
    <3> SUFFICES ASSUME NEW d \in Caller, call'[d] # Idle, Using(call'[d])
                 PROVE  view'[call'[d].on] = call'[d].start
      BY DEF Used
    <3>1. call[d] # Idle /\ Using(call[d]) /\ call'[d].on = call[d].on /\ call'[d].start = call[d].start
      BY <1>0, <1>8, <2>4, <2>10 DEF Using
    <3>2. view[call[d].on] = call[d].start /\ call[d].start \in Nat /\ call[d].on \in View
      BY <3>1, ItsView
    <3> QED
      BY <2>5, <2>6, <2>7, <3>1, <3>2
  <2>13. DropsAlone'
    BY <1>0, <2>4, <2>10 DEF VInv, DropsAlone
  <2>14. Reserved'
    BY <1>0, <2>3, <2>4, <2>5, <2>6, <2>10 DEF VInv, Reserved, Making
  <2>15. Room'
    BY <1>0, <2>3, <2>4 DEF VInv, Room, Filled
  <2> QED
    BY <1>7, <2>9, <2>11, <2>12, <2>13, <2>14, <2>15 DEF VInv
<1>9. CASE cl.op \in Walking
  <2> DEFINE w == [cl EXCEPT !.tail = start]
             e == IF cl.tail = None THEN Walked(w)
                  ELSE [cl EXCEPT !.tail = start, !.drop = cl.tail, !.step = "unregister"]
  <2>1. UNCHANGED view /\ To(c, e)
    BY <1>9 DEF Register, Walking, start
  <2>2. /\ Shape(w) /\ Frame(w) /\ w.drop = None /\ ~w.ending /\ w.op \in Walking /\ w.tail = start
        /\ w.kind = cl.kind /\ w.op = cl.op /\ w.on = cl.on /\ w.start = cl.start
        /\ w.into = cl.into /\ w.step = cl.step
    BY <1>0, <1>1, <1>2, <1>9 DEF Shape, Fields, Frame
  <2>3. /\ Shape(e) /\ Staged(e) /\ e.step # "register"
        /\ e.kind = cl.kind /\ e.op = cl.op /\ e.on = cl.on /\ e.start = cl.start /\ e.into = cl.into
        /\ \A s \in Nat : Claims(e, s) = Claims(cl, s) + (IF s = start THEN 1 ELSE 0)
    <3>1. CASE cl.tail = None
      <4>1. e = Walked(w)
        BY <3>1
      <4> HIDE DEF w, e
      <4>2. Shape(e) /\ e.step # "register" /\ Staged(e) /\ Follows(w, e)
        BY <1>0, <2>2, <4>1, WalkedShape, WalkedFollows DEF Part1
      <4>3. \A s \in Nat : Claims(w, s) = Claims(cl, s) + (IF s = start THEN 1 ELSE 0)
        <5>1. None \notin Nat /\ w # Idle
          BY <2>2, ShapeIsNotIdle, ListSentinels
        <5> QED
          BY <1>0, <1>1, <2>2, <3>1, <5>1 DEF Claims
      <4>4. \A s \in Nat : Claims(e, s) = Claims(w, s)
        BY <2>2, <4>2, ShapeIsNotIdle, SameClaims
      <4> QED
        BY <2>2, <4>2, <4>3, <4>4 DEF Follows
    <3>2. CASE cl.tail # None
      <4>1. /\ Shape(e) /\ e.step = "unregister" /\ e.kind = cl.kind /\ e.op = cl.op /\ e.on = cl.on
            /\ e.start = cl.start /\ e.into = cl.into /\ e.at = cl.at /\ e.prim = cl.prim
            /\ e.tail = start /\ e.drop = cl.tail /\ e.ending = cl.ending
        BY <1>0, <3>2 DEF Shape, Fields, StepNames, Reading
      <4> HIDE DEF e
      <4>2. Frame(e) /\ Stage(e)
        BY <1>0, <1>1, <1>2, <1>9, <3>2, <4>1 DEF Frame, Stage, Reading
      <4>3. \A s \in Nat : Claims(e, s) = Claims(cl, s) + (IF s = start THEN 1 ELSE 0)
        BY <1>0, <1>1, <4>1, ShapeIsNotIdle, ListSentinels DEF Claims
      <4> QED
        BY <4>1, <4>2, <4>3 DEF Staged
    <3> QED
      BY <3>1, <3>2
  <2> HIDE DEF w, e
  <2>4. /\ call'[c] = e /\ e # Idle /\ \A d \in Caller \ {c} : call'[d] = call[d]
    BY <2>1, <2>3, ShapeIsNotIdle DEF VInv, LInv, Shapes, To
  <2>5. Census'
    <3>1. \A s \in Nat : Views(s)' = Views(s) /\ Claims(cl, s) \in Nat
      BY <2>1 DEF Views, Claims
    <3>2. \A s \in Nat : CountIn(live, s) \in Nat /\ Cardinality(Views(s)) \in Nat
      BY Groups DEF CountIn, VInv, Census, BagOfNats
    <3> QED
      BY <1>3, <2>1, <2>3, <3>1, <3>2, CensusAfter
  <2>6. Typed' /\ Used' /\ DropsAlone' /\ Reserved'
    <3>1. Typed' /\ Used'
      BY <1>0, <2>1, <2>3, <2>4 DEF VInv, Typed, Used, Using
    <3>2. DropsAlone'
      BY <1>0, <2>1, <2>3, <2>4 DEF VInv, DropsAlone
    <3>3. Reserved'
      BY <1>0, <2>1, <2>3, <2>4 DEF VInv, Reserved, Making
    <3> QED
      BY <3>1, <3>2, <3>3
  <2>7. Room'
    BY <1>0, <2>3, <2>4 DEF VInv, Room, Filled
  <2> QED
    BY <1>7, <2>5, <2>6, <2>7 DEF VInv
<1> QED
  BY <1>1, <1>8, <1>9

\* What leaves the buffer, and what is left of it.
LEMMA UnregisterBuffer ==
    ASSUME VInv, NEW s \in BagToSet(live), Unregisters(s)
    PROVE  /\ BagOfNats(live') /\ Covered' /\ Filled' = Filled
           /\ base' \in Nat /\ buffer' \in Seq(Nat) /\ made' = made
           /\ \A t \in Nat : CountIn(live', t) = CountIn(live, t) - (IF t = s THEN 1 ELSE 0)
<1>1. live' = Counted(live, s)
  BY DEF Unregisters
<1>2. /\ BagOfNats(live') /\ BagToSet(live') \subseteq BagToSet(live)
      /\ \A t \in Nat : CountIn(live', t) = CountIn(live, t) - (IF t = s THEN 1 ELSE 0)
  BY <1>1, BagLoses DEF VInv, Census
<1>3. /\ BagToSet(live) \subseteq Nat /\ base \in Nat /\ buffer \in Seq(Nat) /\ Len(buffer) \in Nat
      /\ Filled = base + Len(buffer)
  BY DEF VInv, Census, BagOfNats, Typed, Filled
<1> DEFINE floor == Floor(live', s)
           over == floor - base
           n == IF over < 0 THEN 0 ELSE IF over > Len(buffer) THEN Len(buffer) ELSE over
<1>4. /\ buffer' = SubSeq(buffer, n + 1, Len(buffer)) /\ base' = base + n /\ made' = made
  BY DEF Unregisters
<1>5. /\ floor \in Nat /\ base <= floor /\ floor <= Filled
      /\ BagToSet(live') = {} => floor = Filled
      /\ BagToSet(live') # {} => floor \in BagToSet(live') /\ \A o \in BagToSet(live') : floor <= o
  <2>1. CASE BagToSet(live') = {}
    BY <1>3, <2>1 DEF Floor
  <2>2. CASE BagToSet(live') # {}
    <3>1. \E m \in BagToSet(live') : \A o \in BagToSet(live') : m <= o
      BY <1>2, <1>3, <2>2, LeastOfNaturals
    <3>2. floor = CHOOSE m \in BagToSet(live') : \A o \in BagToSet(live') : m <= o
      BY <2>2 DEF Floor
    <3>3. floor \in BagToSet(live') /\ \A o \in BagToSet(live') : floor <= o
      BY <3>1, <3>2
    <3> QED
      BY <1>2, <1>3, <2>2, <3>3 DEF VInv, Covered
  <2> QED
    BY <2>1, <2>2
<1> HIDE DEF floor
<1>6. n = floor - base /\ n \in 0..Len(buffer)
  BY <1>3, <1>5
<1> HIDE DEF n
<1>7. buffer' \in Seq(Nat) /\ Len(buffer') = Len(buffer) - n /\ (n = Len(buffer) => buffer' = <<>>)
  <2>1. n + 1 \in 1..Len(buffer) + 1
    BY <1>3, <1>6
  <2>2. SubSeq(buffer, n + 1, Len(buffer)) \in Seq(Nat)
    BY <1>3, <1>6
  <2>3. Len(SubSeq(buffer, n + 1, Len(buffer))) = Len(buffer) - n
    BY <1>3, <1>6
  <2>4. Len(buffer') = 0 => buffer' = <<>>
    BY <1>4, <2>2, EmptySeq
  <2>5. buffer' \in Seq(Nat) /\ Len(buffer') = Len(buffer) - n
    BY <1>4, <2>2, <2>3
  <2>6. n = Len(buffer) => Len(buffer') = 0
    BY <1>3, <2>5
  <2> QED
    BY <2>4, <2>5, <2>6
<1>8. Filled' = Filled /\ base' = floor /\ base' \in Nat
  BY <1>3, <1>4, <1>5, <1>6, <1>7 DEF Filled
<1>9. Covered'
  <2>1. ASSUME NEW t \in BagToSet(live') PROVE base' <= t /\ t <= Filled'
    BY <1>2, <1>5, <1>8 DEF VInv, Covered
  <2>2. BagToSet(live') = {} => buffer' = <<>>
    BY <1>3, <1>5, <1>6, <1>7
  <2>3. BagToSet(live') # {} => base' \in BagToSet(live')
    BY <1>5, <1>8
  <2> QED
    BY <2>1, <2>2, <2>3 DEF Covered, BagToSet
<1> QED
  BY <1>2, <1>4, <1>7, <1>8, <1>9

LEMMA UnregisterViews == ASSUME VInv, LInv', NEW c \in Caller, Unregister(c) PROVE VInv'
<1> DEFINE cl == call[c]
           w == [cl EXCEPT !.drop = None]
           s == IF cl.op = "drop" THEN cl.at ELSE cl.drop
<1>0. cl # Idle /\ Shape(cl) /\ Staged(cl) /\ cl.step = "unregister" /\ cl.kind = "view"
  BY DEF VInv, LInv, Shapes, Typed, Unregister, Shape
<1>1. /\ cl.op = "drop" \/ (cl.op \in Walking /\ cl.drop \in Nat /\ (cl.ending => cl.tail = None))
      /\ Frame(cl) /\ None \notin Nat /\ "drop" \notin Walking
  BY <1>0, ListSentinels DEF Staged, Stage, Walking
<1>2. /\ Shape(w) /\ Frame(w) /\ w.drop = None /\ w.tail = cl.tail /\ w.step = cl.step
      /\ w.kind = cl.kind /\ w.op = cl.op /\ w.on = cl.on /\ w.start = cl.start /\ w.into = cl.into
      /\ w.at = cl.at /\ w.ending = cl.ending
  BY <1>0, <1>1 DEF Shape, Fields, Frame
<1>3. s \in Nat /\ s \in BagToSet(live)
  <2>1. CASE cl.op = "drop"
    <3>1. cl.at = cl.start
      BY <1>0, <1>1, <2>1 DEF Frame
    <3> QED
      BY <1>0, <2>1, <3>1, ItsView DEF Using
  <2>2. CASE cl.op # "drop"
    <3>1. Drops(cl.drop) # {}
      BY <1>0 DEF Drops
    <3> QED
      BY <1>1, <2>2, <3>1, CensusMembers DEF VInv
  <2> QED
    BY <2>1, <2>2
<1>4. Unregisters(s)
  BY <1>0, <1>2 DEF Unregister
<1> HIDE DEF s
<1>5. /\ BagOfNats(live') /\ Covered' /\ Filled' = Filled
      /\ base' \in Nat /\ buffer' \in Seq(Nat) /\ made' = made
      /\ \A t \in Nat : CountIn(live', t) = CountIn(live, t) - (IF t = s THEN 1 ELSE 0)
  BY <1>3, <1>4, UnregisterBuffer
<1>6. \A t \in Nat : CountIn(live, t) \in Nat /\ Cardinality(Views(t)) \in Nat
  BY Groups DEF CountIn, VInv, Census, BagOfNats
<1>7. CASE cl.op = "drop"
  <2> DEFINE e == [w EXCEPT !.step = "done"]
  <2>1. To(c, e) /\ view' = [view EXCEPT ![cl.on] = Gone]
    BY <1>2, <1>7 DEF Unregister
  <2>2. /\ Shape(e) /\ e.step = "done" /\ e.kind = cl.kind /\ e.op = cl.op /\ e.on = cl.on
        /\ e.start = cl.start /\ e.into = cl.into /\ e.at = cl.at /\ e.prim = cl.prim
        /\ e.tail = cl.tail /\ e.drop = None
    BY <1>0, <1>2 DEF Shape, Fields, StepNames, Reading
  <2> HIDE DEF w, e
  <2>3. /\ call'[c] = e /\ e # Idle /\ \A d \in Caller \ {c} : call'[d] = call[d]
    BY <2>1, <2>2, ShapeIsNotIdle DEF VInv, LInv, Shapes, To
  <2>4. cl.tail = None /\ cl.drop = None /\ cl.at = cl.start /\ cl.on \in View /\ view[cl.on] = s
    BY <1>0, <1>1, <1>7, ItsView DEF Frame, Using, s
  <2>5. Staged(e)
    BY <1>0, <1>1, <1>7, <2>2, <2>4 DEF Staged, Frame, Stage, Reading
  <2>6. Gone \notin Nat
    BY ListSentinels
  <2>7. /\ view'[cl.on] = Gone /\ \A x \in View \ {cl.on} : view'[x] = view[x]
        /\ view' \in [View -> Nat \union {Gone}]
    BY <2>1, <2>4 DEF VInv, Typed
  <2>8. \A t \in Nat : Cardinality(Views(t)') = Cardinality(Views(t)) - (IF t = s THEN 1 ELSE 0)
    <3> SUFFICES ASSUME NEW t \in Nat
                 PROVE  Cardinality(Views(t)') = Cardinality(Views(t)) - (IF t = s THEN 1 ELSE 0)
      OBVIOUS
    <3>1. Views(t) \ {cl.on} = Views(t)' \ {cl.on}
      BY <2>7 DEF Views
    <3>2. cl.on \notin Views(t)' /\ (cl.on \in Views(t) <=> t = s)
      BY <2>4, <2>6, <2>7 DEF Views
    <3>3. Cardinality(Views(t)') = Cardinality(Views(t)) - (IF cl.on \in Views(t) THEN 1 ELSE 0)
                                   + (IF cl.on \in Views(t)' THEN 1 ELSE 0)
      BY <3>1, Groups, GroupsAfter, OneApart
    <3> QED
      BY <3>2, <3>3, Groups
  <2>9. Census'
    <3>1. \A t \in Nat : Claims(e, t) = Claims(call[c], t) /\ Claims(e, t) \in Nat
      BY <2>2, <2>4, <1>1, <2>3 DEF Claims
    <3>2. \A t \in Nat : CountIn(live', t) - CountIn(live, t) =
              Cardinality(Views(t)') - Cardinality(Views(t)) + Claims(e, t) - Claims(call[c], t)
      <4> SUFFICES ASSUME NEW t \in Nat
                   PROVE  CountIn(live', t) - CountIn(live, t) =
              Cardinality(Views(t)') - Cardinality(Views(t)) + Claims(e, t) - Claims(call[c], t)
        OBVIOUS
      <4>1. /\ CountIn(live', t) = CountIn(live, t) - (IF t = s THEN 1 ELSE 0)
            /\ CountIn(live, t) \in Nat /\ Cardinality(Views(t)) \in Nat
        BY <1>5, <1>6
      <4>2. Claims(e, t) = Claims(call[c], t) /\ Claims(e, t) \in Nat
        BY <3>1
      <4>3. Cardinality(Views(t)') = Cardinality(Views(t)) - (IF t = s THEN 1 ELSE 0)
        BY <2>8
      <4> HIDE DEF cl
      <4> QED
        BY <4>1, <4>2, <4>3
    <3> QED
      BY <1>5, <2>1, <3>2, CensusAfter
  <2>10. Typed'
    BY <1>5, <2>3, <2>5, <2>7 DEF VInv, Typed
  <2>11. Used'
    <3> SUFFICES ASSUME NEW d \in Caller, call'[d] # Idle, Using(call'[d])
                 PROVE  view'[call'[d].on] = call'[d].start
      BY DEF Used
    <3>1. d # c
      BY <1>7, <2>2, <2>3 DEF Using
    <3>2. call'[d] = call[d]
      BY <2>3, <3>1
    <3>3. call[d].on # cl.on
      BY <1>0, <1>7, <3>1, <3>2 DEF VInv, DropsAlone, Using
    <3>4. view[call[d].on] = call[d].start /\ call[d].on \in View
      BY <3>2, ItsView
    <3> QED
      BY <2>7, <3>2, <3>3, <3>4
  <2>12. DropsAlone'
    BY <1>0, <2>2, <2>3 DEF VInv, DropsAlone
  <2>13. Reserved'
    BY <1>0, <1>7, <2>2, <2>3, <2>7 DEF VInv, Reserved, Making
  <2>14. Room'
    BY <1>5, <2>2, <2>3 DEF VInv, Room
  <2> QED
    BY <1>5, <2>9, <2>10, <2>11, <2>12, <2>13, <2>14 DEF VInv
<1>8. CASE cl.op # "drop"
  <2> DEFINE e == IF w.ending THEN [w EXCEPT !.step = "done"] ELSE Walked(w)
  <2>1. UNCHANGED view /\ To(c, e)
    BY <1>2, <1>8 DEF Unregister
  <2>2. /\ Shape(e) /\ Staged(e) /\ e.step # "register"
        /\ e.kind = cl.kind /\ e.op = cl.op /\ e.on = cl.on /\ e.start = cl.start /\ e.into = cl.into
        /\ \A t \in Nat : Claims(e, t) = Claims(w, t)
    <3>1. CASE w.ending
      <4>1. /\ Shape(e) /\ e.step = "done" /\ e.kind = cl.kind /\ e.op = cl.op /\ e.on = cl.on
            /\ e.start = cl.start /\ e.into = cl.into /\ e.at = cl.at /\ e.prim = w.prim
            /\ e.tail = w.tail /\ e.drop = None
        <5>1. e = [w EXCEPT !.step = "done"]
          BY <3>1
        <5> HIDE DEF w, e
        <5>2. Shape(e) /\ e.step = "done" /\ \A f \in Fields \ {"step"} : e[f] = w[f]
          BY <1>0, <1>2, <5>1, DoneShape
        <5> QED
          BY <1>2, <5>2 DEF Fields
      <4> HIDE DEF w, e
      <4>2. Frame(e) /\ Stage(e)
        BY <1>1, <1>2, <1>8, <3>1, <4>1 DEF Frame, Stage, Reading
      <4>3. \A t \in Nat : Claims(e, t) = Claims(w, t)
        BY <1>2, <4>1, ShapeIsNotIdle DEF Claims
      <4> QED
        BY <4>1, <4>2, <4>3 DEF Staged
    <3>2. CASE ~w.ending
      <4>1. e = Walked(w)
        BY <3>2
      <4> HIDE DEF w, e
      <4>2. Shape(e) /\ e.step # "register" /\ Staged(e) /\ Follows(w, e)
        BY <1>0, <1>1, <1>2, <1>8, <3>2, <4>1, WalkedShape, WalkedFollows DEF Part1
      <4>3. \A t \in Nat : Claims(e, t) = Claims(w, t)
        BY <1>2, <4>2, ShapeIsNotIdle, SameClaims
      <4> QED
        BY <1>2, <4>2, <4>3 DEF Follows
    <3> QED
      BY <3>1, <3>2
  <2> HIDE DEF w, e
  <2>3. /\ call'[c] = e /\ e # Idle /\ \A d \in Caller \ {c} : call'[d] = call[d]
    BY <2>1, <2>2, ShapeIsNotIdle DEF VInv, LInv, Shapes, To
  <2>4. Census'
    <3>1. \A t \in Nat : Views(t)' = Views(t) /\ Claims(cl, t) \in Nat
      BY <2>1 DEF Views, Claims
    <3>2. w # Idle /\ s = cl.drop
      BY <1>2, <1>8, ShapeIsNotIdle DEF s
    <3>3. \A t \in Nat : Claims(w, t) = Claims(cl, t) - (IF t = s THEN 1 ELSE 0)
      BY <1>0, <1>1, <1>2, <3>2 DEF Claims
    <3>4. \A t \in Nat : CountIn(live', t) - CountIn(live, t) =
              Cardinality(Views(t)') - Cardinality(Views(t)) + Claims(e, t) - Claims(call[c], t)
      <4> SUFFICES ASSUME NEW t \in Nat
                   PROVE  CountIn(live', t) - CountIn(live, t) =
              Cardinality(Views(t)') - Cardinality(Views(t)) + Claims(e, t) - Claims(call[c], t)
        OBVIOUS
      <4>1. /\ CountIn(live', t) = CountIn(live, t) - (IF t = s THEN 1 ELSE 0)
            /\ CountIn(live, t) \in Nat /\ Cardinality(Views(t)) \in Nat
        BY <1>5, <1>6
      <4>2. Claims(e, t) = Claims(call[c], t) - (IF t = s THEN 1 ELSE 0) /\ Claims(call[c], t) \in Nat
        BY <2>2, <3>1, <3>3
      <4>3. Cardinality(Views(t)') = Cardinality(Views(t))
        BY <3>1
      <4> HIDE DEF cl
      <4> QED
        BY <4>1, <4>2, <4>3
    <3> QED
      BY <1>5, <2>1, <3>4, CensusAfter
  <2>5. Typed' /\ Used' /\ DropsAlone' /\ Reserved'
    <3>1. Typed'
      BY <1>5, <2>1, <2>2, <2>3 DEF VInv, Typed
    <3>2. Used' /\ DropsAlone'
      BY <1>0, <2>1, <2>2, <2>3 DEF VInv, Used, DropsAlone, Using
    <3>3. Reserved'
      BY <1>0, <2>1, <2>2, <2>3 DEF VInv, Reserved, Making
    <3> QED
      BY <3>1, <3>2, <3>3
  <2>6. Room'
    BY <1>0, <1>5, <2>2, <2>3 DEF VInv, Room
  <2> QED
    BY <1>5, <2>4, <2>5, <2>6 DEF VInv
<1> QED
  BY <1>7, <1>8

LEMMA InitViews == Init /\ LInv => VInv
<1> SUFFICES ASSUME Init, LInv PROVE VInv
  OBVIOUS
<1> DEFINE first == CHOOSE w \in View : TRUE
<1>1. first \in View
  BY ListBounds
<1> HIDE DEF first
<1>2. /\ view = [v \in View |-> IF v = first THEN 0 ELSE Gone] /\ live = SetToBag({0})
      /\ \A c \in Caller : call[c] = Idle
      /\ base = 0 /\ made = 0 /\ buffer = (IF next = Iter THEN <<>> ELSE <<0>>)
  BY DEF Init, NewList, first
<1>3. Gone \notin Nat
  BY ListSentinels
<1>4. BagToSet(live) = {0} /\ BagOfNats(live) /\ live[0] = 1
  BY <1>2 DEF SetToBag, BagToSet, BagOfNats
<1>5. Census
  <2> SUFFICES ASSUME NEW s \in Nat
               PROVE  CountIn(live, s) = Cardinality(Views(s)) + Cardinality(Tails(s))
                                            + Cardinality(Drops(s))
    BY <1>4 DEF Census
  <2>1. Tails(s) = {} /\ Drops(s) = {}
    BY <1>2 DEF Tails, Drops
  <2>2. Views(s) = IF s = 0 THEN {first} ELSE {}
    BY <1>1, <1>2, <1>3 DEF Views
  <2>3. CountIn(live, s) = IF s = 0 THEN 1 ELSE 0
    BY <1>4 DEF CountIn
  <2>4. Cardinality({}) = 0 /\ Cardinality({first}) = 1
    BY FS_EmptySet, FS_Singleton
  <2> QED
    BY <2>1, <2>2, <2>3, <2>4
<1>6. Typed /\ Filled \in 0..1 /\ Filled = Len(buffer)
  BY <1>2 DEF Typed, Filled
<1>7. Used /\ DropsAlone /\ Reserved /\ Room
  BY <1>2 DEF Used, DropsAlone, Reserved, Room
<1>8. Covered
  BY <1>2, <1>4, <1>6 DEF Covered
<1> QED
  BY <1>5, <1>6, <1>7, <1>8 DEF VInv

LEMMA NextViews == VInv /\ LInv' /\ [Next]_vars => VInv'
<1> SUFFICES ASSUME VInv, LInv', [Next]_vars PROVE VInv'
  OBVIOUS
<1>1. CASE UNCHANGED vars
  BY <1>1 DEF vars, spine, census, VInv, Typed, Census, CountIn, Views, Tails, Drops, Used, DropsAlone,
              Reserved, Room, Covered, Filled
<1>2. ASSUME NEW c \in Caller, Steps(c) PROVE VInv'
  BY <1>2, LockViews, FeedViews, IteratorViews, FillingViews, AskViews, PanicViews, AnswerViews,
     RegisterViews, UnregisterViews, ReturnViews DEF Steps
<1>3. ASSUME NEW c \in Caller, NEW op \in Ops, NEW n \in 0..Deepest, NEW v \in View, CallView(c, op, v, n)
      PROVE  VInv'
  <2>1. PICK into : /\ Begins(c, "view", op, v, view[v], n, into)
                    /\ IF op \in {"cdr", "clone"} THEN into \in Unused ELSE into = None
    BY <1>3 DEF CallView
  <2> QED
    BY <1>3, <2>1, BeginViews DEF CallView
<1>4. ASSUME NEW c \in Caller, NEW op \in Ops, NEW n \in 0..Deepest, NEW i \in Cell, CallCell(c, op, i, n)
      PROVE  VInv'
  BY <1>4, BeginViews DEF CallCell
<1> QED
  BY <1>1, <1>2, <1>3, <1>4 DEF Next

\* iter.rs:62-141: the census counts the views that were given out and those that calls
\* keep, and no other; none of them starts before what has left the buffer.
THEOREM ViewsInvariance == Spec => []VInv
<1>1. Init => VInv
  BY InitLocks, InitViews
<1>2. VInv /\ (LInv /\ EndInv) /\ (LInv /\ EndInv)' /\ [Next]_vars => VInv'
  BY NextViews
<1> QED
  BY <1>1, <1>2, LocksInvariance, PTL DEF Spec

\* iter.rs:62-141: every view that exists is in the census, what it can reach is in the
\* buffer, and what no view can reach has left it.
THEOREM EveryViewIsCovered == Spec => []ViewsAreCovered
<1>1. ASSUME VInv PROVE ViewsAreCovered
  <2>1. BagToSet(live) \subseteq Nat /\ live = [s \in BagToSet(live) |-> live[s]] /\ Filled \in Int
    BY <1>1 DEF VInv, Census, BagOfNats, Typed, Filled
  <2>2. live = EmptyBag <=> BagToSet(live) = {}
    BY <2>1 DEF EmptyBag, SetToBag, BagToSet
  <2>3. ASSUME NEW s \in 0..Filled
        PROVE  s \in BagToSet(live) <=> (\E v \in View : view[v] = s) \/ Temporary(s) # {}
    <3>1. s \in BagToSet(live) <=> Views(s) # {} \/ Tails(s) # {} \/ Drops(s) # {}
      BY <1>1, CensusMembers DEF VInv
    <3> QED
      BY <3>1 DEF Views, Tails, Drops, Temporary
  <2> QED
    BY <1>1, <2>2, <2>3 DEF VInv, Covered, ViewsAreCovered
<1> QED
  BY <1>1, ViewsInvariance, PTL

-------------------------------------------------------------------------------
\* What calls know

\* With and Without, of a list filled up to f, exhausted or not, and of cells that said h.
Has(f, h, kind, i) == IF kind = "view" THEN i < f ELSE i \in Cell /\ i \in h[i].head

Ends(f, d, h, kind, i) ==
    IF kind = "view" THEN d /\ f <= i
    ELSE \E j \in Cell : j < i /\ h[j].tail \intersect {None, Nil, Odd} # {}

Trail(cl, f, h) == \A i \in 1..Len(cl.out) : cl.out[i] = cl.start + i - 1 /\ Has(f, h, cl.kind, cl.out[i])

\* That a call answers a is true of the list.
Truth(cl, a, f, d, h) ==
    LET Is(i) == Has(f, h, cl.kind, i)
        IsNot(i) == Ends(f, d, h, cl.kind, i)
    IN /\ cl.op = "is_empty" => IF a = 0 THEN IsNot(cl.start) ELSE Is(cl.start)
       /\ cl.op = "len_cmp" => /\ a \in Int
                               /\ a > 0 <=> Is(cl.start + cl.n)
                               /\ a = 0 => f = cl.start + cl.n
                               /\ a <= 0 => IsNot(cl.start + cl.n)
       /\ cl.op \in {"car", "get"} => IF a = None THEN IsNot(cl.start + cl.n)
                                      ELSE a = cl.start + cl.n /\ Is(a)
       /\ cl.op = "for_each" => Len(cl.out) = cl.n \/ IsNot(cl.start + Len(cl.out))
       /\ cl.op = "cdr" /\ cl.kind = "view" => IF a = None THEN IsNot(cl.start) ELSE Is(cl.start)

\* Where a call is: its place is as far from its start as it has read.
Walk(cl) ==
    /\ cl.start \in Nat /\ cl.at \in Nat /\ cl.n \in Nat /\ cl.left \in Nat /\ cl.out \in Seq(Nat)
    /\ cl.left + Len(cl.out) = cl.n /\ cl.ending \in BOOLEAN
    /\ cl.op \notin Walking => cl.prim = cl.op /\ cl.out = <<>>
    /\ cl.op \in {"is_empty", "car", "cdr"} => cl.n = 0
    /\ cl.op = "len_cmp" => cl.kind = "view"
    /\ cl.kind = "cell" => ~cl.ending
    /\ cl.step # "done" /\ ~cl.ending => cl.at = cl.start + Len(cl.out)
    /\ cl.kind = "view" /\ cl.op \in Walking /\ cl.step \in {"register", "unregister"} /\ ~cl.ending =>
          cl.prim = "cdr"
    /\ cl.op \in Walking /\ cl.step = "unregister" /\ ~cl.ending => cl.tail = None \/ cl.tail = cl.at + 1
    /\ cl.kind = "cell" /\ cl.step = "thunk" =>
          cl.cell = cl.at /\ cl.part = (IF cl.prim = "car" THEN "head" ELSE "tail")

\* What get and for_each know when they have read the head at their place.
Read(cl, f, d, h) == IF cl.head = None THEN Ends(f, d, h, cl.kind, cl.at)
                     ELSE cl.head = cl.at /\ Has(f, h, cl.kind, cl.at)

\* What it knows of the list.
Knows(cl, f, d, h) ==
    /\ Trail(cl, f, h)
    /\ cl.op \in Walking /\ cl.prim = "cdr" /\ cl.step # "done" /\ ~cl.ending => Read(cl, f, d, h)
    /\ cl.op \in Walking /\ cl.step = "unregister" /\ ~cl.ending /\ cl.tail = None => cl.head = None
    /\ (cl.step = "done" \/ cl.ending) /\ cl.said # Error => Truth(cl, cl.said, f, d, h)

Good(cl, f, d, h) == Walk(cl) /\ Knows(cl, f, d, h)

\* What is true in these terms is what AnswersAreTrue says.
LEMMA TruthIsTrue ==
    ASSUME NEW cl, cl.op \in Ops, cl.out \in Seq(Nat), Trail(cl, Filled, heard),
           Truth(cl, cl.said, Filled, done, heard)
    PROVE  IsTrue(cl)
<1>1. /\ \A k, i : Has(Filled, heard, k, i) <=> With(k, i)
      /\ \A k, i : Ends(Filled, done, heard, k, i) <=> Without(k, i)
  BY DEF Has, Ends, With, Without
<1>2. CASE cl.op = "is_empty"
  BY <1>1, <1>2 DEF IsTrue, Truth
<1>3. CASE cl.op = "len_cmp"
  BY <1>1, <1>3 DEF IsTrue, Truth
<1>4. CASE cl.op \in {"car", "get"}
  BY <1>1, <1>4 DEF IsTrue, Truth
<1>5. CASE cl.op = "for_each"
  <2>1. DOMAIN cl.out = 1..Len(cl.out)
    OBVIOUS
  <2> QED
    BY <1>1, <1>5, <2>1 DEF IsTrue, Truth, Trail
<1>6. CASE cl.op = "cdr"
  BY <1>1, <1>6 DEF IsTrue, Truth
<1>7. CASE cl.op \in {"clone", "drop"}
  BY <1>7 DEF IsTrue
<1> QED
  BY <1>2, <1>3, <1>4, <1>5, <1>6, <1>7 DEF Ops

\* More is filled, more is heard.
Grown(f, d, h, f2, d2, h2) ==
    /\ f \in Nat /\ f2 \in Nat /\ f <= f2 /\ d \in BOOLEAN /\ d2 \in BOOLEAN /\ (d => d2 /\ f2 = f)
    /\ \A i \in Cell, p \in Part : h[i][p] \subseteq h2[i][p]

\* A list that grows keeps its elements, and its end when it has one.
LEMMA HasStays ==
    ASSUME NEW f, NEW d, NEW h, NEW f2, NEW d2, NEW h2, Grown(f, d, h, f2, d2, h2), NEW k, NEW i,
           k = "view" => i \in Nat
    PROVE  /\ Has(f, h, k, i) => Has(f2, h2, k, i)
           /\ Ends(f, d, h, k, i) => Ends(f2, d2, h2, k, i)
<1>1. CASE k = "view"
  BY <1>1 DEF Grown, Has, Ends
<1>2. CASE k # "view"
  BY <1>2, OneIsCell DEF Grown, Has, Ends
<1> QED
  BY <1>1, <1>2

\* So a call loses nothing of what it knows when another goes on.
LEMMA KnowsStays ==
    ASSUME NEW f, NEW d, NEW h, NEW f2, NEW d2, NEW h2, Grown(f, d, h, f2, d2, h2),
           NEW cl, Walk(cl), Knows(cl, f, d, h)
    PROVE  Knows(cl, f2, d2, h2)
<1>1. Trail(cl, f2, h2)
  <2> SUFFICES ASSUME NEW i \in 1..Len(cl.out)
               PROVE  cl.out[i] = cl.start + i - 1 /\ Has(f2, h2, cl.kind, cl.out[i])
    BY DEF Trail
  <2>1. cl.out[i] \in Nat
    BY DEF Walk
  <2> QED
    BY <2>1, HasStays DEF Knows, Trail
<1>2. Read(cl, f, d, h) => Read(cl, f2, d2, h2)
  <2>1. cl.at \in Nat
    BY DEF Walk
  <2> QED
    BY <2>1, HasStays DEF Read
<1>3. Truth(cl, cl.said, f, d, h) => Truth(cl, cl.said, f2, d2, h2)
  <2> DEFINE a == cl.said
  <2> SUFFICES ASSUME Truth(cl, a, f, d, h) PROVE Truth(cl, a, f2, d2, h2)
    OBVIOUS
  <2>1. /\ cl.start \in Nat /\ cl.start + cl.n \in Nat /\ cl.start + Len(cl.out) \in Nat
    <3>1. Len(cl.out) \in Nat
      BY DEF Walk
    <3> QED
      BY <3>1 DEF Walk
  <2> HIDE DEF a
  <2>2. CASE cl.op = "is_empty"
    BY <2>1, <2>2, HasStays DEF Truth
  <2>3. CASE cl.op = "len_cmp"
    <3>1. /\ cl.kind = "view" /\ a \in Int /\ (a > 0 <=> cl.start + cl.n < f)
          /\ a = 0 => f = cl.start + cl.n
          /\ a <= 0 => d /\ f <= cl.start + cl.n
      BY <2>3 DEF Truth, Walk, Has, Ends
    <3>2. /\ a > 0 <=> cl.start + cl.n < f2
          /\ a = 0 => f2 = cl.start + cl.n
          /\ a <= 0 => d2 /\ f2 <= cl.start + cl.n
      BY <2>1, <3>1 DEF Grown
    <3> QED
      BY <2>3, <3>1, <3>2 DEF Truth, Has, Ends
  <2>4. CASE cl.op \in {"car", "get"}
    BY <2>1, <2>4, HasStays DEF Truth
  <2>5. CASE cl.op = "for_each"
    BY <2>1, <2>5, HasStays DEF Truth
  <2>6. CASE cl.op = "cdr" /\ cl.kind = "view"
    BY <2>1, <2>6, HasStays DEF Truth
  <2>7. CASE ~(cl.op \in {"is_empty", "len_cmp", "car", "get", "for_each"} \/ (cl.op = "cdr" /\ cl.kind = "view"))
    BY <2>7 DEF Truth
  <2> QED
    BY <2>2, <2>3, <2>4, <2>5, <2>6, <2>7
<1> QED
  BY <1>1, <1>2, <1>3 DEF Knows

\* A call that has its answer.
LEMMA EndedGood ==
    ASSUME NEW f, NEW d, NEW h, NEW cl, Shape(cl), Walk(cl), Trail(cl, f, h), NEW a,
           a # Error => Truth(cl, a, f, d, h)
    PROVE  Good(Ended(cl, a), f, d, h)
<1> DEFINE e == Ended(cl, a)
           held == cl.kind = "view" /\ cl.tail # None
<1>1. /\ e.kind = cl.kind /\ e.op = cl.op /\ e.start = cl.start /\ e.at = cl.at /\ e.n = cl.n
      /\ e.left = cl.left /\ e.prim = cl.prim /\ e.out = cl.out /\ e.said = a
      /\ e.step = (IF held THEN "unregister" ELSE "done")
      /\ e.ending = (IF held THEN TRUE ELSE cl.ending)
  BY DEF Ended, Shape, Fields
<1> HIDE DEF e, held
<1>2. held => cl.kind = "view"
  BY DEF held
<1>3. Walk(e)
  BY <1>1, <1>2 DEF Walk
<1>4. Trail(e, f, h) /\ (a # Error => Truth(e, a, f, d, h))
  BY <1>1 DEF Trail, Truth
<1>5. Knows(e, f, d, h)
  BY <1>1, <1>4 DEF Knows
<1> QED
  BY <1>3, <1>5 DEF Good, e

\* No element follows the end.
LEMMA EndsLater ==
    ASSUME NEW f \in Int, NEW d, NEW h, NEW k, NEW i \in Int, NEW j \in Int, i <= j, Ends(f, d, h, k, i)
    PROVE  Ends(f, d, h, k, j)
BY OneIsCell DEF Ends

\* The part of a walk that does not depend on its step.
Tracks(cl) ==
    /\ cl.start \in Nat /\ cl.at \in Nat /\ cl.n \in Nat /\ cl.left \in Nat /\ cl.out \in Seq(Nat)
    /\ cl.left + Len(cl.out) = cl.n /\ cl.op \in Walking /\ cl.ending \in BOOLEAN /\ ~cl.ending
    /\ cl.at = cl.start + Len(cl.out)

\* A walk that has read an element, and goes on from there.
LEMMA WalkedGood ==
    ASSUME NEW f \in Int, NEW d, NEW h, NEW cl, Shape(cl), Tracks(cl), Trail(cl, f, h), Read(cl, f, d, h),
           cl.tail \in Nat => cl.tail = cl.at + 1,
           cl.tail \notin Nat => cl.head = None \/ Ends(f, d, h, cl.kind, cl.at + 1)
    PROVE  Good(Walked(cl), f, d, h)
<1>0. Len(cl.out) \in Nat /\ None \notin Nat
  BY ListSentinels DEF Tracks
<1>1. CASE cl.head = None \/ cl.left = 0
  <2> DEFINE a == IF cl.op = "get" THEN cl.head ELSE None
             w == [cl EXCEPT !.step = "done"]
             e == Ended(cl, a)
             held == cl.kind = "view" /\ cl.tail # None
  <2>1. Walked(cl) = e
    BY <1>1 DEF Walked
  <2>2. Truth(cl, a, f, d, h)
    <3>1. CASE cl.op = "get" /\ cl.head = None
      <4>1. Ends(f, d, h, cl.kind, cl.start + cl.n)
        BY <1>0, <3>1, EndsLater DEF Read, Tracks
      <4> QED
        BY <3>1, <4>1 DEF Truth
    <3>2. CASE cl.op = "get" /\ cl.head # None
      <4>1. cl.head = cl.start + cl.n /\ Has(f, h, cl.kind, cl.head)
        BY <1>0, <1>1, <3>2 DEF Read, Tracks
      <4> QED
        BY <3>2, <4>1 DEF Truth
    <3>3. CASE cl.op # "get"
      <4>1. cl.op = "for_each"
        BY <3>3 DEF Tracks, Walking
      <4>2. Len(cl.out) = cl.n \/ Ends(f, d, h, cl.kind, cl.start + Len(cl.out))
        BY <1>0, <1>1 DEF Read, Tracks
      <4> QED
        BY <4>1, <4>2 DEF Truth
    <3> QED
      BY <3>1, <3>2, <3>3
  <2>3. /\ e.kind = cl.kind /\ e.op = cl.op /\ e.start = cl.start /\ e.at = cl.at /\ e.n = cl.n
        /\ e.left = cl.left /\ e.prim = cl.prim /\ e.out = cl.out /\ e.said = a
        /\ e.step = (IF held THEN "unregister" ELSE "done")
        /\ e.ending = (IF held THEN TRUE ELSE cl.ending)
    BY DEF Ended, Shape, Fields
  <2> HIDE DEF a, e, held
  <2>4. Walk(e)
    BY <2>3 DEF Walk, Tracks, held, Walking
  <2>5. Trail(e, f, h) /\ Truth(e, a, f, d, h)
    BY <2>2, <2>3 DEF Trail, Truth
  <2> QED
    BY <2>1, <2>3, <2>4, <2>5 DEF Good, Knows
<1>2. CASE ~(cl.head = None \/ cl.left = 0)
  <2> DEFINE visited == [cl EXCEPT !.left = @ - 1, !.out = Append(@, cl.head)]
  <2>1. /\ Shape(visited) /\ visited.kind = cl.kind /\ visited.op = cl.op /\ visited.start = cl.start
        /\ visited.at = cl.at /\ visited.n = cl.n /\ visited.left = cl.left - 1
        /\ visited.out = Append(cl.out, cl.head) /\ visited.ending = cl.ending /\ visited.tail = cl.tail
        /\ visited.prim = cl.prim
    BY DEF Shape, Fields
  <2>2. Walked(cl) = IF cl.tail \notin Nat THEN Ended(visited, None)
                     ELSE IF cl.kind = "cell"
                     THEN [visited EXCEPT !.prim = "car", !.at = cl.tail, !.step = "force"]
                     ELSE [visited EXCEPT !.prim = "is_empty", !.at = cl.tail, !.step = "lock"]
    BY <1>2 DEF Walked
  <2> HIDE DEF visited
  <2>3. cl.head = cl.at /\ Has(f, h, cl.kind, cl.at) /\ cl.head \in Nat
    BY <1>2 DEF Read, Tracks
  <2>4. /\ visited.out \in Seq(Nat) /\ Len(visited.out) = Len(cl.out) + 1
        /\ \A i \in 1..Len(cl.out) : visited.out[i] = cl.out[i]
        /\ visited.out[Len(cl.out) + 1] = cl.at
    BY <2>1, <2>3 DEF Tracks
  <2>5. Trail(visited, f, h)
    <3> SUFFICES ASSUME NEW i \in 1..Len(visited.out)
                 PROVE  visited.out[i] = visited.start + i - 1 /\ Has(f, h, visited.kind, visited.out[i])
      BY DEF Trail
    <3>1. CASE i \in 1..Len(cl.out)
      BY <2>1, <2>4, <3>1 DEF Trail
    <3>2. CASE i = Len(cl.out) + 1
      BY <1>0, <2>1, <2>3, <2>4, <3>2 DEF Tracks
    <3> QED
      BY <1>0, <2>4, <3>1, <3>2
  <2>6. /\ visited.left \in Nat /\ visited.left + Len(visited.out) = visited.n
        /\ cl.at + 1 = visited.start + Len(visited.out)
    <3>1. /\ cl.left \in Nat /\ cl.left # 0 /\ cl.left + Len(cl.out) = cl.n
          /\ cl.at = cl.start + Len(cl.out) /\ cl.start \in Nat /\ cl.n \in Nat
      BY <1>2 DEF Tracks
    <3>2. /\ visited.left = cl.left - 1 /\ visited.n = cl.n /\ visited.start = cl.start
          /\ Len(visited.out) = Len(cl.out) + 1
      BY <2>1, <2>4
    <3> DEFINE l == cl.left
               k == Len(cl.out)
               m == Len(visited.out)
    <3>3. l \in Nat /\ l # 0 /\ k \in Nat /\ l + k = cl.n /\ m = k + 1
      BY <1>0, <3>1, <3>2
    <3>4. l - 1 \in Nat /\ (l - 1) + m = cl.n
      <4> HIDE DEF l, k, m
      <4> QED
        BY <3>3
    <3>5. cl.at + 1 = cl.start + m
      BY <1>0, <3>1, <3>2
    <3> QED
      BY <3>2, <3>4, <3>5
  <2>7. CASE cl.tail \notin Nat
    <3> DEFINE e == Ended(visited, None)
               held == visited.kind = "view" /\ visited.tail # None
    <3>1. Ends(f, d, h, visited.kind, visited.start + Len(visited.out))
      BY <1>2, <2>1, <2>6, <2>7
    <3>2. Truth(visited, None, f, d, h)
      <4>1. CASE cl.op = "get"
        <5>1. Ends(f, d, h, visited.kind, visited.start + visited.n)
          <6>1. /\ visited.start \in Nat /\ visited.n \in Nat /\ Len(visited.out) \in Nat
                /\ visited.start + Len(visited.out) <= visited.start + visited.n
            <7>1. cl.start \in Nat /\ cl.n \in Nat
              BY DEF Tracks
            <7>2. Len(visited.out) \in Nat
              BY <1>0, <2>4
            <7>3. visited.start \in Nat /\ visited.n \in Nat
              BY <2>1, <7>1
            <7>4. visited.left \in Nat /\ visited.left + Len(visited.out) = visited.n
              BY <2>6
            <7> QED
              BY <7>2, <7>3, <7>4
          <6>2. /\ visited.start + Len(visited.out) \in Int /\ visited.start + visited.n \in Int
            BY <6>1
          <6> QED
            BY <3>1, <6>1, <6>2, EndsLater
        <5> QED
          BY <2>1, <4>1, <5>1 DEF Truth
      <4>2. CASE cl.op = "for_each"
        BY <2>1, <3>1, <4>2 DEF Truth
      <4> QED
        BY <4>1, <4>2 DEF Tracks, Walking
    <3>3. /\ e.kind = cl.kind /\ e.op = cl.op /\ e.start = cl.start /\ e.at = cl.at /\ e.n = cl.n
          /\ e.left = visited.left /\ e.prim = cl.prim /\ e.out = visited.out /\ e.said = None
          /\ e.step = (IF held THEN "unregister" ELSE "done")
          /\ e.ending = (IF held THEN TRUE ELSE cl.ending)
      BY <2>1 DEF Ended, Shape, Fields
    <3> HIDE DEF e, held
    <3>4. Walk(e)
      <4>1. /\ e.start \in Nat /\ e.at \in Nat /\ e.n \in Nat /\ e.left \in Nat /\ e.out \in Seq(Nat)
            /\ e.left + Len(e.out) = e.n /\ e.ending \in BOOLEAN /\ e.op \in Walking
        BY <2>1, <2>4, <2>6, <3>3 DEF Tracks
      <4>2. /\ e.step = "done" \/ (e.step = "unregister" /\ e.ending)
            /\ e.kind = "cell" => ~e.ending
        BY <2>1, <3>3 DEF Tracks, held
      <4> QED
        BY <4>1, <4>2 DEF Walk, Walking
    <3>5. Trail(e, f, h) /\ Truth(e, None, f, d, h)
      BY <2>1, <2>5, <3>2, <3>3 DEF Trail, Truth
    <3> QED
      BY <2>2, <2>7, <3>3, <3>4, <3>5 DEF Good, Knows, e
  <2>8. CASE cl.tail \in Nat
    <3> DEFINE e == Walked(cl)
    <3>1. /\ e.kind = cl.kind /\ e.op = cl.op /\ e.start = cl.start /\ e.at = cl.at + 1 /\ e.n = cl.n
          /\ e.left = visited.left /\ e.prim \in {"car", "is_empty"} /\ e.out = visited.out
          /\ e.step \in {"force", "lock"} /\ e.ending = cl.ending
      <4>1. cl.tail = cl.at + 1
        BY <2>8
      <4>2. CASE cl.kind = "cell"
        <5>1. e = [visited EXCEPT !.prim = "car", !.at = cl.tail, !.step = "force"]
          BY <2>2, <2>8, <4>2
        <5> HIDE DEF e
        <5> QED
          BY <2>1, <4>1, <5>1 DEF Shape, Fields
      <4>3. CASE cl.kind # "cell"
        <5>1. e = [visited EXCEPT !.prim = "is_empty", !.at = cl.tail, !.step = "lock"]
          BY <2>2, <2>8, <4>3
        <5> HIDE DEF e
        <5> QED
          BY <2>1, <4>1, <5>1 DEF Shape, Fields
      <4> QED
        BY <4>2, <4>3
    <3> HIDE DEF e
    <3>2. Walk(e)
      <4>1. /\ e.start \in Nat /\ e.at \in Nat /\ e.n \in Nat /\ e.left \in Nat /\ e.out \in Seq(Nat)
            /\ e.left + Len(e.out) = e.n /\ e.ending \in BOOLEAN /\ ~e.ending /\ e.op \in Walking
        BY <2>1, <2>4, <2>6, <3>1 DEF Tracks
      <4>2. e.at = e.start + Len(e.out)
        BY <2>1, <2>6, <3>1
      <4> HIDE DEF visited
      <4> QED
        BY <3>1, <4>1, <4>2 DEF Walk, Walking
    <3>3. Trail(e, f, h)
      BY <2>1, <2>5, <3>1 DEF Trail
    <3>4. Knows(e, f, d, h)
      BY <3>1, <3>3 DEF Knows, Tracks
    <3> QED
      BY <3>2, <3>4 DEF Good, e
  <2> QED
    BY <2>7, <2>8
<1> QED
  BY <1>1, <1>2

\* What a part of a call tells it.
Result(cl, r, f, d, h) ==
    IF cl.op \notin Walking THEN Truth(cl, r, f, d, h)
    ELSE /\ cl.prim = "is_empty" /\ r = 0 => Ends(f, d, h, cl.kind, cl.at)
         /\ cl.prim = "car" => IF r = None THEN Ends(f, d, h, cl.kind, cl.at)
                               ELSE r = cl.at /\ Has(f, h, cl.kind, cl.at)
         /\ cl.prim = "cdr" /\ cl.kind = "cell" => IF r \in Nat THEN r = cl.at + 1
                                                   ELSE Ends(f, d, h, "cell", cl.at + 1)
         /\ cl.prim = "cdr" /\ cl.kind = "view" => Ends(f, d, h, "view", cl.at)

\* A call that has what it asked its view or its cell for.
LEMMA ContinuedGood ==
    ASSUME NEW f \in Int, NEW d, NEW h, NEW cl, Shape(cl), Good(cl, f, d, h), ~cl.ending, cl.step # "done",
           cl.op \in Walking => cl.prim \in {"is_empty", "car", "cdr"},
           NEW r, Result(cl, r, f, d, h), r # Error
    PROVE  Good(Continued(cl, r), f, d, h)
<1> DEFINE e == Continued(cl, r)
<1>0. Walk(cl) /\ Trail(cl, f, h) /\ cl.at = cl.start + Len(cl.out) /\ Len(cl.out) \in Nat
  BY DEF Good, Knows, Walk
<1>1. CASE cl.op \notin Walking
  <2>1. e = Ended(cl, r) /\ Truth(cl, r, f, d, h)
    BY <1>1 DEF Continued, Walking, Result
  <2> QED
    BY <1>0, <2>1, EndedGood
<1>2. CASE cl.op \in Walking /\ cl.prim = "is_empty" /\ r = 0
  <2>1. e = Ended(cl, None)
    BY <1>2 DEF Continued, Walking
  <2>2. Ends(f, d, h, cl.kind, cl.at)
    BY <1>2 DEF Result
  <2>3. Truth(cl, None, f, d, h)
    <3>1. CASE cl.op = "get"
      <4>1. /\ cl.at \in Int /\ cl.start + cl.n \in Int /\ cl.at <= cl.start + cl.n
        <5>1. /\ cl.left \in Nat /\ cl.left + Len(cl.out) = cl.n /\ cl.start \in Nat /\ cl.n \in Nat
          BY <1>0 DEF Walk
        <5> QED
          BY <1>0, <5>1
      <4>2. Ends(f, d, h, cl.kind, cl.start + cl.n)
        BY <2>2, <4>1, EndsLater
      <4> QED
        BY <3>1, <4>2 DEF Truth
    <3>2. CASE cl.op = "for_each"
      BY <1>0, <2>2, <3>2 DEF Truth
    <3> QED
      BY <1>2, <3>1, <3>2 DEF Walking
  <2> QED
    BY <1>0, <2>1, <2>3, EndedGood
<1>3. CASE cl.op \in Walking /\ cl.prim = "is_empty" /\ r # 0
  <2>1. /\ e.kind = cl.kind /\ e.op = cl.op /\ e.start = cl.start /\ e.at = cl.at /\ e.n = cl.n
        /\ e.left = cl.left /\ e.prim = "car" /\ e.out = cl.out /\ e.step = "lock" /\ e.ending = cl.ending
    BY <1>3 DEF Continued, Walking, Shape, Fields
  <2> HIDE DEF e
  <2>2. Walk(e)
    BY <1>0, <1>3, <2>1 DEF Walk
  <2>3. Knows(e, f, d, h)
    BY <1>0, <2>1 DEF Knows, Trail
  <2> QED
    BY <2>2, <2>3 DEF Good, e
<1>4. CASE cl.op \in Walking /\ cl.prim = "car"
  <2>1. /\ e.kind = cl.kind /\ e.op = cl.op /\ e.start = cl.start /\ e.at = cl.at /\ e.n = cl.n
        /\ e.left = cl.left /\ e.prim = "cdr" /\ e.out = cl.out /\ e.step \in {"lock", "force"}
        /\ e.ending = cl.ending /\ e.head = r
    BY <1>4 DEF Continued, Walking, Shape, Fields
  <2> HIDE DEF e
  <2>2. Walk(e)
    BY <1>0, <1>4, <2>1 DEF Walk
  <2>3. Read(e, f, d, h)
    BY <1>4, <2>1 DEF Read, Result
  <2>4. Knows(e, f, d, h)
    BY <1>0, <2>1, <2>3 DEF Knows, Trail
  <2> QED
    BY <2>2, <2>4 DEF Good, e
<1>5. CASE cl.op \in Walking /\ cl.prim = "cdr"
  <2>1. Read(cl, f, d, h)
    BY <1>5 DEF Good, Knows
  <2>2. Tracks(cl)
    BY <1>0, <1>5 DEF Tracks, Walk
  <2>3. None \notin Nat
    BY ListSentinels
  <2>4. cl.kind = "view" => cl.head = None
    <3> SUFFICES ASSUME cl.kind = "view" PROVE cl.head = None
      OBVIOUS
    <3>1. d /\ f <= cl.at
      BY <1>5 DEF Result, Ends
    <3>2. cl.at \in Nat /\ ~(cl.at < f)
      BY <2>2, <3>1 DEF Tracks
    <3>3. ~Has(f, h, cl.kind, cl.at)
      BY <3>2 DEF Has
    <3> QED
      BY <2>1, <3>3 DEF Read
  <2>5. CASE cl.kind = "cell"
    <3> DEFINE w == [cl EXCEPT !.tail = r]
    <3>1. e = Walked(w)
      BY <1>5, <2>5 DEF Continued, Walking
    <3>2. /\ Shape(w) /\ w.kind = cl.kind /\ w.op = cl.op /\ w.start = cl.start /\ w.at = cl.at /\ w.n = cl.n
          /\ w.left = cl.left /\ w.out = cl.out /\ w.ending = cl.ending /\ w.head = cl.head /\ w.tail = r
      BY DEF Shape, Fields
    <3> HIDE DEF w
    <3>3. Tracks(w) /\ Trail(w, f, h) /\ Read(w, f, d, h)
      BY <1>0, <2>1, <2>2, <3>2 DEF Tracks, Trail, Read
    <3>4. /\ w.tail \in Nat => w.tail = w.at + 1
          /\ w.tail \notin Nat => Ends(f, d, h, w.kind, w.at + 1)
      BY <1>5, <2>5, <3>2 DEF Result
    <3> QED
      BY <3>1, <3>2, <3>3, <3>4, WalkedGood
  <2>6. CASE cl.kind = "view" /\ cl.tail = None
    <3>1. e = Walked(cl)
      BY <1>5, <2>6 DEF Continued, Walking
    <3> QED
      BY <1>0, <2>1, <2>2, <2>3, <2>4, <2>6, <3>1, WalkedGood
  <2>7. CASE cl.kind = "view" /\ cl.tail # None
    <3>1. /\ e.kind = cl.kind /\ e.op = cl.op /\ e.start = cl.start /\ e.at = cl.at /\ e.n = cl.n
          /\ e.left = cl.left /\ e.prim = "cdr" /\ e.out = cl.out /\ e.step = "unregister"
          /\ e.ending = cl.ending /\ e.head = cl.head /\ e.tail = None
      BY <1>5, <2>7 DEF Continued, Walking, Shape, Fields
    <3> HIDE DEF e
    <3>2. Walk(e)
      BY <1>0, <1>5, <2>7, <3>1 DEF Walk
    <3>3. Read(e, f, d, h)
      BY <2>1, <3>1 DEF Read
    <3>4. Knows(e, f, d, h)
      BY <1>0, <2>4, <2>7, <3>1, <3>3 DEF Knows, Trail
    <3> QED
      BY <3>2, <3>4 DEF Good, e
  <2> QED
    BY <2>5, <2>6, <2>7 DEF Shape
<1> QED
  BY <1>1, <1>2, <1>3, <1>4, <1>5

\* A call goes on and has learned nothing.
LEMMA SameGood ==
    ASSUME NEW f, NEW d, NEW h, NEW cl, Good(cl, f, d, h), ~cl.ending, cl.step # "done",
           cl.op \in Walking => cl.step # "unregister",
           NEW e, e.kind = cl.kind, e.op = cl.op, e.start = cl.start, e.at = cl.at, e.n = cl.n,
           e.left = cl.left, e.prim = cl.prim, e.out = cl.out, e.head = cl.head, e.ending = cl.ending,
           e.step \in Reading \union {"register"},
           e.step = "register" => e.prim = "cdr",
           e.kind = "cell" /\ e.step = "thunk" =>
              e.cell = e.at /\ e.part = (IF e.prim = "car" THEN "head" ELSE "tail")
    PROVE  Good(e, f, d, h)
<1>1. Walk(e)
  BY DEF Good, Walk, Reading
<1>2. e.step # "done" /\ e.step # "unregister"
  BY DEF Reading
<1>3. Knows(e, f, d, h)
  BY <1>2 DEF Good, Knows, Trail, Read
<1> QED
  BY <1>1, <1>3 DEF Good

-------------------------------------------------------------------------------
\* Calls learn what is true

\* What the call does with the source.
Feeds(cl, n, d, f) == cl.kind = "view" =>
    /\ cl.step = "feed" => n = Iter /\ ~d
    /\ cl.step \in {"force", "thunk"} => n = None /\ ~d /\ cl.cell = f

\* Elements are where they belong.
Contents == \A i \in 1..Len(buffer) : buffer[i] = base + i - 1

\* The source goes on where the buffer ends.
Sourced == /\ next = Iter => made = Filled
           /\ next \in Cell => next = Filled

\* What is kept in a cell is what its thunk may answer.
Told == \A i \in Cell, p \in Part : cache[i][p] \in Answers(i, p) \union {Unforced} \union Caller

\* What calls know, and what they are doing with the source.
Known == \A c \in Caller :
    call[c] # Idle => Good(call[c], Filled, done, heard) /\ Feeds(call[c], next, done, Filled)

KInv == VInv /\ done \in BOOLEAN /\ Contents /\ Sourced /\ Told /\ Known

\* One caller goes on, with what it knows; the others keep what they know, and only
\* who has the mutex may have changed the source.
LEMMA Learns ==
    ASSUME KInv, VInv', NEW c \in Caller, NEW e, To(c, e),
           e # Idle => Good(e, Filled', done', heard') /\ Feeds(e, next', done', Filled'),
           Grown(Filled, done, heard, Filled', done', heard'),
           (Filled' = Filled /\ UNCHANGED <<next, done>>) \/ holder = c
    PROVE  Known'
<1>1. call'[c] = e /\ \A d \in Caller \ {c} : call'[d] = call[d]
  BY DEF KInv, VInv, LInv, Shapes, To
<1> SUFFICES ASSUME NEW b \in Caller, call'[b] # Idle
             PROVE  Good(call'[b], Filled', done', heard') /\ Feeds(call'[b], next', done', Filled')
  BY DEF Known
<1>2. CASE b = c
  BY <1>1, <1>2
<1>3. CASE b # c
  <2>1. /\ call'[b] = call[b] /\ call[b] # Idle
        /\ Good(call[b], Filled, done, heard) /\ Feeds(call[b], next, done, Filled)
    BY <1>1, <1>3 DEF KInv, Known
  <2>2. Good(call[b], Filled', done', heard')
    BY <2>1, KnowsStays DEF Good
  <2>3. Feeds(call[b], next', done', Filled')
    <3>1. CASE Filled' = Filled /\ UNCHANGED <<next, done>>
      BY <2>1, <3>1
    <3>2. CASE holder = c
      <4>1. ~Holds(call[b])
        BY <1>3, <2>1, <3>2 DEF KInv, VInv, LInv, Locked
      <4> QED
        BY <4>1 DEF Holds, Feeds
    <3> QED
      BY <3>1, <3>2
  <2> QED
    BY <2>1, <2>2, <2>3
<1> QED
  BY <1>2, <1>3

LEMMA NothingGrows == ASSUME KInv PROVE Grown(Filled, done, heard, Filled, done, heard) /\ Filled \in Nat
BY DEF KInv, VInv, Typed, Filled, Grown

\* What is known of a call.
LEMMA Whose ==
    ASSUME KInv, NEW c \in Caller, call[c] # Idle
    PROVE  /\ Shape(call[c]) /\ Staged(call[c]) /\ Good(call[c], Filled, done, heard)
           /\ Feeds(call[c], next, done, Filled) /\ Walk(call[c]) /\ Trail(call[c], Filled, heard)
BY DEF KInv, VInv, LInv, Shapes, Typed, Known, Good, Knows

\* A step that leaves the list and the answers alone.
LEMMA Listens ==
    ASSUME KInv, VInv', NEW c \in Caller, NEW e, To(c, e), UNCHANGED <<spine, heard>>, Told',
           e # Idle => Good(e, Filled, done, heard) /\ Feeds(e, next, done, Filled)
    PROVE  KInv'
<1>1. Filled' = Filled /\ UNCHANGED <<next, done, base, buffer, made, heard>>
  BY DEF spine, Filled
<1>2. Known'
  BY <1>1, NothingGrows, Learns
<1> QED
  BY <1>1, <1>2 DEF KInv, Contents, Sourced

\* A call fails.
LEMMA FailedGood ==
    ASSUME NEW f, NEW d, NEW h, NEW n, NEW cl, Shape(cl), Good(cl, f, d, h)
    PROVE  LET e == Ended(cl, Error)
           IN  Good(e, f, d, h) /\ Feeds(e, n, d, f)
<1>1. Good(Ended(cl, Error), f, d, h)
  BY EndedGood DEF Good, Knows
<1>2. Ended(cl, Error).step \in {"unregister", "done"}
  BY EndedShape
<1> QED
  BY <1>1, <1>2 DEF Feeds

\* A call of a view that reads goes to another such step.
LEMMA StepGood ==
    ASSUME NEW f, NEW d, NEW h, NEW cl, Shape(cl), Good(cl, f, d, h), ~cl.ending, cl.step \in Reading,
           cl.kind = "view", NEW s \in Reading
    PROVE  Good([cl EXCEPT !.step = s], f, d, h)
<1> DEFINE e == [cl EXCEPT !.step = s]
<1>1. /\ e.kind = cl.kind /\ e.op = cl.op /\ e.start = cl.start /\ e.at = cl.at /\ e.n = cl.n
      /\ e.left = cl.left /\ e.prim = cl.prim /\ e.out = cl.out /\ e.head = cl.head /\ e.ending = cl.ending
      /\ e.step = s
  BY DEF Shape, Fields
<1> HIDE DEF e
<1>2. Good(e, f, d, h)
  BY <1>1, SameGood DEF Reading
<1> QED
  BY <1>2 DEF e

LEMMA LockKnows == ASSUME KInv, VInv', NEW c \in Caller, Lock(c) PROVE KInv'
<1> DEFINE cl == call[c]
<1>0. /\ cl # Idle /\ cl.step = "lock" /\ UNCHANGED <<spine, heard, cache>>
      /\ To(c, IF poisoned THEN Ended(cl, Error) ELSE [cl EXCEPT !.step = "fill"])
  BY DEF Lock
<1>1. /\ Shape(cl) /\ Staged(cl) /\ Good(cl, Filled, done, heard)
      /\ cl.kind = "view" /\ ~cl.ending
  BY <1>0, Whose DEF Shape, Staged, Stage, Reading
<1>2. Told'
  BY <1>0 DEF KInv, Told
<1> HIDE DEF cl
<1>3. CASE poisoned
  BY <1>0, <1>1, <1>2, <1>3, FailedGood, Listens
<1>4. CASE ~poisoned
  <2> DEFINE e == [cl EXCEPT !.step = "fill"]
  <2>1. Good(e, Filled, done, heard)
    BY <1>0, <1>1, StepGood DEF Reading
  <2>2. e.step = "fill"
    BY <1>1 DEF Shape, Fields
  <2>3. Feeds(e, next, done, Filled)
    BY <2>2 DEF Feeds
  <2> HIDE DEF e
  <2> QED
    BY <1>0, <1>2, <1>4, <2>1, <2>3, Listens DEF e
<1> QED
  BY <1>3, <1>4

LEMMA FeedKnows == ASSUME KInv, VInv', NEW c \in Caller, Feed(c) PROVE KInv'
<1> DEFINE cl == call[c]
<1>0. /\ cl # Idle /\ cl.step = "fill" /\ UNCHANGED <<made, buffer, base, heard, cache>>
      /\ Filled' = Filled /\ ~done
  BY DEF Feed, Filled, Lacks
<1>1. /\ Shape(cl) /\ Staged(cl) /\ Good(cl, Filled, done, heard)
      /\ cl.kind = "view" /\ ~cl.ending /\ holder = c
  BY <1>0, Whose DEF Shape, Staged, Stage, Reading, KInv, VInv, LInv, Locked, Holds
<1>2. Told' /\ Contents'
  BY <1>0 DEF KInv, Told, Contents
<1>t. next \in {Iter, None, Nil, Odd} \union Cell /\ done \in BOOLEAN
  BY DEF KInv, VInv, LInv, Shapes
<1>g. Grown(Filled, done, heard, Filled, done, heard) /\ Filled \in Nat
  BY NothingGrows
<1> HIDE DEF cl
<1>3. CASE next = Iter
  <2> DEFINE e == [cl EXCEPT !.step = "feed"]
  <2>1. To(c, e) /\ UNCHANGED <<next, done>>
    BY <1>3, SourcesDiffer DEF Feed, cl
  <2>2. Good(e, Filled, done, heard)
    BY <1>0, <1>1, StepGood DEF Reading
  <2>3. e.step = "feed"
    BY <1>1 DEF Shape, Fields
  <2>4. Feeds(e, next, done, Filled)
    BY <1>0, <1>3, <2>3 DEF Feeds
  <2> HIDE DEF e
  <2>5. Told' /\ UNCHANGED <<spine, heard>>
    BY <1>0, <1>2, <2>1 DEF spine
  <2> QED
    BY <2>1, <2>2, <2>4, <2>5, Listens
<1>4. CASE next \in Cell
  <2> DEFINE e == [cl EXCEPT !.step = "force", !.cell = next, !.part = "head"]
  <2>1. To(c, e) /\ next' = None /\ done' = done
    BY <1>4, SourcesDiffer DEF Feed, cl
  <2>2. /\ e.kind = cl.kind /\ e.op = cl.op /\ e.start = cl.start /\ e.at = cl.at /\ e.n = cl.n
        /\ e.left = cl.left /\ e.prim = cl.prim /\ e.out = cl.out /\ e.head = cl.head
        /\ e.ending = cl.ending /\ e.step = "force" /\ e.cell = next
    BY <1>1 DEF Shape, Fields
  <2> HIDE DEF e
  <2>3. Good(e, Filled, done, heard)
    BY <1>0, <1>1, <2>2, SameGood DEF Reading
  <2>4. Feeds(e, None, done, Filled)
    BY <1>0, <1>4, <2>2 DEF Feeds, KInv, Sourced
  <2>5. Known'
    BY <1>0, <1>1, <1>g, <2>1, <2>3, <2>4, Learns
  <2>6. Sourced'
    BY <2>1, SourcesDiffer DEF Sourced
  <2> QED
    BY <1>2, <1>t, <2>1, <2>5, <2>6 DEF KInv
<1>5. CASE next \in {None, Nil}
  <2>1. done' = TRUE /\ next' = None /\ UNCHANGED call
    BY <1>5, SourcesDiffer DEF Feed
  <2>2. To(c, cl)
    BY <2>1 DEF To, cl, KInv, VInv, LInv, Shapes
  <2>3. Grown(Filled, done, heard, Filled, TRUE, heard)
    BY <1>g DEF Grown
  <2>4. Good(cl, Filled, TRUE, heard)
    BY <1>1, <2>3, KnowsStays DEF Good
  <2>5. Feeds(cl, None, TRUE, Filled)
    BY <1>0 DEF Feeds
  <2>6. Known'
    BY <1>0, <1>1, <2>1, <2>2, <2>3, <2>4, <2>5, Learns
  <2>7. Sourced'
    BY <2>1, SourcesDiffer DEF Sourced
  <2> QED
    BY <1>2, <2>1, <2>6, <2>7 DEF KInv
<1>6. CASE next = Odd
  <2> DEFINE e == Ended(cl, Error)
  <2>1. To(c, e) /\ next' = None /\ done' = done
    BY <1>6, SourcesDiffer DEF Feed, Fails, cl
  <2>2. Good(e, Filled, done, heard) /\ Feeds(e, None, done, Filled)
    BY <1>1, FailedGood
  <2> HIDE DEF e
  <2>5. Known'
    BY <1>0, <1>1, <1>g, <2>1, <2>2, Learns
  <2>6. Sourced'
    BY <2>1, SourcesDiffer DEF Sourced
  <2> QED
    BY <1>2, <1>t, <2>1, <2>5, <2>6 DEF KInv
<1> QED
  BY <1>t, <1>3, <1>4, <1>5, <1>6

\* An element comes to the end of the buffer.
LEMMA ElementComes ==
    ASSUME KInv, buffer' = Append(buffer, Filled), base' = base, ~done
    PROVE  Contents' /\ Filled' = Filled + 1 /\ Filled \in Nat
           /\ \A h, h2 : Grown(Filled, done, h, Filled, done, h2) => Grown(Filled, done, h, Filled', done, h2)
<1>1. buffer \in Seq(Nat) /\ base \in Nat /\ Len(buffer) \in Nat /\ Filled = base + Len(buffer) /\ Filled \in Nat
  BY DEF KInv, VInv, Typed, Filled
<1> DEFINE b == Append(buffer, Filled)
<1>2. /\ Len(b) = Len(buffer) + 1 /\ b[Len(buffer) + 1] = Filled
      /\ \A i \in 1..Len(buffer) : b[i] = buffer[i]
  BY <1>1
<1> HIDE DEF b
<1>3. buffer' = b
  BY DEF b
<1>4. Contents'
  <2> SUFFICES ASSUME NEW i \in 1..Len(b) PROVE b[i] = base + i - 1
    BY <1>3 DEF Contents
  <2>1. CASE i \in 1..Len(buffer)
    BY <1>2, <2>1 DEF KInv, Contents
  <2>2. CASE i = Len(buffer) + 1
    BY <1>1, <1>2, <2>2
  <2> QED
    BY <1>1, <1>2, <2>1, <2>2
<1>5. Filled' = Filled + 1
  BY <1>1, <1>2, <1>3 DEF Filled
<1> QED
  BY <1>1, <1>4, <1>5 DEF Grown

LEMMA IteratorKnows == ASSUME KInv, VInv', NEW c \in Caller, IteratorAnswers(c) PROVE KInv'
<1> DEFINE cl == call[c]
           e == [cl EXCEPT !.step = "fill"]
<1>0. /\ cl # Idle /\ cl.step = "feed" /\ UNCHANGED <<next, base, heard, cache>>
  BY DEF IteratorAnswers
<1>1. /\ Shape(cl) /\ Staged(cl) /\ Good(cl, Filled, done, heard)
      /\ cl.kind = "view" /\ ~cl.ending /\ holder = c /\ next = Iter /\ ~done
  BY <1>0, Whose DEF Shape, Staged, Stage, Reading, KInv, VInv, LInv, Locked, Holds, Feeds
<1>2. Told' /\ done \in BOOLEAN
  BY <1>0 DEF KInv, Told
<1>g. Grown(Filled, done, heard, Filled, done, heard) /\ Filled \in Nat
  BY NothingGrows
<1>e. e.step = "fill" /\ Good(e, Filled, done, heard)
  <2> HIDE DEF cl
  <2>1. e.step = "fill"
    BY <1>1 DEF Shape, Fields
  <2> QED
    BY <1>0, <1>1, <2>1, StepGood DEF Reading
<1>f. \A n, d, f : Feeds(e, n, d, f)
  BY <1>e DEF Feeds
<1>3. CASE /\ made' = made + 1 /\ buffer' = Append(buffer, made) /\ To(c, e) /\ UNCHANGED done
  <2> HIDE DEF e, cl
  <2>1. made = Filled
    BY <1>1 DEF KInv, Sourced
  <2>2. /\ Contents' /\ Filled' = Filled + 1
        /\ Grown(Filled, done, heard, Filled', done, heard)
    BY <1>0, <1>1, <1>3, <1>g, <2>1, ElementComes
  <2>3. Good(e, Filled', done, heard)
    BY <1>e, <2>2, KnowsStays DEF Good
  <2>4. Known'
    BY <1>0, <1>1, <1>3, <1>f, <2>2, <2>3, Learns
  <2>5. Sourced'
    BY <1>0, <1>1, <1>3, <2>1, <2>2, SourcesDiffer DEF Sourced
  <2> QED
    BY <1>2, <1>3, <2>2, <2>4, <2>5 DEF KInv
<1>4. CASE done' = TRUE /\ To(c, e) /\ UNCHANGED <<made, buffer>>
  <2> HIDE DEF e, cl
  <2>1. Filled' = Filled
    BY <1>0, <1>4 DEF Filled
  <2>2. Grown(Filled, done, heard, Filled, TRUE, heard)
    BY <1>g DEF Grown
  <2>3. Good(e, Filled, TRUE, heard)
    BY <1>e, <2>2, KnowsStays DEF Good
  <2>4. Known'
    BY <1>0, <1>1, <1>4, <1>f, <2>1, <2>2, <2>3, Learns
  <2>5. Contents' /\ Sourced'
    BY <1>0, <1>4, <2>1 DEF KInv, Contents, Sourced
  <2> QED
    BY <1>2, <1>4, <2>4, <2>5 DEF KInv
<1>5. CASE To(c, Ended(cl, Error)) /\ UNCHANGED <<made, buffer, done>>
  <2>1. Good(Ended(cl, Error), Filled, done, heard) /\ Feeds(Ended(cl, Error), next, done, Filled)
    BY <1>1, FailedGood
  <2> HIDE DEF e, cl
  <2> QED
    BY <1>0, <1>2, <1>5, <2>1, Listens DEF spine
<1> QED
  BY <1>3, <1>4, <1>5 DEF IteratorAnswers, Fails

LEMMA AnswersAreKept == ASSUME NEW i \in Cell, NEW p \in Part PROVE Answers(i, p) \subseteq Kept
BY ListBounds DEF Answers, Kept, Part

\* What a cell answers is what its place in the list says.
LEMMA CellResult ==
    ASSUME KInv, NEW cl, Shape(cl), cl.kind = "cell", Good(cl, Filled, done, heard), cl.step # "done",
           cl.cell = cl.at, cl.part = (IF cl.prim = "car" THEN "head" ELSE "tail"),
           cl.op \in Ops,
           NEW r \in Answers(cl.cell, cl.part), r # Error, NEW h,
           h = [heard EXCEPT ![cl.cell][cl.part] = @ \union {r}]
    PROVE  Result(cl, r, Filled, done, h)
<1>1. /\ cl.at \in Cell /\ cl.prim \in {"car", "cdr"} /\ cl.op \in {"car", "cdr", "get", "for_each"}
      /\ cl.part \in Part
  BY DEF Shape
<1>2. r \in h[cl.at][cl.part]
  BY <1>1 DEF KInv, VInv, LInv, Shapes
<1>3. /\ Cell \subseteq Nat /\ None \notin Nat /\ Nil \notin Nat /\ Odd \notin Nat
  BY OneIsCell, ListSentinels
<1>4. ~cl.ending /\ cl.at = cl.start + Len(cl.out)
  BY DEF Good, Walk
<1>5. CASE cl.prim = "car"
  <2>1. r = cl.at
    BY <1>5 DEF Answers
  <2>2. Has(Filled, h, "cell", cl.at) /\ r # None
    BY <1>1, <1>2, <1>3, <1>5, <2>1 DEF Has
  <2>3. CASE cl.op \in Walking
    BY <1>5, <2>1, <2>2, <2>3 DEF Result
  <2>4. CASE cl.op \notin Walking
    <3>1. cl.op = "car" /\ cl.out = <<>> /\ cl.n = 0 /\ cl.start \in Nat
      BY <1>5, <2>4 DEF Good, Walk
    <3>2. cl.at = cl.start + cl.n
      BY <1>4, <3>1
    <3> QED
      BY <2>1, <2>2, <2>4, <3>1, <3>2 DEF Result, Truth
  <2> QED
    BY <2>3, <2>4
<1>6. CASE cl.prim = "cdr"
  <2>1. CASE cl.op \in Walking
    <3>1. r \in Nat => r = cl.at + 1
      BY <1>1, <1>3, <1>6, ListBounds, ListSentinels DEF Answers
    <3>2. r \notin Nat => Ends(Filled, done, h, "cell", cl.at + 1)
      <4> SUFFICES ASSUME r \notin Nat PROVE Ends(Filled, done, h, "cell", cl.at + 1)
        OBVIOUS
      <4>1. r \in {None, Nil, Odd}
        BY <1>1, <1>3, <1>6, ListBounds DEF Answers
      <4>2. cl.part = "tail" /\ cl.at < cl.at + 1
        BY <1>1, <1>3, <1>6
      <4>3. h[cl.at].tail \intersect {None, Nil, Odd} # {}
        BY <1>2, <4>1, <4>2
      <4> QED
        BY <1>1, <4>2, <4>3 DEF Ends
    <3> QED
      BY <1>6, <2>1, <3>1, <3>2 DEF Result
  <2>2. CASE cl.op \notin Walking
    <3>1. cl.op = "cdr"
      BY <1>6, <2>2 DEF Good, Walk
    <3> QED
      BY <2>2, <3>1 DEF Result, Truth
  <2> QED
    BY <2>1, <2>2
<1> QED
  BY <1>1, <1>5, <1>6

\* A part of a cell is there: what the call learns from it.
LEMMA GetsKnows ==
    ASSUME KInv, VInv', NEW c \in Caller, call[c] # Idle, call[c].step \in {"force", "thunk"},
           NEW cl, Shape(cl), Staged(cl), cl.kind = call[c].kind, cl.step = "force",
           Good(cl, Filled, done, heard), Feeds(cl, next, done, Filled),
           cl.kind = "cell" => cl.cell = cl.at /\ cl.part = (IF cl.prim = "car" THEN "head" ELSE "tail"),
           NEW r \in Answers(cl.cell, cl.part), Gets(c, cl, r), Told'
    PROVE  KInv'
<1>0. /\ heard' = [heard EXCEPT ![cl.cell][cl.part] = @ \union {r}]
      /\ cl.cell \in Cell /\ cl.part \in Part /\ done \in BOOLEAN
      /\ cl.kind \in {"view", "cell"} /\ cl.op \in Ops
  <2>1. heard' = [heard EXCEPT ![cl.cell][cl.part] = @ \union {r}]
    BY DEF Gets
  <2>2. cl.cell \in Cell /\ cl.part \in Part /\ cl.kind \in {"view", "cell"}
    BY DEF Shape
  <2>3. cl.op \in Ops /\ done \in BOOLEAN
    BY DEF KInv, Staged, Frame
  <2> QED
    BY <2>1, <2>2, <2>3
<1>1. /\ Grown(Filled, done, heard, Filled, done, heard') /\ Filled \in Nat
  BY <1>0, NothingGrows DEF Grown, KInv, VInv, LInv, Shapes
<1>2. Good(cl, Filled, done, heard') /\ ~cl.ending
  BY <1>1, KnowsStays DEF Good, Walk, Staged, Stage, Reading, Shape
<1>3. CASE cl.kind = "cell"
  <2> DEFINE e == IF r = Error THEN Ended(cl, Error) ELSE Continued(cl, r)
  <2>1. To(c, e) /\ UNCHANGED <<next, made, buffer, base, done>>
    BY <1>3 DEF Gets, spine
  <2>2. Good(e, Filled, done, heard') /\ e.kind = "cell"
    <3>1. CASE r = Error
      BY <1>2, <1>3, <3>1, FailedGood, EndedShape
    <3>2. CASE r # Error
      <4>1. Result(cl, r, Filled, done, heard')
        BY <1>0, <1>3, <3>2, CellResult
      <4>2. r \in {None, Nil, Odd} \union Cell
        BY <1>0, <3>2, AnswersAreKept DEF Kept
      <4>3. cl.prim \in {"is_empty", "car", "cdr"}
        BY <1>3 DEF Shape
      <4> QED
        BY <1>1, <1>2, <1>3, <3>2, <4>1, <4>2, <4>3, ContinuedGood, ContinuedShape
    <3> QED
      BY <3>1, <3>2
  <2> HIDE DEF e
  <2>3. Filled' = Filled /\ Feeds(e, next, done, Filled)
    BY <2>1, <2>2 DEF Filled, Feeds
  <2>4. Known'
    BY <1>1, <2>1, <2>2, <2>3, Learns
  <2> QED
    BY <2>1, <2>3, <2>4 DEF KInv, Contents, Sourced
<1>4. CASE cl.kind = "view"
  <2>0. holder = c /\ next = None /\ ~done /\ cl.cell = Filled
    BY <1>4 DEF KInv, VInv, LInv, Locked, Holds, Feeds
  <2>1. CASE r = Error
    <3>1. To(c, Ended(cl, Error)) /\ UNCHANGED <<next, made, buffer, base, done>>
      BY <1>4, <2>1 DEF Gets, Fails, spine
    <3>2. Good(Ended(cl, Error), Filled, done, heard') /\ Feeds(Ended(cl, Error), next, done, Filled)
      BY <1>2, FailedGood
    <3>3. Filled' = Filled
      BY <3>1 DEF Filled
    <3>4. Known'
      BY <1>1, <3>1, <3>2, <3>3, Learns
    <3> QED
      BY <3>1, <3>3, <3>4 DEF KInv, Contents, Sourced
  <2>2. CASE r # Error /\ cl.part = "head"
    <3> DEFINE e == [cl EXCEPT !.part = "tail"]
    <3>1. To(c, e) /\ UNCHANGED <<next, made, buffer, base, done>>
      BY <1>4, <2>2 DEF Gets, spine
    <3>2. /\ e.kind = cl.kind /\ e.op = cl.op /\ e.start = cl.start /\ e.at = cl.at /\ e.n = cl.n
          /\ e.left = cl.left /\ e.prim = cl.prim /\ e.out = cl.out /\ e.head = cl.head
          /\ e.ending = cl.ending /\ e.step = "force" /\ e.cell = cl.cell
      BY DEF Shape, Fields
    <3> HIDE DEF e
    <3>3. Good(e, Filled, done, heard')
      BY <1>2, <3>2, SameGood DEF Reading
    <3>4. Filled' = Filled /\ Feeds(e, next, done, Filled)
      BY <2>0, <3>1, <3>2 DEF Filled, Feeds
    <3>5. Known'
      BY <1>1, <3>1, <3>3, <3>4, Learns
    <3> QED
      BY <3>1, <3>4, <3>5 DEF KInv, Contents, Sourced
  <2>3. CASE r # Error /\ cl.part = "tail"
    <3> DEFINE e == [cl EXCEPT !.step = "fill"]
    <3>1. /\ To(c, e) /\ buffer' = Append(buffer, cl.cell) /\ next' = r
          /\ UNCHANGED <<made, base, done>>
      BY <1>4, <2>3 DEF Gets, Streams
    <3>2. /\ Contents' /\ Filled' = Filled + 1
          /\ Grown(Filled, done, heard, Filled', done, heard')
      BY <1>1, <2>0, <3>1, ElementComes
    <3>3. Good(e, Filled, done, heard') /\ e.step = "fill"
      <4>1. e.step = "fill"
        BY DEF Shape, Fields
      <4> QED
        BY <1>2, <1>4, <4>1, StepGood DEF Reading
    <3>4. Good(e, Filled', done, heard') /\ Feeds(e, next', done', Filled')
      <4>1. Grown(Filled, done, heard', Filled', done, heard')
        BY <3>2 DEF Grown
      <4> QED
        BY <3>3, <4>1, KnowsStays DEF Good, Feeds
    <3> HIDE DEF e
    <3>5. Known'
      BY <2>0, <3>1, <3>2, <3>4, Learns
    <3>6. Sourced'
      <4>1. r \in CellEnds \union (Cell \intersect {Filled + 1})
        BY <2>0, <2>3 DEF Answers
      <4>2. r # Iter /\ (r \in Cell => r = Filled + 1)
        BY <4>1, ListBounds, SourcesDiffer
      <4> QED
        BY <3>1, <3>2, <4>2 DEF Sourced
    <3> QED
      BY <1>0, <3>1, <3>2, <3>5, <3>6 DEF KInv
  <2> QED
    BY <1>0, <2>1, <2>2, <2>3 DEF Part
<1> QED
  BY <1>0, <1>3, <1>4

\* What a OnceLock is given is what its thunk may answer, or no answer.
LEMMA CacheTold ==
    ASSUME KInv, NEW k \in Cell, NEW q \in Part,
           NEW r \in Answers(k, q) \union {Unforced} \union Caller,
           cache' = [cache EXCEPT ![k][q] = r]
    PROVE  Told'
<1>1. cache \in [Cell -> [Part -> Kept \union {Unforced} \union Caller]] /\ Told
  BY DEF KInv, VInv, LInv, Shapes
<1> SUFFICES ASSUME NEW i \in Cell, NEW p \in Part
             PROVE  cache'[i][p] \in Answers(i, p) \union {Unforced} \union Caller
  BY DEF Told
<1>2. cache'[i][p] = IF i = k /\ p = q THEN r ELSE cache[i][p]
  BY <1>1
<1> QED
  BY <1>1, <1>2 DEF Told

LEMMA AskKnows == ASSUME KInv, VInv', NEW c \in Caller, Ask(c) PROVE KInv'
<1> DEFINE w == call[c]
           cl == Wanted(w)
           now == cache[cl.cell][cl.part]
<1>0. /\ w # Idle /\ w.step = "force" /\ now \notin Caller
      /\ Shape(w) /\ Staged(w) /\ Good(w, Filled, done, heard) /\ Feeds(w, next, done, Filled)
  BY Whose DEF Ask
<1>1. Shape(cl) /\ Staged(cl) /\ cl.step = "force" /\ cl.kind = w.kind
  BY <1>0, WantedFollows
<1>2. /\ cl.kind = w.kind /\ cl.op = w.op /\ cl.start = w.start /\ cl.at = w.at /\ cl.n = w.n
      /\ cl.left = w.left /\ cl.prim = w.prim /\ cl.out = w.out /\ cl.head = w.head
      /\ cl.ending = w.ending
      /\ IF cl.kind = "cell" THEN cl.cell = cl.at /\ cl.part = (IF cl.prim = "car" THEN "head" ELSE "tail")
         ELSE cl = w
  <2>1. CASE w.kind = "view"
    BY <2>1 DEF Wanted
  <2>2. CASE w.kind = "cell"
    BY <1>0, <2>2 DEF Wanted, Shape, Fields
  <2> QED
    BY <1>0, <2>1, <2>2 DEF Shape
<1>3. ~w.ending
  BY <1>0 DEF Good, Walk, Staged, Stage, Shape, Reading
<1>4. Good(cl, Filled, done, heard) /\ Feeds(cl, next, done, Filled)
  <2> HIDE DEF w, cl
  <2>1. Good(cl, Filled, done, heard)
    BY <1>0, <1>1, <1>2, <1>3, SameGood DEF Reading
  <2> QED
    BY <1>0, <1>1, <1>2, <2>1 DEF Feeds
<1>5. now \in Answers(cl.cell, cl.part) \union {Unforced}
  BY <1>0, <1>1 DEF KInv, Told, Shape
<1>6. CASE now = Unforced
  <2> DEFINE e == [cl EXCEPT !.step = "thunk"]
  <2>1. /\ To(c, e) /\ UNCHANGED <<spine, heard>> /\ cache' = [cache EXCEPT ![cl.cell][cl.part] = c]
    BY <1>6 DEF Ask
  <2> HIDE DEF cl, w
  <2>2. /\ e.kind = cl.kind /\ e.op = cl.op /\ e.start = cl.start /\ e.at = cl.at /\ e.n = cl.n
        /\ e.left = cl.left /\ e.prim = cl.prim /\ e.out = cl.out /\ e.head = cl.head
        /\ e.ending = cl.ending /\ e.step = "thunk" /\ e.cell = cl.cell /\ e.part = cl.part
    BY <1>1 DEF Shape, Fields
  <2> HIDE DEF e
  <2>3. Good(e, Filled, done, heard)
    BY <1>1, <1>2, <1>3, <1>4, <2>2, SameGood DEF Reading
  <2>4. Feeds(e, next, done, Filled)
    BY <1>1, <1>4, <2>2 DEF Feeds
  <2>5. Told'
    <3>1. cl.cell \in Cell /\ cl.part \in Part
      BY <1>1 DEF Shape
    <3> QED
      BY <2>1, <3>1, CacheTold
  <2> QED
    BY <2>1, <2>3, <2>4, <2>5, Listens
<1>7. CASE now # Unforced
  <2>1. Gets(c, cl, now) /\ UNCHANGED cache
    BY <1>7 DEF Ask
  <2>2. Told'
    BY <2>1 DEF KInv, Told
  <2>3. now \in Answers(cl.cell, cl.part)
    BY <1>5, <1>7
  <2> HIDE DEF now, cl
  <2> QED
    BY <1>0, <1>1, <1>2, <1>4, <2>1, <2>2, <2>3, GetsKnows
<1> QED
  BY <1>6, <1>7

LEMMA AnswerKnows ==
    ASSUME KInv, VInv', NEW c \in Caller, NEW r \in {None, Nil, Odd, Error} \union Cell,
           ThunkAnswers(c, r)
    PROVE  KInv'
<1> DEFINE w == call[c]
           cl == [w EXCEPT !.step = "force"]
<1>0. /\ w # Idle /\ w.step = "thunk" /\ r \in Answers(w.cell, w.part) /\ Gets(c, cl, r)
      /\ cache' = [cache EXCEPT ![w.cell][w.part] = r]
      /\ Shape(w) /\ Staged(w) /\ Good(w, Filled, done, heard) /\ Feeds(w, next, done, Filled)
  BY Whose DEF ThunkAnswers, Keeps
<1>t. Told'
  <2>1. w.cell \in Cell /\ w.part \in Part
    BY <1>0 DEF Shape
  <2> QED
    BY <1>0, <2>1, CacheTold
<1> HIDE DEF w
<1>1. /\ Shape(cl) /\ cl.kind = w.kind /\ cl.step = "force" /\ cl.op = w.op
      /\ cl.on = w.on /\ cl.start = w.start /\ cl.into = w.into /\ cl.n = w.n /\ cl.left = w.left
      /\ cl.at = w.at /\ cl.prim = w.prim /\ cl.tail = w.tail /\ cl.out = w.out /\ cl.head = w.head
      /\ cl.drop = w.drop /\ cl.ending = w.ending /\ cl.cell = w.cell /\ cl.part = w.part
  BY <1>0 DEF Shape, Fields, StepNames, Reading
<1> HIDE DEF cl
<1>2. Staged(cl)
  BY <1>0, <1>1, ReadsOn DEF Reading
<1>3. ~w.ending
  BY <1>0 DEF Good, Walk, Staged, Stage, Shape, Reading
<1>4. Good(cl, Filled, done, heard) /\ Feeds(cl, next, done, Filled)
  <2>1. Good(cl, Filled, done, heard)
    BY <1>0, <1>1, <1>3, SameGood DEF Reading
  <2> QED
    BY <1>0, <1>1, <2>1 DEF Feeds
<1>5. cl.kind = "cell" => cl.cell = cl.at /\ cl.part = (IF cl.prim = "car" THEN "head" ELSE "tail")
  BY <1>0, <1>1 DEF Good, Walk
<1> QED
  BY <1>0, <1>1, <1>2, <1>4, <1>5, <1>t, GetsKnows DEF w

LEMMA PanicKnows == ASSUME KInv, VInv', NEW c \in Caller, ThunkPanics(c) PROVE KInv'
<1> DEFINE cl == call[c]
<1>0. /\ cl # Idle /\ UNCHANGED <<spine, heard>> /\ To(c, Ended(cl, Error))
      /\ cache' = [cache EXCEPT ![cl.cell][cl.part] = Unforced]
      /\ Shape(cl) /\ Good(cl, Filled, done, heard)
  BY Whose DEF ThunkPanics
<1>1. Told'
  <2>1. cl.cell \in Cell /\ cl.part \in Part
    BY <1>0 DEF Shape
  <2> QED
    BY <1>0, <2>1, CacheTold
<1> HIDE DEF cl
<1> QED
  BY <1>0, <1>1, FailedGood, Listens

LEMMA ReturnKnows == ASSUME KInv, VInv', NEW c \in Caller, Return(c) PROVE KInv'
<1>1. To(c, Idle) /\ UNCHANGED <<spine, heard>> /\ Told'
  BY DEF Return, KInv, Told
<1> QED
  BY <1>1, Listens

LEMMA BeginKnows ==
    ASSUME KInv, VInv', NEW c \in Caller, NEW op \in Ops, NEW n \in Bounds(op), NEW into, NEW on,
           NEW kind \in {"view", "cell"}, NEW at \in Nat, kind = "cell" => op \in {"car", "cdr", "get", "for_each"},
           Begins(c, kind, op, on, at, n, into)
    PROVE  KInv'
<1> DEFINE e == [kind |-> kind, op |-> op, on |-> on, start |-> at, at |-> at, n |-> n, left |-> n,
              prim |-> First(op), step |-> FirstStep(kind, op), cell |-> 1, part |-> "head",
              head |-> None, tail |-> None, drop |-> None, into |-> into, out |-> <<>>,
              said |-> None, ending |-> FALSE]
<1>0. To(c, e) /\ UNCHANGED <<spine, heard>> /\ Told'
  BY DEF Begins, KInv, Told
<1>1. /\ e.kind = kind /\ e.op = op /\ e.start = at /\ e.at = at /\ e.n = n /\ e.left = n
      /\ e.prim = First(op) /\ e.step = FirstStep(kind, op) /\ e.out = <<>> /\ e.ending = FALSE
  OBVIOUS
<1> HIDE DEF e
<1>2. /\ FirstStep(kind, op) \in {"force", "register", "unregister", "lock"}
      /\ kind = "cell" => FirstStep(kind, op) = "force"
      /\ kind = "view" => FirstStep(kind, op) # "force"
      /\ op \in Walking => FirstStep(kind, op) \in {"force", "lock"} /\ First(op) = "car"
      /\ op \notin Walking => First(op) = op
  <2>1. CASE kind = "cell"
    <3>1. FirstStep(kind, op) = "force"
      <4>1. op \notin {"clone", "drop"}
        BY <2>1
      <4> QED
        BY <2>1, <4>1 DEF FirstStep
    <3> QED
      BY <2>1, <3>1 DEF First, Walking
  <2>2. CASE kind = "view" /\ op \in {"clone", "drop"}
    BY <2>2 DEF FirstStep, First, Walking
  <2>3. CASE kind = "view" /\ op \notin {"clone", "drop"}
    <3>1. FirstStep(kind, op) = "lock"
      BY <2>3 DEF FirstStep
    <3> QED
      BY <2>3, <3>1 DEF First, Walking
  <2> QED
    BY <2>1, <2>2, <2>3
<1>n. n \in Nat /\ (op \in {"is_empty", "car", "cdr"} => n = 0)
  BY ListBounds DEF Bounds
<1>3. Walk(e)
  <2>1. Len(e.out) = 0 /\ e.out \in Seq(Nat)
    BY <1>1
  <2>2. /\ e.start \in Nat /\ e.at \in Nat /\ e.n \in Nat /\ e.left \in Nat
        /\ e.left + Len(e.out) = e.n /\ e.at = e.start + Len(e.out)
    BY <1>1, <1>n, <2>1
  <2>3. /\ e.op \notin Walking => e.prim = e.op
        /\ e.op \in {"is_empty", "car", "cdr"} => e.n = 0
        /\ e.op = "len_cmp" => e.kind = "view"
        /\ e.kind = "cell" => e.step = "force"
        /\ e.op \in Walking => e.step \in {"force", "lock"}
    BY <1>1, <1>2, <1>n
  <2> QED
    BY <1>1, <2>1, <2>2, <2>3 DEF Walk
<1>4. Knows(e, Filled, done, heard)
  BY <1>1, <1>2 DEF Knows, Trail
<1>5. Feeds(e, next, done, Filled)
  BY <1>1, <1>2 DEF Feeds
<1> QED
  BY <1>0, <1>3, <1>4, <1>5, Listens DEF Good

\* The buffer is filled as far as it has to be: what the call learns from it.
LEMMA FillingKnows == ASSUME KInv, VInv', NEW c \in Caller, Filling(c) PROVE KInv'
<1> DEFINE cl == call[c]
           empty == Filled <= cl.at
<1>0. /\ cl # Idle /\ cl.step = "fill" /\ UNCHANGED <<spine, heard>> /\ Told'
      /\ (Filled < Need(cl) => done)
  BY DEF Filling, KInv, Told, Lacks
<1>1. /\ Shape(cl) /\ Staged(cl) /\ Good(cl, Filled, done, heard) /\ cl.kind = "view" /\ ~cl.ending
      /\ cl.prim \in {"is_empty", "car", "cdr", "len_cmp"} /\ base <= cl.at
      /\ cl.at \in Nat /\ cl.left \in Nat /\ cl.n \in Nat /\ cl.start \in Nat
      /\ cl.op \in Walking => cl.prim \in {"is_empty", "car", "cdr"}
      /\ cl.op \notin Walking => cl.prim = cl.op /\ cl.at = cl.start /\ cl.left = cl.n
      /\ cl.op \in {"is_empty", "car", "cdr"} => cl.n = 0
  <2>1. /\ Shape(cl) /\ Staged(cl) /\ Good(cl, Filled, done, heard)
    BY <1>0, Whose
  <2>2. cl.kind = "view" /\ ~cl.ending /\ cl.prim \in {"is_empty", "car", "cdr", "len_cmp"}
    BY <1>0, <2>1 DEF Shape, Staged, Stage, Reading
  <2>3. base <= cl.at
    BY <1>0, <2>2, ItsPlace DEF KInv, Reading
  <2> HIDE DEF cl
  <2>4. /\ cl.at \in Nat /\ cl.left \in Nat /\ cl.n \in Nat /\ cl.start \in Nat
        /\ cl.op \in {"is_empty", "car", "cdr"} => cl.n = 0
    BY <2>1 DEF Good, Walk
  <2>5. cl.op \in Walking => cl.prim \in {"is_empty", "car", "cdr"}
    BY <2>1, <2>2 DEF Staged, Frame
  <2>6. cl.op \notin Walking => cl.prim = cl.op /\ cl.at = cl.start /\ cl.left = cl.n
    <3> SUFFICES ASSUME cl.op \notin Walking PROVE cl.prim = cl.op /\ cl.at = cl.start /\ cl.left = cl.n
      OBVIOUS
    <3>1. /\ cl.prim = cl.op /\ cl.out = <<>> /\ cl.at = cl.start + Len(cl.out)
          /\ cl.left + Len(cl.out) = cl.n
      BY <1>0, <2>1, <2>2 DEF Good, Walk
    <3>2. Len(cl.out) = 0
      BY <3>1
    <3> QED
      BY <2>4, <3>1, <3>2
  <2> QED
    BY <2>1, <2>2, <2>3, <2>4, <2>5, <2>6
<1>n. /\ Filled \in Nat /\ base \in Nat /\ Len(buffer) \in Nat /\ Filled = base + Len(buffer)
      /\ None \notin Nat /\ Error \notin Int
  BY ListSentinels DEF KInv, VInv, Typed, Filled
<1> HIDE DEF cl
<1>2. empty => done
  <2>1. Need(cl) >= cl.at + 1
    BY <1>1 DEF Need
  <2>2. empty => Filled < Need(cl)
    BY <1>1, <1>n, <2>1 DEF Need
  <2> QED
    BY <1>0, <2>2
<1>3. /\ empty => Ends(Filled, done, heard, "view", cl.at)
      /\ ~empty => Has(Filled, heard, "view", cl.at)
  BY <1>1, <1>2, <1>n DEF Ends, Has
<1>4. ASSUME NEW r, Result(cl, r, Filled, done, heard), r # Error, To(c, Continued(cl, r))
      PROVE  KInv'
  <2>1. Good(Continued(cl, r), Filled, done, heard)
    BY <1>0, <1>1, <1>n, <1>4, ContinuedGood
  <2>2. Continued(cl, r).step \in {"lock", "unregister", "done"}
    BY <1>1, ContinuedShape
  <2>3. Feeds(Continued(cl, r), next, done, Filled)
    BY <2>2 DEF Feeds
  <2> QED
    BY <1>0, <1>4, <2>1, <2>3, Listens
<1>5. CASE cl.prim = "is_empty"
  <2> DEFINE r == IF empty THEN 0 ELSE 1
  <2>1. To(c, Continued(cl, r))
    BY <1>5 DEF Filling, cl
  <2>2. Result(cl, r, Filled, done, heard) /\ r # Error
    BY <1>1, <1>3, <1>5, <1>n DEF Result, Truth
  <2> HIDE DEF r
  <2> QED
    BY <1>4, <2>1, <2>2
<1>6. CASE cl.prim = "car"
  <2> DEFINE r == IF empty THEN None ELSE buffer[cl.at - base + 1]
  <2>1. To(c, Continued(cl, r))
    BY <1>6 DEF Filling, cl
  <2>2. ~empty => r = cl.at
    <3> SUFFICES ASSUME ~empty PROVE buffer[cl.at - base + 1] = cl.at
      OBVIOUS
    <3>1. cl.at - base + 1 \in 1..Len(buffer)
      BY <1>1, <1>n
    <3>2. buffer[cl.at - base + 1] = base + (cl.at - base + 1) - 1
      BY <3>1 DEF KInv, Contents
    <3> QED
      BY <1>1, <1>n, <3>2
  <2>3. IF r = None THEN Ends(Filled, done, heard, "view", cl.at)
        ELSE r = cl.at /\ Has(Filled, heard, "view", cl.at)
    BY <1>1, <1>3, <1>n, <2>2
  <2>4. r # Error
    BY <1>1, <1>n, <2>2, SourcesDiffer
  <2> HIDE DEF r
  <2>5. Result(cl, r, Filled, done, heard)
    <3>1. CASE cl.op \in Walking
      BY <1>1, <1>6, <2>3, <3>1 DEF Result
    <3>2. CASE cl.op \notin Walking
      <4>1. cl.op = "car" /\ cl.start + cl.n = cl.at
        BY <1>1, <1>6, <3>2
      <4> QED
        BY <1>1, <2>3, <3>2, <4>1 DEF Result, Truth
    <3> QED
      BY <3>1, <3>2
  <2> QED
    BY <1>4, <2>1, <2>4, <2>5
<1>7. CASE cl.prim = "cdr" /\ empty
  <2>1. To(c, Continued(cl, None))
    BY <1>7 DEF Filling, cl
  <2>2. Result(cl, None, Filled, done, heard) /\ None # Error
    BY <1>1, <1>3, <1>7, SourcesDiffer DEF Result, Truth
  <2> QED
    BY <1>4, <2>1, <2>2
<1>8. CASE cl.prim = "cdr" /\ ~empty
  <2> DEFINE e == [cl EXCEPT !.step = "register"]
  <2>1. To(c, e)
    BY <1>8 DEF Filling, cl
  <2>2. /\ e.kind = cl.kind /\ e.op = cl.op /\ e.start = cl.start /\ e.at = cl.at /\ e.n = cl.n
        /\ e.left = cl.left /\ e.prim = cl.prim /\ e.out = cl.out /\ e.head = cl.head
        /\ e.ending = cl.ending /\ e.step = "register"
    BY <1>1 DEF Shape, Fields
  <2> HIDE DEF e
  <2>3. Good(e, Filled, done, heard)
    BY <1>0, <1>1, <1>8, <2>2, SameGood DEF Reading
  <2>4. Feeds(e, next, done, Filled)
    BY <2>2 DEF Feeds
  <2> QED
    BY <1>0, <2>1, <2>3, <2>4, Listens
<1>9. CASE cl.prim = "len_cmp"
  <2> DEFINE r == Compared(Filled - cl.at, cl.left)
  <2>1. To(c, Continued(cl, r))
    BY <1>9 DEF Filling, cl
  <2>2. cl.op = "len_cmp" /\ cl.at = cl.start /\ cl.left = cl.n /\ cl.op \notin Walking
    BY <1>1, <1>9 DEF Walking
  <2>3. /\ r \in {-1, 0, 1} /\ (r > 0 <=> cl.start + cl.n < Filled)
        /\ r = 0 <=> Filled = cl.start + cl.n
    BY <1>1, <1>n, <2>2 DEF Compared
  <2> HIDE DEF r
  <2>4. r <= 0 => done /\ Filled <= cl.start + cl.n
    <3>1. r <= 0 => Filled <= cl.start + cl.n
      BY <1>1, <1>n, <2>3
    <3>2. Need(cl) = cl.start + 1 + cl.n
      BY <1>9, <2>2 DEF Need
    <3> QED
      BY <1>0, <1>1, <1>n, <3>1, <3>2
  <2>5. Truth(cl, r, Filled, done, heard)
    BY <1>1, <2>2, <2>3, <2>4 DEF Truth, Has, Ends
  <2>6. Result(cl, r, Filled, done, heard) /\ r # Error
    BY <1>n, <2>2, <2>3, <2>5 DEF Result
  <2> QED
    BY <1>4, <2>1, <2>6
<1> QED
  BY <1>1, <1>5, <1>6, <1>7, <1>8, <1>9

LEMMA RegisterKnows == ASSUME KInv, VInv', NEW c \in Caller, Register(c) PROVE KInv'
<1> DEFINE cl == call[c]
           start == IF cl.op = "clone" THEN cl.at ELSE cl.at + 1
<1>0. /\ cl # Idle /\ cl.step = "register" /\ UNCHANGED <<spine, heard>> /\ Told'
  BY DEF Register, KInv, Told
<1>1. /\ Shape(cl) /\ Staged(cl) /\ Good(cl, Filled, done, heard) /\ cl.kind = "view" /\ ~cl.ending
      /\ cl.op # "clone" => cl.at < Filled
  BY <1>0, Whose DEF Shape, Staged, Stage, Reading, KInv, VInv, Room
<1>2. /\ Walk(cl) /\ Trail(cl, Filled, heard) /\ cl.at \in Nat /\ cl.out \in Seq(Nat)
      /\ cl.op \in Walking \union {"cdr", "clone"}
      /\ cl.op \notin Walking => cl.at = cl.start
      /\ None \notin Nat
  BY <1>0, <1>1, ListSentinels DEF Good, Knows, Walk, Staged, Stage, Frame
<1> HIDE DEF cl
<1>3. CASE cl.op \in {"cdr", "clone"}
  <2>1. To(c, Ended(cl, start))
    BY <1>3 DEF Register, cl
  <2>2. Truth(cl, start, Filled, done, heard)
    BY <1>1, <1>2, <1>3 DEF Truth, Has, Walking
  <2>3. Good(Ended(cl, start), Filled, done, heard)
    BY <1>1, <1>2, <2>2, EndedGood
  <2>4. Feeds(Ended(cl, start), next, done, Filled)
    <3>1. Ended(cl, start).step \in {"unregister", "done"}
      BY <1>1, EndedShape
    <3> QED
      BY <3>1 DEF Feeds
  <2> HIDE DEF start
  <2> QED
    BY <1>0, <2>1, <2>3, <2>4, Listens
<1>4. CASE cl.op \in Walking
  <2>0. start = cl.at + 1 /\ start \in Nat /\ cl.op \notin {"cdr", "clone"}
    BY <1>2, <1>4 DEF Walking
  <2>1. Read(cl, Filled, done, heard) /\ cl.prim = "cdr" /\ Tracks(cl)
    BY <1>0, <1>1, <1>2, <1>4 DEF Good, Knows, Walk, Tracks
  <2>2. CASE cl.tail = None
    <3> DEFINE w == [cl EXCEPT !.tail = start]
    <3>1. To(c, Walked(w))
      BY <2>0, <2>2 DEF Register, cl
    <3>2. /\ Shape(w) /\ w.kind = cl.kind /\ w.op = cl.op /\ w.start = cl.start /\ w.at = cl.at /\ w.n = cl.n
          /\ w.left = cl.left /\ w.out = cl.out /\ w.ending = cl.ending /\ w.head = cl.head
          /\ w.tail = start
      BY <1>1 DEF Shape, Fields
    <3> HIDE DEF w, start
    <3>3. Tracks(w) /\ Trail(w, Filled, heard) /\ Read(w, Filled, done, heard)
      BY <1>2, <2>1, <3>2 DEF Tracks, Trail, Read
    <3>4. Filled \in Int
      BY NothingGrows
    <3>5. Good(Walked(w), Filled, done, heard)
      BY <2>0, <3>2, <3>3, <3>4, WalkedGood
    <3>6. Walked(w).step \in {"lock", "unregister", "done"}
      BY <1>1, <3>2, WalkedShape DEF Part1
    <3>7. Feeds(Walked(w), next, done, Filled)
      BY <3>6 DEF Feeds
    <3> QED
      BY <1>0, <3>1, <3>5, <3>7, Listens
  <2>3. CASE cl.tail # None
    <3> DEFINE e == [cl EXCEPT !.tail = start, !.drop = cl.tail, !.step = "unregister"]
    <3>1. To(c, e)
      BY <2>0, <2>3 DEF Register, cl
    <3>2. /\ e.kind = cl.kind /\ e.op = cl.op /\ e.start = cl.start /\ e.at = cl.at /\ e.n = cl.n
          /\ e.left = cl.left /\ e.prim = cl.prim /\ e.out = cl.out /\ e.ending = cl.ending /\ e.head = cl.head
          /\ e.tail = start /\ e.step = "unregister"
      BY <1>1 DEF Shape, Fields
    <3> HIDE DEF e, start
    <3>3. Walk(e)
      BY <1>0, <1>1, <1>2, <1>4, <2>0, <2>1, <3>2 DEF Walk
    <3>4. Knows(e, Filled, done, heard)
      BY <1>1, <1>2, <2>0, <2>1, <3>2 DEF Knows, Trail, Read
    <3>5. Feeds(e, next, done, Filled)
      BY <3>2 DEF Feeds
    <3> QED
      BY <1>0, <3>1, <3>3, <3>4, <3>5, Listens DEF Good
  <2> QED
    BY <2>2, <2>3
<1> QED
  BY <1>2, <1>3, <1>4

\* What leaves the buffer takes nothing with it.
LEMMA ReclaimedContents ==
    ASSUME KInv, NEW s \in BagToSet(live), Unregisters(s)
    PROVE  Contents' /\ Filled' = Filled
<1>1. Filled' = Filled
  BY UnregisterBuffer DEF KInv
<1> DEFINE over == Floor(live', s) - base
           n == IF over < 0 THEN 0 ELSE IF over > Len(buffer) THEN Len(buffer) ELSE over
<1>2. buffer' = SubSeq(buffer, n + 1, Len(buffer)) /\ base' = base + n
  BY DEF Unregisters
<1>3. /\ base \in Nat /\ base' \in Nat /\ buffer \in Seq(Nat) /\ buffer' \in Seq(Nat)
      /\ Len(buffer) \in Nat /\ Len(buffer') \in Nat
  BY UnregisterBuffer DEF KInv, VInv, Typed
<1>4. n \in Int /\ n = base' - base
  <2>1. n \in Int
    <3>1. CASE over < 0
      BY <3>1
    <3>2. CASE ~(over < 0) /\ over > Len(buffer)
      BY <1>3, <3>2
    <3>3. CASE ~(over < 0) /\ ~(over > Len(buffer))
      <4>1. BagOfNats(live') /\ BagToSet(live) \subseteq Nat
        BY UnregisterBuffer DEF KInv, VInv, Census, BagOfNats
      <4>2. Floor(live', s) \in Int
        <5>1. CASE BagToSet(live') = {}
          BY <1>3, <5>1 DEF Floor, Filled
        <5>2. CASE BagToSet(live') # {}
          <6>1. \E m \in BagToSet(live') : \A o \in BagToSet(live') : m <= o
            BY <4>1, <5>2, LeastOfNaturals DEF BagOfNats
          <6>2. Floor(live', s) = CHOOSE m \in BagToSet(live') : \A o \in BagToSet(live') : m <= o
            BY <5>2 DEF Floor
          <6>3. Floor(live', s) \in BagToSet(live')
            BY <6>1, <6>2
          <6> QED
            BY <4>1, <6>3 DEF BagOfNats
        <5> QED
          BY <5>1, <5>2
      <4> QED
        BY <1>3, <3>3, <4>2
    <3> QED
      BY <3>1, <3>2, <3>3
  <2> HIDE DEF n
  <2> QED
    BY <1>2, <1>3, <2>1
<1> HIDE DEF n
<1>5. n \in Nat /\ n <= Len(buffer) /\ Len(buffer') = Len(buffer) - n
  <2>1. base' + Len(buffer') = base + Len(buffer)
    BY <1>1 DEF Filled
  <2> DEFINE k == Len(buffer)
             m == Len(buffer')
  <2>2. k \in Nat /\ m \in Nat /\ base' + m = base + k
    BY <1>3, <2>1
  <2>3. n \in Int /\ n >= 0
    BY <1>4 DEF n
  <2>4. base \in Nat /\ base' = base + n
    BY <1>2, <1>3
  <2> HIDE DEF k, m
  <2>5. m = k - n /\ n \in Nat /\ n <= k
    BY <2>2, <2>3, <2>4
  <2> QED
    BY <2>5 DEF k, m
<1>6. Contents'
  <2> SUFFICES ASSUME NEW i \in 1..Len(buffer') PROVE buffer'[i] = base' + i - 1
    BY DEF Contents
  <2>1. i + n \in 1..Len(buffer) /\ i \in 1..(Len(buffer) - n)
    BY <1>3, <1>5
  <2>2. buffer'[i] = buffer[i + n]
    BY <1>2, <1>3, <1>5, <2>1
  <2>3. buffer[i + n] = base + (i + n) - 1
    BY <2>1 DEF KInv, Contents
  <2> QED
    BY <1>2, <1>3, <1>5, <2>2, <2>3
<1> QED
  BY <1>1, <1>6

LEMMA UnregisterKnows == ASSUME KInv, VInv', NEW c \in Caller, Unregister(c) PROVE KInv'
<1> DEFINE cl == call[c]
           w == [cl EXCEPT !.drop = None]
           s == IF cl.op = "drop" THEN cl.at ELSE cl.drop
<1>0. /\ cl # Idle /\ cl.step = "unregister" /\ UNCHANGED heard /\ Told'
      /\ Shape(cl) /\ Staged(cl) /\ Good(cl, Filled, done, heard)
  BY Whose DEF Unregister, KInv, Told
<1>1. /\ Shape(w) /\ w.kind = cl.kind /\ w.op = cl.op /\ w.start = cl.start /\ w.at = cl.at /\ w.n = cl.n
      /\ w.left = cl.left /\ w.out = cl.out /\ w.ending = cl.ending /\ w.head = cl.head
      /\ w.tail = cl.tail /\ w.said = cl.said /\ w.prim = cl.prim
  BY <1>0 DEF Shape, Fields
<1>2. cl.kind = "view" /\ Walk(cl) /\ Trail(cl, Filled, heard) /\ "drop" \notin Walking
      /\ (cl.op = "drop" \/ cl.op \in Walking)
  BY <1>0 DEF Shape, Good, Knows, Walking, Staged, Stage
<1>3. s \in BagToSet(live) /\ Unregisters(s)
  <2>1. Unregisters(s)
    BY <1>0, <1>1 DEF Unregister
  <2>2. CASE cl.op = "drop"
    <3>1. cl.at = cl.start
      BY <1>0, <1>2, <2>2 DEF Staged, Frame
    <3> QED
      BY <1>0, <1>2, <2>1, <2>2, <3>1, ItsView DEF Using, KInv
  <2>3. CASE cl.op # "drop"
    <3>1. Drops(cl.drop) # {}
      BY <1>0 DEF Drops
    <3>2. cl.drop \in Nat
      BY <1>0, <1>2, <2>3 DEF Staged, Stage
    <3> QED
      BY <2>1, <2>3, <3>1, <3>2, CensusMembers DEF KInv, VInv
  <2> QED
    BY <2>2, <2>3
<1> HIDE DEF s
<1>4. Contents' /\ Filled' = Filled /\ UNCHANGED <<next, made, done>>
  BY <1>3, ReclaimedContents DEF Unregisters
<1> DEFINE e == IF cl.op = "drop" \/ w.ending THEN [w EXCEPT !.step = "done"] ELSE Walked(w)
<1>5. To(c, e)
  BY <1>1 DEF Unregister
<1> HIDE DEF cl, w
<1>6. Good(e, Filled, done, heard) /\ Feeds(e, next, done, Filled)
  <2>1. CASE cl.op = "drop" \/ w.ending
    <3>1. /\ e.kind = cl.kind /\ e.op = cl.op /\ e.start = cl.start /\ e.at = cl.at /\ e.n = cl.n
          /\ e.left = cl.left /\ e.out = cl.out /\ e.ending = cl.ending /\ e.said = cl.said
          /\ e.prim = cl.prim /\ e.step = "done"
      BY <1>1, <2>1 DEF Shape, Fields
    <3> HIDE DEF e
    <3>2. Walk(e)
      BY <1>2, <3>1 DEF Walk
    <3>3. e.said # Error => Truth(e, e.said, Filled, done, heard)
      <4>1. CASE cl.op = "drop"
        BY <3>1, <4>1 DEF Truth
      <4>2. CASE cl.ending
        <5>1. cl.said # Error => Truth(cl, cl.said, Filled, done, heard)
          BY <1>0, <4>2 DEF Good, Knows
        <5> QED
          BY <3>1, <5>1 DEF Truth
      <4> QED
        BY <1>1, <2>1, <4>1, <4>2
    <3>4. Knows(e, Filled, done, heard)
      BY <1>2, <3>1, <3>3 DEF Knows, Trail
    <3> QED
      BY <3>1, <3>2, <3>4 DEF Good, Feeds
  <2>2. CASE ~(cl.op = "drop" \/ w.ending)
    <3>0. e = Walked(w)
      BY <2>2
    <3>1. cl.op \in Walking /\ ~cl.ending
      BY <1>1, <1>2, <2>2
    <3>2. /\ cl.prim = "cdr" /\ Read(cl, Filled, done, heard) /\ (cl.tail = None \/ cl.tail = cl.at + 1)
          /\ cl.tail = None => cl.head = None
      BY <1>0, <1>2, <3>1 DEF Good, Knows, Walk
    <3>3. Tracks(w) /\ Trail(w, Filled, heard) /\ Read(w, Filled, done, heard)
      BY <1>0, <1>1, <1>2, <3>1, <3>2 DEF Tracks, Trail, Read, Walk
    <3>4. Filled \in Int /\ w.at \in Nat
      BY <1>1, <1>2, NothingGrows DEF Walk
    <3>5. /\ w.tail \in Nat => w.tail = w.at + 1
          /\ w.tail \notin Nat => w.head = None
      BY <1>1, <3>2, <3>4, ListSentinels
    <3>6. Good(Walked(w), Filled, done, heard)
      BY <1>1, <3>3, <3>4, <3>5, WalkedGood
    <3>7. Walked(w).step \in {"lock", "unregister", "done"}
      BY <1>1, <1>2, WalkedShape DEF Part1
    <3> QED
      BY <3>0, <3>6, <3>7 DEF Feeds
  <2> QED
    BY <2>1, <2>2
<1> HIDE DEF e
<1>7. Known'
  BY <1>0, <1>4, <1>5, <1>6, NothingGrows, Learns
<1>8. Sourced' /\ done' \in BOOLEAN
  BY <1>4 DEF KInv, Sourced
<1> QED
  BY <1>0, <1>4, <1>7, <1>8 DEF KInv

LEMMA InitKnows == Init /\ VInv => KInv
<1> SUFFICES ASSUME Init, VInv PROVE KInv
  OBVIOUS
<1>1. /\ base = 0 /\ made = 0 /\ buffer = (IF next = Iter THEN <<>> ELSE <<0>>) /\ done = FALSE
      /\ next \in {Iter, 1, Nil} /\ \A c \in Caller : call[c] = Idle
      /\ \A i \in Cell, p \in Part : cache[i][p] = Unforced
  BY DEF Init, NewCells
<1>2. Filled = IF next = Iter THEN 0 ELSE 1
  BY <1>1 DEF Filled
<1>3. Contents
  BY <1>1 DEF Contents
<1>4. Sourced
  BY <1>1, <1>2, SourcesDiffer DEF Sourced
<1>5. Told /\ Known
  BY <1>1 DEF Told, Known
<1> QED
  BY <1>1, <1>3, <1>4, <1>5 DEF KInv

LEMMA NextKnows == KInv /\ VInv' /\ [Next]_vars => KInv'
<1> SUFFICES ASSUME KInv, VInv', [Next]_vars PROVE KInv'
  OBVIOUS
<1>1. CASE UNCHANGED vars
  BY <1>1 DEF vars, spine, KInv, Contents, Sourced, Told, Known, Filled
<1>2. ASSUME NEW c \in Caller, Steps(c) PROVE KInv'
  BY <1>2, LockKnows, FeedKnows, IteratorKnows, FillingKnows, AskKnows, PanicKnows, AnswerKnows,
     RegisterKnows, UnregisterKnows, ReturnKnows DEF Steps
<1>3. ASSUME NEW c \in Caller, NEW op \in Ops, NEW n \in 0..Deepest, NEW v \in View, CallView(c, op, v, n)
      PROVE  KInv'
  <2>1. PICK into : Begins(c, "view", op, v, view[v], n, into)
    BY <1>3 DEF CallView
  <2>2. view[v] \in Nat /\ n \in Bounds(op)
    BY <1>3 DEF CallView, KInv, VInv, Typed
  <2> QED
    BY <2>1, <2>2, BeginKnows
<1>4. ASSUME NEW c \in Caller, NEW op \in Ops, NEW n \in 0..Deepest, NEW i \in Cell, CallCell(c, op, i, n)
      PROVE  KInv'
  <2>1. /\ n \in Bounds(op) /\ op \in {"car", "cdr", "get", "for_each"} /\ i \in Nat
        /\ Begins(c, "cell", op, i, i, n, None)
    BY <1>4, OneIsCell DEF CallCell
  <2> QED
    BY <2>1, BeginKnows
<1> QED
  BY <1>1, <1>2, <1>3, <1>4 DEF Next

\* iter.rs:120-175, 316-411, lazy.rs:223-298: element i of the list is at place i, and what
\* every call has learned so far is true of it, whoever else reads, fills or drops.
THEOREM AnswersInvariance == Spec => []KInv
<1>1. Init /\ VInv => KInv
  BY InitKnows
<1>2. KInv /\ VInv' /\ [Next]_vars => KInv'
  BY NextKnows
<1> QED
  BY <1>1, <1>2, ViewsInvariance, PTL DEF Spec

\* iter.rs:316-411, lazy.rs:223-298: what is_empty, car, cdr, len_cmp, get and for_each
\* answer is true of the list when they answer, and stays true.
THEOREM AnswersStayTrue == Spec => []AnswersAreTrue
<1>1. ASSUME KInv PROVE AnswersAreTrue
  <2> SUFFICES ASSUME NEW c \in Caller, call[c] # Idle, call[c].step = "done", call[c].said # Error
               PROVE  IsTrue(call[c])
    BY DEF AnswersAreTrue
  <2>1. /\ Staged(call[c]) /\ Good(call[c], Filled, done, heard)
    BY <1>1, Whose
  <2>2. /\ call[c].op \in Ops /\ call[c].out \in Seq(Nat) /\ Trail(call[c], Filled, heard)
        /\ Truth(call[c], call[c].said, Filled, done, heard)
    BY <2>1 DEF Staged, Frame, Good, Knows, Walk
  <2> QED
    BY <2>2, TruthIsTrue
<1> QED
  BY <1>1, AnswersInvariance, PTL
===============================================================================
