------------------------------ MODULE LazyLists ------------------------------
(***************************************************************************)
(* The lazy list backend.  A LazyConsList is a cell whose head and tail    *)
(* thunks run when they are first asked for; what they answer, an error    *)
(* included, is kept in a OnceLock each, and who asks meanwhile waits.  A  *)
(* LazyIterList is a view of a shared buffer that is filled on demand,     *)
(* from an iterator or, made by prepend, from the cells of another list.   *)
(* The buffer is behind a mutex, which is held while the source runs.      *)
(* Views register where they start; when one is dropped, what no view can  *)
(* reach any more leaves the buffer.                                       *)
(*                                                                         *)
(* Callers are threads.  get and for_each are made of several calls, each  *)
(* with the mutex for itself, and keep a view of the tail meanwhile.       *)
(* Elements are modelled by their position, so that an element in a wrong  *)
(* place shows.  Thunks and iterators are external: they answer anything   *)
(* or panic, they come back, and they do not use the lists they feed.      *)
(***************************************************************************)
EXTENDS Integers, Sequences, Bags, FiniteSets

CONSTANTS Caller, View,
          Cells,        \* the cells of the other list are 1..Cells
          Length,       \* bound: elements an iterator yields
          MaxCalls,     \* bound: calls that begin
          Deepest,      \* bound: the n of len_cmp, the index of get, the limit of for_each
          Gone,         \* a view that does not exist
          None,         \* nothing
          Nil, Odd,     \* an empty list; a value that is no list
          CellEnds,     \* of None, Nil and Odd, what the tail of a cell may be
          Error,        \* what a thunk or an iterator fails with
          Unforced,     \* no thunk has answered
          Iter          \* the source is an iterator

ASSUME ListBounds ==
    /\ CellEnds \subseteq {None, Nil, Odd}
    /\ Cells \in Nat \ {0} /\ Length \in Nat \ {0}
    /\ MaxCalls \in Nat \ {0} /\ Deepest \in Nat \ {0}
    /\ IsFiniteSet(Caller) /\ IsFiniteSet(View) /\ View # {}

ASSUME ListSentinels ==
    /\ {None, Nil, Odd, Error, Iter, Gone} \intersect Int = {}
    /\ None \notin Caller \union View \union {Nil, Odd, Error, Iter}
    /\ Nil \notin {Odd, Error, Iter} /\ Odd \notin {Error, Iter} /\ Error # Iter
    /\ (Caller \union {Unforced}) \intersect (Int \union {None, Nil, Odd, Error}) = {}
    /\ Unforced \notin Caller

Cell == 1..Cells
Part == {"head", "tail"}

VARIABLES
    next,       \* the driver: Iter, or what the cursor reads next
    made,       \* what an iterator has yielded
    buffer,     \* forced elements
    base,       \* how many of them were reclaimed
    live,       \* the census: a bag of the offsets at which views start
    done,       \* the source is exhausted
    holder,     \* the caller that has the mutex, or None
    poisoned,   \* a panic while somebody had it
    view,       \* where the views that were given out start
    cache,      \* each cell's two OnceLocks: unforced, the caller that runs the thunk, or the answer
    call,       \* the call each caller is in
    begun,      \* how many calls have begun
    heard,      \* history: what calls were given for each part of a cell
    ended,      \* history: the source has said that it is at its end
    failed      \* history: a call has failed while it read the source

spine == <<next, made, buffer, base, done>>
census == <<live, view>>
lock == <<holder, poisoned>>
vars == <<spine, census, lock, cache, call, begun, heard, ended, failed>>

Answers(i, part) == IF part = "head" THEN {i, Error}
                    ELSE CellEnds \union {Error} \union (Cell \intersect {i + 1})

Filled == base + Len(buffer)

-------------------------------------------------------------------------------
\* Calls

Ops == {"is_empty", "car", "cdr", "len_cmp", "get", "for_each", "clone", "drop"}

\* What a call does first: get and for_each begin with car.
First(op) == IF op \in {"get", "for_each"} THEN "car" ELSE op

FirstStep(kind, op) ==
    CASE kind = "cell" -> "force"
      [] op = "clone" -> "register"
      [] op = "drop" -> "unregister"
      [] OTHER -> "lock"

\* The caller makes no call.
Idle == [step |-> "idle"]

To(c, cl) == call' = [call EXCEPT ![c] = cl]

\* The call answers; a view of the tail that it still has is dropped first.
Ended(cl, answer) ==
    IF cl.kind = "view" /\ cl.tail # None
    THEN [cl EXCEPT !.said = answer, !.ending = TRUE, !.drop = cl.tail, !.tail = None,
                    !.step = "unregister"]
    ELSE [cl EXCEPT !.said = answer, !.step = "done", !.cell = 1, !.part = "head"]

\* The head of the loop in get and for_each: head and tail are read already.
Walked(cl) ==
    IF cl.head = None \/ cl.left = 0
    THEN Ended(cl, IF cl.op = "get" THEN cl.head ELSE None)
    ELSE LET visited == [cl EXCEPT !.left = @ - 1, !.out = Append(@, cl.head)]
         IN IF cl.tail \notin Nat THEN Ended(visited, None)
            ELSE IF cl.kind = "cell"
            THEN [visited EXCEPT !.prim = "car", !.at = cl.tail, !.step = "force"]
            ELSE [visited EXCEPT !.prim = "is_empty", !.at = cl.tail, !.step = "lock"]

\* What follows when a part of the call has its result.
Continued(cl, result) ==
    IF cl.op \notin {"get", "for_each"} THEN Ended(cl, result)
    ELSE CASE cl.prim = "is_empty" ->
                IF result = 0 THEN Ended(cl, None) ELSE [cl EXCEPT !.prim = "car", !.step = "lock"]
           [] cl.prim = "car" ->
                [cl EXCEPT !.head = result, !.prim = "cdr",
                           !.step = IF cl.kind = "cell" THEN "force" ELSE "lock"]
           [] cl.prim = "cdr" /\ cl.kind = "cell" -> Walked([cl EXCEPT !.tail = result])
           [] cl.prim = "cdr" /\ cl.kind = "view" /\ cl.tail = None -> Walked(cl)
           [] OTHER -> [cl EXCEPT !.drop = cl.tail, !.tail = None, !.step = "unregister"]

\* c's call ends with an error while it reads the list's source.
Fails(c, cl) ==
    /\ To(c, Ended(cl, Error))
    /\ failed' = TRUE /\ holder' = None

-------------------------------------------------------------------------------
\* Cells

\* Mutated form: an error is not kept.
KeepsValues(r) == IF r = Error THEN Unforced ELSE r

Keeps(r) == r

\* A cursor has the tail of its cell, and the element with it.
Streams(c, cl, r) ==
    /\ buffer' = Append(buffer, cl.cell) /\ next' = r
    /\ ended' = (ended \/ r \in {None, Nil})
    /\ To(c, [cl EXCEPT !.step = "fill"])
    /\ UNCHANGED <<made, base, done, lock, failed>>

\* A part of a cell is there.
Gets(c, cl, r) ==
    /\ heard' = [heard EXCEPT ![cl.cell][cl.part] = @ \union {r}]
    /\ IF cl.kind = "cell"
       THEN /\ To(c, IF r = Error THEN Ended(cl, Error) ELSE Continued(cl, r))
            /\ UNCHANGED <<spine, lock, ended, failed>>
       ELSE CASE r = Error -> Fails(c, cl) /\ UNCHANGED <<spine, poisoned, ended>>
              [] r # Error /\ cl.part = "head" ->
                    /\ To(c, [cl EXCEPT !.part = "tail"])
                    /\ UNCHANGED <<spine, lock, ended, failed>>
              [] r # Error /\ cl.part = "tail" -> Streams(c, cl, r)

\* What the call wants of a cell.
Wanted(cl) == IF cl.kind = "view" THEN cl
              ELSE [cl EXCEPT !.cell = cl.at, !.part = IF cl.prim = "car" THEN "head" ELSE "tail"]

\* cached_head and cached_tail: the answer that is kept, or the thunk, which others wait for.
Ask(c) ==
    /\ call[c] # Idle /\ call[c].step = "force"
    /\ LET cl == Wanted(call[c])
           now == cache[cl.cell][cl.part]
       IN /\ now \notin Caller
          /\ IF now = Unforced
             THEN /\ cache' = [cache EXCEPT ![cl.cell][cl.part] = c]
                  /\ To(c, [cl EXCEPT !.step = "thunk"])
                  /\ UNCHANGED <<spine, lock, heard, ended, failed>>
             ELSE Gets(c, cl, now) /\ UNCHANGED cache
    /\ UNCHANGED <<census, begun>>

ThunkAnswers(c, r) ==
    /\ call[c] # Idle /\ call[c].step = "thunk" /\ r \in Answers(call[c].cell, call[c].part)
    /\ cache' = [cache EXCEPT ![call[c].cell][call[c].part] = Keeps(r)]
    /\ Gets(c, [call[c] EXCEPT !.step = "force"], r)
    /\ UNCHANGED <<census, begun>>

\* The OnceLock stays unforced; the mutex, if the call has it, is poisoned.
ThunkPanics(c) ==
    /\ call[c] # Idle /\ call[c].step = "thunk"
    /\ cache' = [cache EXCEPT ![call[c].cell][call[c].part] = Unforced]
    /\ To(c, Ended(call[c], Error))
    /\ IF holder = c THEN holder' = None /\ poisoned' = TRUE /\ failed' = TRUE
       ELSE UNCHANGED <<lock, failed>>
    /\ UNCHANGED <<spine, census, begun, heard, ended>>

-------------------------------------------------------------------------------
\* The shared buffer

\* Mutated form: whoever waits for a source lets others in.
FreeWhileFed == holder # None => call[holder].step \in {"force", "thunk", "feed"}

Free == holder = None

Lock(c) ==
    /\ call[c] # Idle /\ call[c].step = "lock" /\ Free
    /\ IF poisoned THEN To(c, Ended(call[c], Error)) /\ UNCHANGED holder
       ELSE To(c, [call[c] EXCEPT !.step = "fill"]) /\ holder' = c
    /\ UNCHANGED <<spine, census, poisoned, cache, begun, heard, ended, failed>>

\* Mutated form: len_cmp stops at the n-th element.
NeedOf(cl) == cl.at + IF cl.prim = "len_cmp" THEN cl.left ELSE 1

\* Up to where the buffer has to be filled.
Need(cl) == cl.at + 1 + IF cl.prim = "len_cmp" THEN cl.left ELSE 0

Lacks(cl) == Filled < Need(cl) /\ ~done

\* The source is asked for another element: an iterator, or the cursor, which takes its
\* node before it reads it.
Feed(c) ==
    /\ call[c] # Idle /\ call[c].step = "fill" /\ Lacks(call[c])
    /\ CASE next = Iter ->
              To(c, [call[c] EXCEPT !.step = "feed"])
              /\ UNCHANGED <<next, done, holder, ended, failed>>
         [] next \in Cell ->
              To(c, [call[c] EXCEPT !.step = "force", !.cell = next, !.part = "head"])
              /\ next' = None /\ UNCHANGED <<done, holder, ended, failed>>
         [] next \in {None, Nil} ->
              done' = TRUE /\ next' = None /\ ended' = (ended \/ next = Nil)
              /\ UNCHANGED <<call, holder, failed>>
         [] next = Odd -> Fails(c, call[c]) /\ next' = None /\ UNCHANGED <<done, ended>>
    /\ UNCHANGED <<made, buffer, base, census, poisoned, cache, begun, heard>>

\* External: what an iterator does; it may go on after an error and after its end.
IteratorAnswers(c) ==
    /\ call[c] # Idle /\ call[c].step = "feed"
    /\ \/ /\ made < Length
          /\ made' = made + 1 /\ buffer' = Append(buffer, made)
          /\ To(c, [call[c] EXCEPT !.step = "fill"])
          /\ UNCHANGED <<done, lock, ended, failed>>
       \/ /\ done' = TRUE /\ ended' = TRUE
          /\ To(c, [call[c] EXCEPT !.step = "fill"])
          /\ UNCHANGED <<made, buffer, lock, failed>>
       \/ \E p \in BOOLEAN :
             /\ Fails(c, call[c]) /\ poisoned' = (poisoned \/ p)
             /\ UNCHANGED <<made, buffer, done, ended>>
    /\ UNCHANGED <<next, base, census, cache, begun, heard>>

\* Mutated form: cdr keeps the mutex and registers its view under it.
StillLocked(cl) == IF cl.prim = "cdr" /\ Filled > cl.at THEN holder ELSE None

Unlocked(cl) == None

\* Less, equal or greater.
Compared(remaining, n) == CASE remaining < n -> -1 [] remaining = n -> 0 [] OTHER -> 1

\* The buffer is filled, or the source exhausted: the mutex is let go of.
Filling(c) ==
    /\ call[c] # Idle /\ call[c].step = "fill" /\ ~Lacks(call[c])
    /\ LET cl == call[c]
           empty == Filled <= cl.at
       IN /\ holder' = Unlocked(cl)
          /\ To(c, CASE cl.prim = "is_empty" -> Continued(cl, IF empty THEN 0 ELSE 1)
                     [] cl.prim = "car" ->
                          Continued(cl, IF empty THEN None ELSE buffer[cl.at - base + 1])
                     [] cl.prim = "cdr" ->
                          IF empty THEN Continued(cl, None) ELSE [cl EXCEPT !.step = "register"]
                     [] cl.prim = "len_cmp" -> Continued(cl, Compared(Filled - cl.at, cl.left)))
    /\ UNCHANGED <<spine, census, poisoned, cache, begun, heard, ended, failed>>

-------------------------------------------------------------------------------
\* Views

Counted(bag, s) == bag (-) SetToBag({s})

\* Mutated form: what the dropped view started at, though others may start before it.
FloorAfter(bag, s) == s + 1

\* The smallest offset at which a view starts, when the one at s is gone.
Floor(bag, s) == IF BagToSet(bag) = {} THEN Filled
                 ELSE CHOOSE m \in BagToSet(bag) : \A o \in BagToSet(bag) : m <= o

\* register: the mutex is had even if it is poisoned.
Registers(s) == Free /\ live' = live (+) SetToBag({s})

\* unregister.
Unregisters(s) ==
    /\ Free
    /\ live' = Counted(live, s)
    /\ LET over == Floor(live', s) - base
           n == IF over < 0 THEN 0 ELSE IF over > Len(buffer) THEN Len(buffer) ELSE over
       IN buffer' = SubSeq(buffer, n + 1, Len(buffer)) /\ base' = base + n
    /\ UNCHANGED <<next, made, done>>

\* A new view, cloned or of the tail.
Register(c) ==
    /\ call[c] # Idle /\ call[c].step = "register"
    /\ LET cl == call[c]
           start == IF cl.op = "clone" THEN cl.at ELSE cl.at + 1
       IN /\ Registers(start)
          /\ IF cl.op \in {"cdr", "clone"}
             THEN view' = [view EXCEPT ![cl.into] = start] /\ To(c, Ended(cl, start))
             ELSE /\ UNCHANGED view
                  /\ To(c, IF cl.tail = None THEN Walked([cl EXCEPT !.tail = start])
                           ELSE [cl EXCEPT !.tail = start, !.drop = cl.tail,
                                           !.step = "unregister"])
    /\ UNCHANGED <<spine, lock, cache, begun, heard, ended, failed>>

\* A view is dropped: by a drop, or by a call that had it as its tail.
Unregister(c) ==
    /\ call[c] # Idle /\ call[c].step = "unregister"
    /\ LET cl == [call[c] EXCEPT !.drop = None]
       IN IF cl.op = "drop"
          THEN /\ Unregisters(cl.at) /\ view' = [view EXCEPT ![cl.on] = Gone]
               /\ To(c, [cl EXCEPT !.step = "done"])
          ELSE /\ Unregisters(call[c].drop) /\ UNCHANGED view
               /\ To(c, IF cl.ending THEN [cl EXCEPT !.step = "done"] ELSE Walked(cl))
    /\ UNCHANGED <<lock, cache, begun, heard, ended, failed>>

-------------------------------------------------------------------------------
\* Calls begin and return

Unused == {w \in View : view[w] = Gone /\ \A d \in Caller : call[d] # Idle => call[d].into # w}

InUse(v) == \E d \in Caller : call[d] # Idle /\ call[d].kind = "view" /\ call[d].on = v

Begins(c, kind, op, on, at, n, into) ==
    /\ call[c] = Idle /\ begun < MaxCalls /\ begun' = begun + 1
    /\ To(c, [kind |-> kind, op |-> op, on |-> on, start |-> at, at |-> at, n |-> n, left |-> n,
              prim |-> First(op), step |-> FirstStep(kind, op), cell |-> 1, part |-> "head",
              head |-> None, tail |-> None, drop |-> None, into |-> into, out |-> <<>>,
              said |-> None, ending |-> FALSE])
    /\ UNCHANGED <<spine, census, lock, cache, heard, ended, failed>>

\* The n of len_cmp, the index of get, the limit of for_each, which is not zero here.
Bounds(op) == CASE op \in {"len_cmp", "get"} -> 0..Deepest
                [] op = "for_each" -> 1..Deepest
                [] OTHER -> {0}

\* A call of a view.  It is dropped by the last of those who have it.
CallView(c, op, v, n) ==
    /\ view[v] # Gone /\ n \in Bounds(op)
    /\ \A d \in Caller : call[d] # Idle => ~(call[d].op = "drop" /\ call[d].on = v)
    /\ op = "drop" => ~InUse(v)
    /\ IF op \in {"cdr", "clone"}
       THEN Unused # {} /\ Begins(c, "view", op, v, view[v], n, CHOOSE w \in Unused : TRUE)
       ELSE Begins(c, "view", op, v, view[v], n, None)

\* A call of a cell; the next one is known from its tail.
CallCell(c, op, i, n) ==
    /\ op \in {"car", "cdr", "get", "for_each"} /\ n \in Bounds(op)
    /\ i > 1 => cache[i - 1].tail = i
    /\ Begins(c, "cell", op, i, i, n, None)

Return(c) ==
    /\ call[c] # Idle /\ call[c].step = "done"
    /\ To(c, Idle)
    /\ UNCHANGED <<spine, census, lock, cache, begun, heard, ended, failed>>

-------------------------------------------------------------------------------
\* The view that LazyIterList::new or prepend gives out.
NewList ==
    /\ view = [v \in View |-> IF v = (CHOOSE w \in View : TRUE) THEN 0 ELSE Gone]
    /\ live = SetToBag({0})
    /\ holder = None /\ poisoned = FALSE

\* A cell is made with its thunks, and neither has run.
NewCells == [i \in Cell |-> [p \in Part |-> Unforced]]

\* Over an iterator, or before a list of cells or an empty list.
Init ==
    /\ next \in {Iter, 1, Nil}
    /\ made = 0 /\ buffer = (IF next = Iter THEN <<>> ELSE <<0>>) /\ base = 0 /\ done = FALSE
    /\ NewList /\ cache = NewCells
    /\ call = [c \in Caller |-> Idle] /\ begun = 0
    /\ heard = [i \in Cell |-> [p \in Part |-> {}]]
    /\ ended = FALSE /\ failed = FALSE

Steps(c) ==
    \/ Lock(c) \/ Feed(c) \/ IteratorAnswers(c) \/ Filling(c)
    \/ Ask(c) \/ ThunkPanics(c) \/ \E r \in {None, Nil, Odd, Error} \union Cell : ThunkAnswers(c, r)
    \/ Register(c) \/ Unregister(c) \/ Return(c)

Next ==
    \E c \in Caller :
        \/ Steps(c)
        \/ \E op \in Ops, n \in 0..Deepest :
              \/ \E v \in View : CallView(c, op, v, n)
              \/ \E i \in Cell : CallCell(c, op, i, n)

Spec == Init /\ [][Next]_vars

-------------------------------------------------------------------------------
\* Properties

Temporary(s) == {c \in Caller : call[c] # Idle /\ call[c].kind = "view" /\ call[c].tail = s}
                \union {c \in Caller : call[c] # Idle /\ call[c].drop = s}

\* iter.rs:62-141: every view that exists is in the census, those that get and for_each
\* keep for a while too; what a view can reach is in the buffer, and what none can reach
\* is not.
ViewsAreCovered ==
    /\ \A s \in BagToSet(live) : base <= s /\ s <= Filled
    /\ IF live = EmptyBag THEN buffer = <<>> ELSE base \in BagToSet(live)
    /\ \A s \in 0..Filled :
          /\ s \in BagToSet(live) <=> (\E v \in View : view[v] = s) \/ Temporary(s) # {}

\* lazy.rs:62-73, 129-141: whoever asks a cell for its head or its tail is given the same,
\* an error included, however many ask at the same time.
CellAnswersOnce == \A i \in Cell, p \in Part : Cardinality(heard[i][p]) <= 1

\* iter.rs:102-113: the list is at its end only if its source has said so, or if a call
\* has failed while it read it: a cursor does not find back to a node that it took.
EndIsTrue == done => ended \/ failed

\* There is no element at position i.
Without(kind, i) ==
    IF kind = "view" THEN done /\ Filled <= i
    ELSE \E j \in Cell : j < i /\ heard[j].tail \intersect {None, Nil, Odd} # {}

\* There is one, and it was forced.
With(kind, i) == IF kind = "view" THEN i < Filled ELSE i \in Cell /\ i \in heard[i].head

\* What a call has answered is true of the whole list.
IsTrue(cl) ==
    LET Is(i) == With(cl.kind, i)
        IsNot(i) == Without(cl.kind, i)
    IN CASE cl.op = "is_empty" -> IF cl.said = 0 THEN IsNot(cl.start) ELSE Is(cl.start)
         [] cl.op = "len_cmp" ->
              /\ cl.said > 0 <=> Is(cl.start + cl.n)
              /\ cl.said = 0 => Filled = cl.start + cl.n
              /\ cl.said <= 0 => IsNot(cl.start + cl.n)
         [] cl.op \in {"car", "get"} ->
              IF cl.said = None THEN IsNot(cl.start + cl.n)
              ELSE cl.said = cl.start + cl.n /\ Is(cl.said)
         [] cl.op = "for_each" ->
              /\ \A i \in DOMAIN cl.out : cl.out[i] = cl.start + i - 1 /\ Is(cl.out[i])
              /\ Len(cl.out) = cl.n \/ IsNot(cl.start + Len(cl.out))
         [] cl.op = "cdr" /\ cl.kind = "view" ->
              IF cl.said = None THEN IsNot(cl.start) ELSE Is(cl.start)
         [] OTHER -> TRUE

\* iter.rs:316-411, lazy.rs:223-298: what a call answers is true of the whole list, whatever
\* others pull from it or drop meanwhile: the element is the one at the position asked for,
\* the elements visited follow one another, and nothing is missing but at the end.
AnswersAreTrue ==
    \A c \in Caller :
        call[c] # Idle /\ call[c].step = "done" /\ call[c].said # Error => IsTrue(call[c])

\* The caller for whom c waits: it has the mutex, or runs the thunk that c needs.
WaitsFor(c) ==
    IF call[c] = Idle THEN {}
    ELSE CASE call[c].step \in {"lock", "register", "unregister"} -> {holder} \ {None}
           [] call[c].step = "force" -> {cache[Wanted(call[c]).cell][Wanted(call[c]).part]} \intersect Caller
           [] OTHER -> {}

\* iter.rs:102-113, 196-213, lazy.rs:129-141: callers wait for the mutex and for each
\* other's thunks, with the mutex in hand, and views are made and dropped in between;
\* but they never wait in a circle, nor a caller for itself.
NoCircle == \A S \in SUBSET Caller : S # {} => \E c \in S : WaitsFor(c) \intersect S = {}
==============================================================================
