--------------------------- MODULE SealedTableProofs ---------------------------
(***************************************************************************)
(* What sealed tables guarantee for any number of tables, callers, keys    *)
(* and nonces, whatever the host grants and the backend's owner restores.  *)
(*                                                                         *)
(* Nonces are a matter of the families alone.  For the rest an invariant   *)
(* says of each call what it knows at each step: it has seen every state   *)
(* of the entries it is about, what it gives out was there, and what it    *)
(* is going to pass over was absent for a time.                            *)
(***************************************************************************)
EXTENDS SealedTable, FiniteSetTheorems, TLAPS

-------------------------------------------------------------------------------
\* The invariant

Calls == [op : Ops, by : Handle, key : Secret, name : Name, value : Value \union {Absent},
          step : Steps, about : SUBSET Physical, todo : SUBSET Physical,
          out : SUBSET (Physical \X Value), again : Secret \union {NoKey},
          seen : SUBSET (Physical \X Entry)]

\* Which steps a call takes, and what it is about.
Shape(cl) ==
    /\ IF cl.op \in {"entries", "clear"} THEN \A p \in cl.about : p.lane = LaneOf[cl.by]
       ELSE cl.about = {At(cl.key, cl.by, cl.name)}
    /\ cl.step = "has" => cl.op \in {"get", "del"} /\ cl.todo = cl.about
    /\ cl.step = "list" => cl.op \in {"entries", "clear"}
    /\ cl.step = "read" => cl.op \in {"get", "del", "entries"} /\ cl.todo \subseteq cl.about
    /\ cl.step = "rekey" => cl.op = "del"
    /\ cl.step = "remove" => cl.op \in {"del", "clear"}
    /\ cl.step = "remove" /\ cl.op = "del" =>
          cl.again \in Secret /\ cl.todo = {At(cl.again, cl.by, cl.name)}
    /\ cl.step = "spend" => cl.op = "set"
    /\ cl.step = "store" => cl.op \in {"set", "mkdir", "rmdir"}
    /\ cl.op = "set" => cl.value \in Value
    /\ \A e \in cl.out : e[1] \in cl.about

SeenAbsent(cl, p) == <<p, Absent>> \in cl.seen

\* A call has seen what is in the backend now.
Watched(cl, st) == \A p \in cl.about : <<p, st[p]>> \in cl.seen

\* What a call gives out it has seen, and what it has passed over was absent.
Answered(cl) ==
    /\ \A e \in cl.out : \E s \in cl.seen :
          s[1] = e[1] /\ s[2] \in Sealed /\ s[2].value = e[2]
    /\ cl.step = "read" =>
          /\ \A p \in cl.about \ cl.todo : SeenAbsent(cl, p) \/ \E e \in cl.out : e[1] = p
          /\ \A p \in cl.todo : \E e \in cl.seen : e[1] = p /\ e[2] # Absent
    /\ cl.step = "ok" /\ cl.op \in {"get", "entries"} =>
          \A p \in cl.about : SeenAbsent(cl, p) \/ \E e \in cl.out : e[1] = p
    /\ cl.step = "authentication" => \E p \in cl.about : Explains(cl, p)

\* Once a del has read, a directory can be in the place of the object only if it was gone.
Removing(cl, st) ==
    /\ cl.op = "del" /\ cl.step \in {"rekey", "remove"} =>
          \A p \in cl.about : SeenAbsent(cl, p) \/ st[p] \in Sealed
    /\ cl.op = "del" /\ cl.step = "ok" /\ cl.again \in {cl.key, NoKey} =>
          \A p \in cl.about : SeenAbsent(cl, p)

SealedAs(h, n, v) == [lane |-> LaneOf[h], generation |-> Generation[h], name |-> n, value |-> v]

\* What a call gives out, and what it is going to store, was sealed.
Sourced(cl, wr) ==
    /\ \A e \in cl.out : SealedAs(cl.by, e[1].name, e[2]) \in wr
    /\ cl.step = "store" /\ cl.op = "set" => SealedAs(cl.by, cl.name, cl.value) \in wr

Good(cl, st, wr) ==
    cl \in Calls /\ Shape(cl) /\ Watched(cl, st) /\ Answered(cl) /\ Removing(cl, st) /\ Sourced(cl, wr)

\* Every object in the backend was sealed, wherever it is now.
Genuine(st, wr) ==
    \A p \in Physical : st[p] \in Sealed =>
        [lane |-> st[p].at.lane, generation |-> st[p].generation, name |-> st[p].at.name,
         value |-> st[p].value] \in wr

IInv ==
    /\ store \in [Physical -> Entry] /\ grant \in Secret \union {NoKey}
    /\ Genuine(store, written)
    /\ call \in [Caller -> Calls \union {Idle}]
    /\ \A c \in Caller : call[c] # Idle => Good(call[c], store, written)

\* A family's seals use nonces that it has spent, and it has spent no more than its budget.
Metered ==
    /\ spent \in [Handle -> SUBSET Nonce]
    /\ seals \in [Handle -> [Nonce -> {0, 1}]]
    /\ \A f \in Handle : /\ IsFiniteSet(spent[f]) /\ Cardinality(spent[f]) <= Budget
                         /\ \A n \in Nonce : seals[f][n] > 0 => n \in spent[f]

-------------------------------------------------------------------------------
\* Lemmas about calls

LEMMA AtTyped ==
    ASSUME NEW s \in Secret, NEW h \in Handle, NEW n \in Name
    PROVE  At(s, h, n) \in Physical /\ At(s, h, n).lane = LaneOf[h] /\ At(s, h, n).name = n
BY TablesAreConsistent DEF At, Physical

\* What a step of another caller makes of a call: it sees the backend change.
Witnessed(cl, new) == [cl EXCEPT !.seen = @ \union {<<p, new[p]>> : p \in cl.about}]

LEMMA WitnessedFields ==
    ASSUME NEW cl \in Calls, NEW new \in [Physical -> Entry]
    PROVE  LET w == Witnessed(cl, new) IN
           /\ w \in Calls
           /\ w.op = cl.op /\ w.by = cl.by /\ w.key = cl.key /\ w.name = cl.name
           /\ w.value = cl.value /\ w.step = cl.step /\ w.about = cl.about /\ w.todo = cl.todo
           /\ w.out = cl.out /\ w.again = cl.again
           /\ cl.seen \subseteq w.seen
           /\ \A p \in cl.about : <<p, new[p]>> \in w.seen
<1>1. {<<p, new[p]>> : p \in cl.about} \subseteq Physical \X Entry
  BY DEF Calls
<1> QED BY <1>1 DEF Calls, Witnessed

\* Nothing a call knows is lost by that.
LEMMA WitnessKeeps ==
    ASSUME NEW st \in [Physical -> Entry], NEW new \in [Physical -> Entry], NEW wr, NEW cl,
           Good(cl, st, wr), \A p \in Physical : st[p] \in Sealed => new[p] # Dir
    PROVE  Good(Witnessed(cl, new), new, wr)
<1> DEFINE w == Witnessed(cl, new)
<1>1. /\ w \in Calls
      /\ w.op = cl.op /\ w.by = cl.by /\ w.key = cl.key /\ w.name = cl.name
      /\ w.value = cl.value /\ w.step = cl.step /\ w.about = cl.about /\ w.todo = cl.todo
      /\ w.out = cl.out /\ w.again = cl.again
      /\ cl.seen \subseteq w.seen
      /\ \A p \in cl.about : <<p, new[p]>> \in w.seen
  BY WitnessedFields DEF Good
<1>2. cl \in Calls /\ cl.about \subseteq Physical
  BY DEF Good, Calls
<1> HIDE DEF w
<1>3. Shape(w)
  BY <1>1 DEF Good, Shape
<1>4. Watched(w, new)
  BY <1>1 DEF Watched
<1>5. Answered(w)
  <2>1. \A p : Explains(cl, p) => Explains(w, p)
    BY <1>1 DEF Explains
  <2> QED BY <1>1, <2>1 DEF Good, Answered, SeenAbsent
<1>6. Removing(w, new)
  <2>1. ASSUME NEW p \in cl.about, SeenAbsent(cl, p) \/ st[p] \in Sealed
        PROVE  SeenAbsent(w, p) \/ new[p] \in Sealed
    BY <1>1, <1>2, <2>1 DEF SeenAbsent, Entry
  <2>2. \A p \in cl.about : SeenAbsent(cl, p) => SeenAbsent(w, p)
    BY <1>1 DEF SeenAbsent
  <2> QED BY <1>1, <2>1, <2>2 DEF Good, Removing
<1>7. Sourced(w, wr)
  BY <1>1 DEF Good, Sourced
<1> QED BY <1>1, <1>3, <1>4, <1>5, <1>6, <1>7 DEF Good, w

\* A step of c that leaves the backend alone.
LEMMA GoesKeeps ==
    ASSUME IInv, NEW c \in Caller, NEW next, Goes(c, next),
           next = Idle \/ Good(next, store, written'),
           written \subseteq written', grant' = grant
    PROVE  IInv'
<1>1. store' = store /\ call' = [call EXCEPT ![c] = next]
  BY DEF Goes
<1>2. call' \in [Caller -> Calls \union {Idle}]
  BY <1>1 DEF IInv, Good
<1>3. Genuine(store, written)'
  BY <1>1 DEF IInv, Genuine
<1>4. ASSUME NEW d \in Caller, call'[d] # Idle PROVE Good(call[d], store, written)'
  <2>1. CASE d = c
    BY <1>1, <1>2, <1>4, <2>1 DEF IInv
  <2>2. CASE d # c
    <3>1. call'[d] = call[d] /\ Good(call[d], store, written)
      BY <1>1, <1>4, <2>2 DEF IInv
    <3> QED BY <1>1, <3>1 DEF Good, Watched, Removing, Sourced
  <2> QED BY <2>1, <2>2
<1> QED BY <1>1, <1>2, <1>3, <1>4 DEF IInv

\* A step of c that changes the backend.
LEMMA ChangesKeeps ==
    ASSUME IInv, NEW c \in Caller, NEW next \in Calls, NEW new \in [Physical -> Entry],
           Changes(c, next, new), Good(Witnessed(next, new), new, written),
           \A p \in Physical : store[p] \in Sealed => new[p] # Dir,
           Genuine(new, written), written' = written, grant' = grant
    PROVE  IInv'
<1>1. /\ store' = new
      /\ call' = Witness(new, [call EXCEPT ![c] = next])
  BY DEF Changes
<1>2. /\ call'[c] \in {Idle, Witnessed(next, new)}
      /\ \A d \in Caller \ {c} :
            call'[d] = IF call[d] = Idle THEN Idle ELSE Witnessed(call[d], new)
      /\ call' = [d \in Caller |-> call'[d]]
  BY <1>1 DEF Witness, Witnessed, IInv
<1>3. ASSUME NEW d \in Caller PROVE call'[d] = Idle \/ Good(call'[d], new, written)
  <2>1. CASE d = c
    BY <1>2, <2>1
  <2>2. CASE d # c
    BY <1>2, <2>2, WitnessKeeps DEF IInv
  <2> QED BY <2>1, <2>2
<1>4. call' \in [Caller -> Calls \union {Idle}]
  BY <1>2, <1>3 DEF Good
<1> QED BY <1>1, <1>3, <1>4 DEF IInv, Good, Genuine, Watched, Removing, Sourced

-------------------------------------------------------------------------------
\* The steps of a call

LEMMA StepsAreSteps ==
    {"has", "read", "rekey", "remove", "list", "spend", "store", "ok", "authentication", "failed"}
        \subseteq Steps
BY DEF Steps, Outcomes

\* A call ends without having answered.
LEMMA EndsKeeps ==
    ASSUME NEW st, NEW wr, NEW cl, Good(cl, st, wr),
           NEW outcome \in {"ok", "authentication", "failed"},
           outcome = "ok" => cl.op \in {"set", "mkdir", "rmdir", "clear"},
           outcome = "authentication" => \E p \in cl.about : Explains(cl, p)
    PROVE  Good([cl EXCEPT !.step = outcome], st, wr)
<1> DEFINE next == [cl EXCEPT !.step = outcome]
<1>1. /\ cl \in Calls /\ next \in Calls /\ next.step = outcome
      /\ next.op = cl.op /\ next.by = cl.by /\ next.key = cl.key /\ next.name = cl.name
      /\ next.value = cl.value /\ next.about = cl.about /\ next.todo = cl.todo
      /\ next.out = cl.out /\ next.again = cl.again /\ next.seen = cl.seen
  BY StepsAreSteps DEF Good, Calls
<1> HIDE DEF next
<1>2. \A p : Explains(cl, p) <=> Explains(next, p)
  BY <1>1 DEF Explains
<1>3. Shape(next)
  BY <1>1 DEF Good, Shape
<1>4. Answered(next)
  BY <1>1, <1>2 DEF Good, Answered, SeenAbsent
<1>5. Watched(next, st) /\ Removing(next, st) /\ Sourced(next, wr)
  BY <1>1 DEF Good, Watched, Removing, Sourced
<1> QED BY <1>1, <1>3, <1>4, <1>5 DEF Good, next

LEMMA BeginKeeps ==
    ASSUME IInv, NEW c \in Caller, NEW h \in Handle, NEW op \in Ops, NEW n \in Name,
           NEW v \in Value \union {Absent}, op = "set" => v \in Value, Begin(c, h, op, n, v)
    PROVE  IInv'
<1> DEFINE about == IF op \in {"entries", "clear"} THEN Belonging(h, grant) ELSE {At(grant, h, n)}
           first == CASE op \in {"get", "del"} -> "has"
                      [] op \in {"entries", "clear"} -> "list"
                      [] op = "set" -> "spend"
                      [] op \in {"mkdir", "rmdir"} -> "store"
           next == [op |-> op, by |-> h, key |-> grant, name |-> n, value |-> v, step |-> first,
                    about |-> about, todo |-> about, out |-> {}, again |-> NoKey,
                    seen |-> {<<p, store[p]>> : p \in about}]
<1>1. grant \in Secret /\ Goes(c, next) /\ UNCHANGED <<grant, written>>
  BY DEF Begin, IInv
<1>2. /\ about \subseteq Physical
      /\ IF op \in {"entries", "clear"} THEN \A p \in about : p.lane = LaneOf[h]
         ELSE about = {At(grant, h, n)}
  BY <1>1, AtTyped DEF Belonging, InLane
<1>3. /\ first \in Steps
      /\ op \in {"get", "del"} => first = "has"
      /\ op \in {"entries", "clear"} => first = "list"
      /\ op = "set" => first = "spend"
      /\ op \in {"mkdir", "rmdir"} => first = "store"
  BY StepsAreSteps DEF Ops
<1> HIDE DEF about, first
<1>4. {<<p, store[p]>> : p \in about} \subseteq Physical \X Entry
  BY <1>2 DEF IInv
<1>5. next \in Calls
  BY <1>1, <1>2, <1>3, <1>4 DEF Calls
<1>6. Shape(next) /\ Watched(next, store)
  BY <1>2, <1>3 DEF Shape, Watched, Ops
<1>7. Answered(next) /\ Removing(next, store) /\ Sourced(next, written)
  BY <1>3 DEF Answered, Removing, Sourced, Ops
<1> QED BY <1>1, <1>5, <1>6, <1>7, GoesKeeps DEF Good

\* The place of a call about one name.
LEMMA OnePlace ==
    ASSUME NEW c \in Caller, call[c].op \notin {"entries", "clear"}, Shape(call[c])
    PROVE  call[c].about = {At1(c)} /\ At1(c) = At(call[c].key, call[c].by, call[c].name)
BY DEF Shape, At1

LEMMA HasKeeps ==
    ASSUME IInv, NEW c \in Caller, Has(c)
    PROVE  IInv'
<1> DEFINE cl == call[c]
           step == IF HasEntry(At1(c)) THEN "read" ELSE IF cl.op = "del" THEN "rekey" ELSE "ok"
           next == [cl EXCEPT !.step = step]
<1>1. cl # Idle /\ Good(cl, store, written) /\ cl.step = "has" /\ Goes(c, next)
      /\ UNCHANGED <<grant, written>>
  BY DEF Has, IInv
<1>2. cl.op \in {"get", "del"} /\ cl.todo = cl.about /\ cl.about = {At1(c)} /\ At1(c) \in Physical
  BY <1>1, OnePlace DEF Good, Shape, Calls
<1>3. /\ next \in Calls /\ next.step = step
      /\ next.op = cl.op /\ next.by = cl.by /\ next.key = cl.key /\ next.name = cl.name
      /\ next.value = cl.value /\ next.about = cl.about /\ next.todo = cl.todo
      /\ next.out = cl.out /\ next.again = cl.again /\ next.seen = cl.seen
  BY <1>1, StepsAreSteps DEF Good, Calls
<1>4. /\ step \in {"read", "rekey", "ok"}
      /\ step = "read" => store[At1(c)] # Absent
      /\ step # "read" => store[At1(c)] = Absent
      /\ step = "rekey" <=> step # "read" /\ cl.op = "del"
  BY DEF HasEntry
<1>5. <<At1(c), store[At1(c)]>> \in cl.seen
  BY <1>1, <1>2 DEF Good, Watched
<1> HIDE DEF step, next
<1>6. Shape(next)
  BY <1>1, <1>2, <1>3, <1>4 DEF Good, Shape
<1>7. Answered(next)
  BY <1>1, <1>2, <1>3, <1>4, <1>5 DEF Good, Answered, SeenAbsent
<1>8. Watched(next, store) /\ Removing(next, store) /\ Sourced(next, written)
  BY <1>1, <1>2, <1>3, <1>4, <1>5 DEF Good, Watched, Removing, Sourced, SeenAbsent
<1> QED BY <1>1, <1>3, <1>6, <1>7, <1>8, GoesKeeps DEF Good

LEMMA ListKeeps ==
    ASSUME IInv, NEW c \in Caller, List(c)
    PROVE  IInv'
<1> DEFINE cl == call[c]
           todo == Listed(cl)
           step == IF todo = {} THEN "ok" ELSE IF cl.op = "clear" THEN "remove" ELSE "read"
           next == [cl EXCEPT !.todo = todo, !.step = step]
<1>1. cl # Idle /\ Good(cl, store, written) /\ cl.step = "list" /\ Goes(c, next)
      /\ UNCHANGED <<grant, written>>
  BY DEF List, IInv
<1>2. /\ cl.op \in {"entries", "clear"} /\ cl.about \subseteq Physical /\ todo \subseteq cl.about
      /\ \A p \in cl.about : p \in todo <=> store[p] # Absent
  BY <1>1 DEF Good, Shape, Calls, Listed, BackendKeys
<1>3. /\ next \in Calls /\ next.step = step /\ next.todo = todo
      /\ next.op = cl.op /\ next.by = cl.by /\ next.key = cl.key /\ next.name = cl.name
      /\ next.value = cl.value /\ next.about = cl.about
      /\ next.out = cl.out /\ next.again = cl.again /\ next.seen = cl.seen
  BY <1>1, <1>2, StepsAreSteps DEF Good, Calls
<1>4. /\ step \in {"ok", "remove", "read"}
      /\ step = "ok" <=> todo = {}
      /\ step = "remove" => cl.op = "clear"
      /\ step = "read" => cl.op = "entries"
  BY <1>2
<1>5. \A p \in cl.about : <<p, store[p]>> \in cl.seen
  BY <1>1 DEF Good, Watched
<1> HIDE DEF step, next, todo
<1>6. Shape(next)
  BY <1>1, <1>2, <1>3, <1>4 DEF Good, Shape
<1>7. Answered(next)
  <2>1. \A p \in todo : \E e \in cl.seen : e[1] = p /\ e[2] # Absent
    BY <1>2, <1>5
  <2>2. \A p \in cl.about \ todo : SeenAbsent(cl, p)
    BY <1>2, <1>5 DEF SeenAbsent
  <2> QED BY <1>1, <1>2, <1>3, <1>4, <2>1, <2>2 DEF Good, Answered, SeenAbsent
<1>8. Watched(next, store) /\ Removing(next, store) /\ Sourced(next, written)
  BY <1>1, <1>2, <1>3, <1>4 DEF Good, Watched, Removing, Sourced
<1> QED BY <1>1, <1>3, <1>6, <1>7, <1>8, GoesKeeps DEF Good

LEMMA ReadKeeps ==
    ASSUME IInv, NEW c \in Caller, NEW p \in Physical, Read(c, p)
    PROVE  IInv'
<1> DEFINE cl == call[c]
           left == cl.todo \ {p}
           o == store[p]
           out == cl.out \union {Decoded(o)}
           step == After(cl, left)
           next == [cl EXCEPT !.out = out, !.todo = left, !.step = step]
<1>1. /\ cl # Idle /\ Good(cl, store, written) /\ cl.step = "read" /\ p \in cl.todo
      /\ UNCHANGED <<grant, written>>
  BY DEF Read, IInv
<1>2. cl.op \in {"get", "del", "entries"} /\ cl.todo \subseteq cl.about /\ p \in cl.about
      /\ p.lane = LaneOf[cl.by] /\ <<p, store[p]>> \in cl.seen /\ cl \in Calls
  BY <1>1, AtTyped DEF Good, Shape, Watched, Calls
<1>3. CASE Opens(cl.by, p, o)
  <2>1. Goes(c, next)
    BY <1>1, <1>3 DEF Read
  <2>2. /\ o \in Sealed /\ o.at = p /\ o.generation = Generation[cl.by] /\ o.value \in Value
        /\ Decoded(o) = <<p, o.value>> /\ out \subseteq Physical \X Value
    BY <1>2, <1>3 DEF Opens, Encoded, Binding, Sealed, Decoded, Calls
  <2>3. SealedAs(cl.by, p.name, o.value) \in written
    BY <1>2, <2>2 DEF IInv, Genuine, SealedAs
  <2>4. /\ step \in {"read", "rekey", "ok"}
        /\ step = "read" <=> left # {}
        /\ step = "rekey" <=> left = {} /\ cl.op = "del"
    BY <1>1 DEF After
  <2>5. /\ next \in Calls /\ next.step = step /\ next.todo = left /\ next.out = out
        /\ next.op = cl.op /\ next.by = cl.by /\ next.key = cl.key /\ next.name = cl.name
        /\ next.value = cl.value /\ next.about = cl.about
        /\ next.again = cl.again /\ next.seen = cl.seen
    BY <1>2, <2>2, <2>4, StepsAreSteps DEF Calls
  <2>6. \A e \in out : e \in cl.out \/ e = <<p, o.value>>
    BY <2>2
  <2>7. <<p, o.value>> \in out /\ cl.out \subseteq out
    BY <2>2
  <2> HIDE DEF step, next, out, o
  <2>8. Shape(next)
    BY <1>1, <1>2, <2>2, <2>4, <2>5, <2>6 DEF Good, Shape
  <2>9. Answered(next)
    <3>1. \A e \in out : \E s \in cl.seen : s[1] = e[1] /\ s[2] \in Sealed /\ s[2].value = e[2]
      <4>1. ASSUME NEW e \in cl.out
            PROVE  \E s \in cl.seen : s[1] = e[1] /\ s[2] \in Sealed /\ s[2].value = e[2]
        BY <1>1 DEF Good, Answered
      <4>2. \E s \in cl.seen : s[1] = p /\ s[2] \in Sealed /\ s[2].value = o.value
        BY <1>2, <2>2 DEF o
      <4> QED BY <2>6, <4>1, <4>2
    <3>2. \A q \in cl.about \ left : SeenAbsent(cl, q) \/ \E e \in out : e[1] = q
      <4>1. ASSUME NEW q \in cl.about \ cl.todo
            PROVE  SeenAbsent(cl, q) \/ \E e \in out : e[1] = q
        BY <1>1, <2>7 DEF Good, Answered
      <4>2. \E e \in out : e[1] = p
        BY <2>7
      <4> QED BY <4>1, <4>2
    <3>3. \A q \in left : \E e \in cl.seen : e[1] = q /\ e[2] # Absent
      BY <1>1 DEF Good, Answered
    <3> QED BY <2>4, <2>5, <3>1, <3>2, <3>3 DEF Answered, SeenAbsent
  <2>10. Removing(next, store)
    <3>1. left = {} /\ cl.op = "del" => cl.about = {p}
      BY <1>1, <1>2 DEF Good, Shape
    <3> QED BY <2>2, <2>4, <2>5, <3>1 DEF Removing, SeenAbsent, o
  <2>11. Sourced(next, written)
    BY <1>1, <2>3, <2>4, <2>5, <2>6 DEF Good, Sourced
  <2>12. Watched(next, store)
    BY <1>1, <2>5 DEF Good, Watched
  <2> QED BY <1>1, <2>1, <2>5, <2>8, <2>9, <2>10, <2>11, <2>12, GoesKeeps DEF Good
<1>4. CASE ~Opens(cl.by, p, o)
  <2>1. Goes(c, [cl EXCEPT !.step = "authentication"])
    BY <1>1, <1>4 DEF Read, Ends
  <2>2. Explains(cl, p)
    <3>1. CASE store[p] # Absent
      BY <1>2, <1>4, <3>1 DEF Explains
    <3>2. CASE store[p] = Absent
      <4>1. \E e \in cl.seen : e[1] = p /\ e[2] # Absent
        BY <1>1 DEF Good, Answered
      <4> QED BY <1>2, <3>2, <4>1 DEF Explains
    <3> QED BY <3>1, <3>2
  <2>3. Good([cl EXCEPT !.step = "authentication"], store, written)
    BY <1>1, <1>2, <2>2, EndsKeeps
  <2> QED BY <1>1, <2>1, <2>3, GoesKeeps
<1> QED BY <1>3, <1>4

LEMMA RekeyKeeps ==
    ASSUME IInv, NEW c \in Caller, Rekey(c)
    PROVE  IInv'
<1> DEFINE cl == call[c]
           place == At(grant, cl.by, cl.name)
           next == [cl EXCEPT !.step = "remove", !.again = grant, !.todo = {place}]
<1>1. /\ cl # Idle /\ Good(cl, store, written) /\ cl.step = "rekey" /\ cl.op = "del"
      /\ cl \in Calls /\ UNCHANGED <<grant, written>>
  BY DEF Rekey, IInv, Good, Shape
<1>2. CASE grant = NoKey
  <2>1. Goes(c, [cl EXCEPT !.step = "failed"])
    BY <1>2 DEF Rekey, Ends
  <2> QED BY <1>1, <2>1, EndsKeeps, GoesKeeps
<1>3. CASE grant # NoKey
  <2>1. grant \in Secret /\ place \in Physical /\ Goes(c, next)
    BY <1>1, <1>3, AtTyped DEF Rekey, IInv, Calls
  <2>2. /\ next \in Calls /\ next.step = "remove" /\ next.todo = {place} /\ next.again = grant
        /\ next.op = cl.op /\ next.by = cl.by /\ next.key = cl.key /\ next.name = cl.name
        /\ next.value = cl.value /\ next.about = cl.about
        /\ next.out = cl.out /\ next.seen = cl.seen
    BY <1>1, <2>1, StepsAreSteps DEF Calls
  <2> HIDE DEF next
  <2>3. Shape(next)
    BY <1>1, <2>1, <2>2 DEF Good, Shape
  <2>4. Answered(next)
    BY <1>1, <2>2 DEF Good, Answered
  <2>5. Watched(next, store) /\ Removing(next, store) /\ Sourced(next, written)
    BY <1>1, <2>2 DEF Good, Watched, Removing, Sourced, SeenAbsent
  <2> QED BY <1>1, <2>1, <2>2, <2>3, <2>4, <2>5, GoesKeeps DEF Good
<1> QED BY <1>2, <1>3

LEMMA RemoveKeeps ==
    ASSUME IInv, NEW c \in Caller, NEW p \in Physical, Remove(c, p)
    PROVE  IInv'
<1> DEFINE cl == call[c]
           left == cl.todo \ {p}
           new == Without(p)
           step == IF left = {} THEN "ok" ELSE "remove"
           next == [cl EXCEPT !.todo = left, !.step = step]
           w == Witnessed(next, new)
<1>1. /\ cl # Idle /\ Good(cl, store, written) /\ cl.step = "remove" /\ p \in cl.todo
      /\ cl \in Calls /\ cl.op \in {"del", "clear"}
      /\ Changes(c, next, new) /\ UNCHANGED <<grant, written>>
  BY DEF Remove, IInv, Good, Shape
<1>2. /\ new \in [Physical -> Entry]
      /\ \A q \in Physical : new[q] = store[q] \/ (q = p /\ new[q] = Absent)
      /\ store[p] # Dir => new[p] = Absent
  BY DEF Without, IInv, Entry
<1>3. /\ next \in Calls /\ next.step = step /\ next.todo = left
      /\ next.op = cl.op /\ next.by = cl.by /\ next.key = cl.key /\ next.name = cl.name
      /\ next.value = cl.value /\ next.about = cl.about
      /\ next.out = cl.out /\ next.again = cl.again /\ next.seen = cl.seen
  BY <1>1, StepsAreSteps DEF Calls
<1>4. /\ step \in {"ok", "remove"} /\ (step = "ok" <=> left = {})
  OBVIOUS
<1>5. /\ w \in Calls /\ w.step = step /\ w.todo = left
      /\ w.op = cl.op /\ w.by = cl.by /\ w.key = cl.key /\ w.name = cl.name
      /\ w.value = cl.value /\ w.about = cl.about /\ w.out = cl.out /\ w.again = cl.again
      /\ cl.seen \subseteq w.seen
      /\ \A q \in cl.about : <<q, new[q]>> \in w.seen
  <2> HIDE DEF next, new
  <2> QED BY <1>2, <1>3, WitnessedFields
<1> HIDE DEF next, new, w, step
<1>6. cl.about \subseteq Physical /\ cl.op = "del" => left = {} /\ p = At(cl.again, cl.by, cl.name)
  BY <1>1 DEF Good, Shape
<1>7. Shape(w)
  BY <1>1, <1>4, <1>5, <1>6 DEF Good, Shape, Calls
<1>8. Answered(w) /\ Sourced(w, written) /\ Watched(w, new)
  BY <1>1, <1>4, <1>5 DEF Good, Answered, Sourced, Watched
<1>9. Removing(w, new)
  <2>1. ASSUME cl.op = "del", cl.again \in {cl.key, NoKey}, NEW q \in cl.about
        PROVE  SeenAbsent(w, q)
    <3>1. q = p /\ cl.about = {p}
      BY <1>1, <1>6, <2>1, TablesAreConsistent DEF Good, Shape, Calls
    <3>2. SeenAbsent(cl, p) \/ store[p] \in Sealed
      BY <1>1, <2>1, <3>1 DEF Good, Removing
    <3>3. CASE store[p] \in Sealed
      BY <1>2, <1>5, <3>1, <3>3, OthersAreNoObjects DEF SeenAbsent
    <3> QED BY <1>5, <3>1, <3>2, <3>3 DEF SeenAbsent
  <2> QED BY <1>4, <1>5, <1>6, <2>1, <1>1 DEF Removing, Calls
<1>10. \A q \in Physical : store[q] \in Sealed => new[q] # Dir
  BY <1>2, OthersAreNoObjects
<1>11. Genuine(new, written)
  BY <1>2, OthersAreNoObjects DEF IInv, Genuine
<1>12. Good(w, new, written)
  BY <1>5, <1>7, <1>8, <1>9 DEF Good
<1> QED BY <1>1, <1>2, <1>3, <1>10, <1>11, <1>12, ChangesKeeps DEF w

LEMMA SpendKeeps ==
    ASSUME IInv, NEW c \in Caller, NEW n \in Nonce, Spend(c, n)
    PROVE  IInv'
<1> DEFINE cl == call[c]
           next == [cl EXCEPT !.step = "store"]
<1>1. /\ cl # Idle /\ Good(cl, store, written) /\ cl.step = "spend" /\ cl.op = "set"
      /\ cl \in Calls /\ grant' = grant
  BY DEF Spend, IInv, Good, Shape
<1>2. CASE Goes(c, [cl EXCEPT !.step = "failed"]) /\ UNCHANGED written
  BY <1>1, <1>2, EndsKeeps, GoesKeeps
<1>3. CASE Goes(c, next) /\ written' = written \union {SealedAs(cl.by, cl.name, cl.value)}
  <2>1. /\ next \in Calls /\ next.step = "store"
        /\ next.op = cl.op /\ next.by = cl.by /\ next.key = cl.key /\ next.name = cl.name
        /\ next.value = cl.value /\ next.about = cl.about /\ next.todo = cl.todo
        /\ next.out = cl.out /\ next.again = cl.again /\ next.seen = cl.seen
    BY <1>1, StepsAreSteps DEF Calls
  <2> HIDE DEF next
  <2>2. Shape(next) /\ Answered(next)
    BY <1>1, <2>1 DEF Good, Shape, Answered
  <2>3. Watched(next, store) /\ Removing(next, store) /\ Sourced(next, written')
    BY <1>1, <1>3, <2>1 DEF Good, Watched, Removing, Sourced
  <2>4. written \subseteq written'
    BY <1>3
  <2>5. Good(next, store, written')
    BY <2>1, <2>2, <2>3 DEF Good
  <2> QED BY <1>1, <1>3, <2>4, <2>5, GoesKeeps
<1> QED BY <1>2, <1>3 DEF Spend, Ends, SealedAs

\* set, mkdir and rmdir end when the backend has done them, whatever they have seen by then.
LEMMA StoreKeeps ==
    ASSUME IInv, NEW c \in Caller, Store(c)
    PROVE  IInv'
<1> DEFINE cl == call[c]
           p == At1(c)
           done == [cl EXCEPT !.step = "ok"]
           o == Encoded(Binding(cl.by, p), cl.value)
<1>1. /\ cl # Idle /\ Good(cl, store, written) /\ cl.step = "store"
      /\ cl \in Calls /\ cl.op \in {"set", "mkdir", "rmdir"} /\ UNCHANGED <<grant, written>>
  BY DEF Store, IInv, Good, Shape
<1>2. p = At(cl.key, cl.by, cl.name) /\ p \in Physical /\ p.lane = LaneOf[cl.by] /\ p.name = cl.name
  BY <1>1, OnePlace, AtTyped DEF Good, Calls
<1>3. Good(done, store, written) /\ done \in Calls
  BY <1>1, EndsKeeps DEF Good
<1> HIDE DEF done, p
<1>4. ASSUME NEW new \in [Physical -> Entry], Changes(c, done, new),
             \A q \in Physical : store[q] \in Sealed => new[q] # Dir, Genuine(new, written)
      PROVE  IInv'
  BY <1>1, <1>3, <1>4, WitnessKeeps, ChangesKeeps DEF IInv
<1>5. CASE cl.op = "set" /\ Changes(c, done, [store EXCEPT ![p] = o])
  <2> DEFINE new == [store EXCEPT ![p] = o]
  <2>1. SealedAs(cl.by, cl.name, cl.value) \in written /\ cl.value \in Value
    BY <1>1, <1>5 DEF Good, Sourced, Shape
  <2>2. /\ o \in Sealed /\ o.at = p /\ o.generation = Generation[cl.by] /\ o.value = cl.value
    BY <1>1, <1>2, <2>1, TablesAreConsistent DEF Encoded, Binding, Sealed, Calls
  <2>3. new \in [Physical -> Entry] /\ \A q \in Physical : new[q] = store[q] \/ new[q] = o
    BY <2>2 DEF IInv, Entry
  <2>4. \A q \in Physical : store[q] \in Sealed => new[q] # Dir
    BY <2>2, <2>3, OthersAreNoObjects
  <2>5. Genuine(new, written)
    BY <1>2, <2>1, <2>2, <2>3 DEF IInv, Genuine, SealedAs
  <2> HIDE DEF new
  <2> QED BY <1>4, <1>5, <2>3, <2>4, <2>5 DEF new
<1>6. CASE store[p] \in {Dir, Absent} /\ Changes(c, done, [store EXCEPT ![p] = Dir])
  <2> DEFINE new == [store EXCEPT ![p] = Dir]
  <2>1. /\ new \in [Physical -> Entry]
        /\ \A q \in Physical : new[q] = store[q] \/ (q = p /\ new[q] = Dir)
    BY DEF IInv, Entry
  <2>2. \A q \in Physical : store[q] \in Sealed => new[q] # Dir
    BY <1>6, <2>1, OthersAreNoObjects
  <2>3. Genuine(new, written)
    BY <2>1, OthersAreNoObjects DEF IInv, Genuine
  <2> HIDE DEF new
  <2> QED BY <1>4, <1>6, <2>1, <2>2, <2>3 DEF new
<1>7. CASE Changes(c, done, Emptied(p))
  <2>1. /\ Emptied(p) \in [Physical -> Entry]
        /\ \A q \in Physical : Emptied(p)[q] = store[q] \/ Emptied(p)[q] = Absent
    BY DEF Emptied, IInv, Entry
  <2>2. \A q \in Physical : store[q] \in Sealed => Emptied(p)[q] # Dir
    BY <2>1, OthersAreNoObjects
  <2>3. Genuine(Emptied(p), written)
    BY <2>1, OthersAreNoObjects DEF IInv, Genuine
  <2> QED BY <1>4, <1>7, <2>1, <2>2, <2>3
<1>8. CASE Goes(c, [cl EXCEPT !.step = "failed"])
  BY <1>1, <1>8, EndsKeeps, GoesKeeps
<1> QED BY <1>5, <1>6, <1>7, <1>8 DEF Store, Ends, done, p

LEMMA OwnerKeeps ==
    ASSUME IInv, NEW p \in Physical, NEW q \in Physical, OwnerRestores(p, q)
    PROVE  IInv'
<1> DEFINE new == [store EXCEPT ![q] = store[p]]
<1>1. /\ store' = new /\ call' = Witness(new, call) /\ store[p] \in Sealed
      /\ UNCHANGED <<grant, written>>
  BY DEF OwnerRestores
<1>2. new \in [Physical -> Entry] /\ \A r \in Physical : new[r] = store[r] \/ new[r] = store[p]
  BY DEF IInv
<1>3. \A r \in Physical : store[r] \in Sealed => new[r] # Dir
  BY <1>1, <1>2, OthersAreNoObjects
<1>4. Genuine(new, written)
  BY <1>1, <1>2 DEF IInv, Genuine
<1> HIDE DEF new
<1>5. ASSUME NEW d \in Caller PROVE call'[d] = Idle \/ Good(call'[d], new, written)
  <2>1. call'[d] = IF call[d] = Idle THEN Idle ELSE Witnessed(call[d], new)
    BY <1>1 DEF Witness, Witnessed
  <2> QED BY <1>2, <1>3, <2>1, WitnessKeeps DEF IInv
<1>6. call' \in [Caller -> Calls \union {Idle}]
  BY <1>1, <1>5 DEF Good, Witness
<1> QED BY <1>1, <1>2, <1>4, <1>5, <1>6 DEF IInv, Good, Genuine, Watched, Removing, Sourced

LEMMA NextKeeps ==
    ASSUME IInv, [Next]_vars
    PROVE  IInv'
<1>1. ASSUME NEW c \in Caller, NEW h \in Handle, Starts(c, h) PROVE IInv'
  <2>1. ASSUME NEW n \in Name, NEW v \in Value, Begin(c, h, "set", n, v) PROVE IInv'
    BY <2>1, BeginKeeps DEF Ops
  <2>2. ASSUME NEW n \in Name, NEW op \in Ops \ {"set"}, Begin(c, h, op, n, Absent) PROVE IInv'
    BY <2>2, BeginKeeps
  <2> QED BY <1>1, <2>1, <2>2 DEF Starts
<1>2. ASSUME NEW c \in Caller,
             \/ Has(c) \/ List(c) \/ Rekey(c) \/ Store(c)
             \/ \E p \in Physical : Read(c, p) \/ Remove(c, p)
             \/ \E n \in Nonce : Spend(c, n)
      PROVE  IInv'
  BY <1>2, HasKeeps, ListKeeps, RekeyKeeps, StoreKeeps, ReadKeeps, RemoveKeeps, SpendKeeps
<1>3. ASSUME NEW c \in Caller, Return(c) PROVE IInv'
  BY <1>3, GoesKeeps DEF Return
<1>4. CASE HostGrants
  BY <1>4 DEF HostGrants, IInv, Good, Genuine, Watched, Removing, Sourced
<1>5. ASSUME NEW p \in Physical, NEW q \in Physical, OwnerRestores(p, q) PROVE IInv'
  BY <1>5, OwnerKeeps
<1>6. CASE UNCHANGED vars
  BY <1>6 DEF vars, IInv, Good, Genuine, Watched, Removing, Sourced
<1> QED BY <1>1, <1>2, <1>3, <1>4, <1>5, <1>6 DEF Next

\* What a call knows at each of its steps, it knows in every state.
THEOREM CallsKnow == Spec => []IInv
<1>1. Init => IInv
  BY OthersAreNoObjects DEF Init, IInv, Genuine, Entry
<1>2. IInv /\ [Next]_vars => IInv'
  BY NextKeeps
<1> QED BY <1>1, <1>2, PTL DEF Spec

-------------------------------------------------------------------------------
\* Nonces

LEMMA SpendMeters ==
    ASSUME IInv, Metered, NEW c \in Caller, NEW n \in Nonce, Spend(c, n)
    PROVE  Metered'
<1> DEFINE h == call[c].by
           f == Nonces(h)
<1>1. h \in Handle /\ f \in Handle /\ f = Origin[h]
  BY TablesAreConsistent DEF Spend, IInv, Good, Calls, Nonces
<1>2. CASE UNCHANGED <<spent, seals>>
  BY <1>2 DEF Metered
<1>3. CASE /\ Fresh(f, n) /\ spent' = [spent EXCEPT ![f] = @ \union {n}]
           /\ seals' = [seals EXCEPT ![f][n] = @ + 1] \/ seals' = seals
  <2>1. /\ spent[f] \in SUBSET Nonce /\ n \notin spent[f] /\ IsFiniteSet(spent[f])
        /\ Cardinality(spent[f]) < Budget /\ seals[f][n] = 0
    <3>1. n \notin spent[f] /\ Cardinality(spent[f]) < Budget
      BY <1>3 DEF Fresh
    <3> HIDE DEF f
    <3>2. spent[f] \in SUBSET Nonce /\ IsFiniteSet(spent[f])
      BY <1>1 DEF Metered
    <3>3. seals[f][n] \in {0, 1} /\ (seals[f][n] > 0 => n \in spent[f])
      BY <1>1 DEF Metered
    <3> QED BY <3>1, <3>2, <3>3
  <2>2. /\ IsFiniteSet(spent[f] \union {n})
        /\ Cardinality(spent[f] \union {n}) = Cardinality(spent[f]) + 1
    BY <2>1, FS_AddElement
  <2>3. Cardinality(spent[f]) \in Nat /\ Budget \in Nat
    BY <2>1, FS_CardinalityType, TablesAreConsistent
  <2>4. /\ spent' \in [Handle -> SUBSET Nonce] /\ spent'[f] = spent[f] \union {n}
        /\ \A g \in Handle \ {f} : spent'[g] = spent[g]
    BY <1>1, <1>3 DEF Metered
  <2>5. /\ seals' \in [Handle -> [Nonce -> {0, 1}]]
        /\ \A g \in Handle \ {f} : seals'[g] = seals[g]
        /\ \A m \in Nonce \ {n} : seals'[f][m] = seals[f][m]
    <3>1. seals \in [Handle -> [Nonce -> {0, 1}]]
      BY DEF Metered
    <3>2. seals[f][n] + 1 = 1
      BY <2>1
    <3>3. seals' = seals \/ seals' = [seals EXCEPT ![f][n] = 1]
      BY <1>3, <3>2
    <3> HIDE DEF f
    <3>4. CASE seals' = seals
      BY <3>1, <3>4
    <3>5. CASE seals' = [seals EXCEPT ![f][n] = 1]
      BY <1>1, <3>1, <3>5
    <3> QED BY <3>3, <3>4, <3>5
  <2>6. \A g \in Handle : IsFiniteSet(spent'[g]) /\ Cardinality(spent'[g]) <= Budget
    <3>1. Cardinality(spent[f]) + 1 <= Budget
      BY <2>1, <2>3
    <3>2. IsFiniteSet(spent'[f]) /\ Cardinality(spent'[f]) <= Budget
      BY <2>2, <2>4, <3>1
    <3>3. ASSUME NEW g \in Handle \ {f}
          PROVE  IsFiniteSet(spent'[g]) /\ Cardinality(spent'[g]) <= Budget
      <4>1. spent'[g] = spent[g]
        BY <2>4
      <4> QED BY <4>1 DEF Metered
    <3> QED BY <3>2, <3>3
  <2>7. \A g \in Handle, m \in Nonce : seals'[g][m] > 0 => m \in spent'[g]
    BY <2>4, <2>5 DEF Metered
  <2> QED BY <2>4, <2>5, <2>6, <2>7 DEF Metered
<1> QED BY <1>1, <1>2, <1>3 DEF Spend

LEMMA MeteredInvariance == Spec => []Metered
<1>1. Init => Metered
  <2> SUFFICES ASSUME Init PROVE Metered
    OBVIOUS
  <2>1. IsFiniteSet({}) /\ Cardinality({}) = 0 /\ 0 <= Budget
    BY FS_EmptySet, TablesAreConsistent
  <2> QED BY <2>1 DEF Init, Metered
<1>2. IInv /\ Metered /\ [Next]_vars => Metered'
  <2> SUFFICES ASSUME IInv, Metered, [Next]_vars PROVE Metered'
    OBVIOUS
  <2>1. ASSUME NEW c \in Caller, NEW n \in Nonce, Spend(c, n) PROVE Metered'
    BY <2>1, SpendMeters
  <2>2. CASE UNCHANGED <<spent, seals>>
    BY <2>2 DEF Metered
  <2>3. ASSUME NEW c \in Caller, NEW h \in Handle, Starts(c, h) PROVE UNCHANGED <<spent, seals>>
    BY <2>3 DEF Starts, Begin
  <2>4. ASSUME NEW c \in Caller, Has(c) \/ List(c) \/ Rekey(c) \/ Store(c) \/ Return(c)
        PROVE  UNCHANGED <<spent, seals>>
    BY <2>4 DEF Has, List, Rekey, Store, Return
  <2>5. ASSUME NEW c \in Caller, NEW p \in Physical, Read(c, p) \/ Remove(c, p)
        PROVE  UNCHANGED <<spent, seals>>
    BY <2>5 DEF Read, Remove
  <2>6. CASE HostGrants \/ \E p, q \in Physical : OwnerRestores(p, q)
    BY <2>2, <2>6 DEF HostGrants, OwnerRestores
  <2>7. CASE UNCHANGED vars
    BY <2>2, <2>7 DEF vars
  <2> QED BY <2>1, <2>2, <2>3, <2>4, <2>5, <2>6, <2>7 DEF Next
<1> QED BY <1>1, <1>2, CallsKnow, PTL DEF Spec

-------------------------------------------------------------------------------
\* Theorems

\* table.rs:174-184, 250: a table, its clones and its children use a nonce for one seal,
\* and all of them stay within one budget, whatever the source gives and however many
\* calls overlap.
THEOREM NoncesAreSpentOnce == Spec => []NonceIsUsedOnce
<1>1. ASSUME Metered, NEW h \in Handle
      PROVE  /\ \A n \in Nonce : seals[h][n] <= 1
             /\ Cardinality({n \in Nonce : seals[h][n] > 0}) <= Budget
  <2> DEFINE used == {n \in Nonce : seals[h][n] > 0}
  <2>1. used \subseteq spent[h] /\ IsFiniteSet(spent[h]) /\ Cardinality(spent[h]) <= Budget
    BY <1>1 DEF Metered
  <2>2. IsFiniteSet(used) /\ Cardinality(used) <= Cardinality(spent[h])
    BY <2>1, FS_Subset
  <2>3. Cardinality(used) \in Nat /\ Cardinality(spent[h]) \in Nat /\ Budget \in Nat
    BY <2>1, <2>2, FS_CardinalityType, TablesAreConsistent
  <2>4. \A n \in Nonce : seals[h][n] \in {0, 1}
    BY <1>1 DEF Metered
  <2> QED BY <2>1, <2>2, <2>3, <2>4
<1>2. Metered => NonceIsUsedOnce
  BY <1>1 DEF NonceIsUsedOnce
<1> QED BY <1>2, MeteredInvariance, PTL

\* table.rs:207-239: what a call gives out was sealed for the lane, the generation and
\* the name it is given out for, wherever the backend's owner has put the objects.
THEOREM OnlyWhatWasSealed == Spec => []GivesOutWhatWasSealed
<1>1. IInv => GivesOutWhatWasSealed
  BY DEF IInv, GivesOutWhatWasSealed, Good, Sourced, SealedAs
<1> QED BY <1>1, CallsKnow, PTL

\* table.rs:292-369: a value that is given out was in its place during the call, what is
\* left out was absent for a time, and an authentication failure has a reason.
THEOREM CallsAnswerTheCall == Spec => []AnswersAreOfTheCall
<1>1. IInv => AnswersAreOfTheCall
  BY DEF IInv, AnswersAreOfTheCall, Good, Answered, SeenAbsent
<1> QED BY <1>1, CallsKnow, PTL

\* table.rs:323-328: a del that was given the same key twice leaves its place empty for a
\* time before it returns, however the steps of others come in between.
THEOREM DelAlwaysRemoves == Spec => []DelRemoves
<1>1. IInv => DelRemoves
  BY DEF IInv, DelRemoves, Good, Removing, SeenAbsent
<1> QED BY <1>1, CallsKnow, PTL
================================================================================
