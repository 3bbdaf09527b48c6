------------------------------ MODULE SealedTable ------------------------------
(***************************************************************************)
(* SealedTable: a decorator that seals the values of a backing directory.  *)
(* A call asks the host for the key, once or twice, and then makes one or  *)
(* several calls of the backend, which is shared: other calls, of the same *)
(* table, its clones and children or of other tables over the backend,     *)
(* come in between, and so do the host, which replaces or revokes the key, *)
(* and the backend's owner, who restores stored objects.                   *)
(*                                                                         *)
(* A sealed object is what is bound to it: the physical name it was sealed *)
(* for, the generation, and its value.  Physical names are blinded with    *)
(* the key and the lane, and are modelled by what they are made of.  The   *)
(* cipher and the blinding are external: an object opens under exactly     *)
(* what it was sealed with.  The backend is a DbDir or one like it: the    *)
(* names of directories are among its keys, and get answers nil for them.  *)
(* A key that is absent, revoked or has another id is NoKey; a call that   *)
(* is given NoKey fails and changes nothing, and is left out where it      *)
(* begins.                                                                 *)
(***************************************************************************)
EXTENDS Integers, FiniteSets

CONSTANTS Caller,
          Handle,         \* tables: made by new, by clone, or as the child of another
          Origin,         \* the table made by new that a table is a clone or descendant of
          Lane, LaneOf,   \* each table's lane
          ChildLane,      \* the lane of the directory of that name, or NoLane
          NoLane,
          Generation,     \* each table's generation
          Secret, NoKey,  \* key material; the host gives no usable key
          Name, Value,
          Nonce, Budget,  \* what the source can give; the nonces a family may spend
          Absent, Dir,    \* no entry in the backend; a directory
          Idle,           \* the caller makes no call
          MaxCalls,       \* bound: calls that begin
          MaxRestores     \* bound: objects the backend's owner restores

ASSUME TablesAreConsistent ==
    /\ Origin \in [Handle -> Handle] /\ \A h \in Handle : Origin[Origin[h]] = Origin[h]
    /\ LaneOf \in [Handle -> Lane] /\ NoLane \notin Lane
    /\ ChildLane \in [Lane -> [Name -> Lane \union {NoLane}]]
    /\ Generation \in [Handle -> Nat]
    /\ NoKey \notin Secret /\ Budget \in Nat \ {0}

\* blind_key and blind_lane: the key, the lane and the logical name.
Physical == [secret : Secret, lane : Lane, name : Name]

Sealed == [at : Physical, generation : Nat, value : Value]

ASSUME OthersAreNoObjects == {Absent, Dir} \intersect Sealed = {} /\ Absent # Dir

VARIABLES
    store,      \* the backend: an object, Dir or Absent under each physical name
    grant,      \* what the host gives for the grant
    spent,      \* the nonces each family of tables has used
    call,       \* the call each caller is in
    seals,      \* history: how often a family has sealed with each nonce
    written,    \* history: what was sealed, and for which lane, generation and name
    begun,      \* how many calls have begun
    restores    \* how many objects were restored

counts == <<begun, restores>>
vars == <<store, grant, spent, call, seals, written, counts>>

Entry == Sealed \union {Dir, Absent}

-------------------------------------------------------------------------------
\* Names, bindings, nonces

At(s, h, n) == [secret |-> s, lane |-> LaneOf[h], name |-> n]

\* belongs_to_lane: the prefix has the key in it.
InLane(s, h, p) == p.secret = s /\ p.lane = LaneOf[h]

\* Mutated form: the generation is not bound.
BoundToPlace(h, p, o) == o \in Sealed /\ o.at = p

\* The associated data: lane, generation and physical name; the key made the name.
Binding(h, p) == [at |-> p, generation |-> Generation[h]]

Encoded(binding, v) == [at |-> binding.at, generation |-> binding.generation, value |-> v]

Opens(h, p, o) == o \in Sealed /\ o = Encoded(Binding(h, p), o.value)

\* Mutated form: a child has nonces of its own.
OwnNonces(h) == h

Nonces(h) == Origin[h]

-------------------------------------------------------------------------------
\* Calls

Outcomes == {"ok", "authentication", "failed"}

Steps == {"has", "read", "rekey", "remove", "list", "spend", "store"} \union Outcomes

\* What is done at the backend by a change of its entries: every call that looks at one
\* of them is a witness.
Watches(cl, p) == cl # Idle /\ p \in cl.about

Witness(new, calls) ==
    [c \in Caller |->
        IF calls[c] = Idle THEN Idle
        ELSE [calls[c] EXCEPT !.seen = @ \union {<<p, new[p]>> : p \in calls[c].about}]]

\* A step of c that leaves the backend as it is.
Goes(c, next) == call' = [call EXCEPT ![c] = next] /\ UNCHANGED store

\* A step of c that makes the backend new.
Changes(c, next, new) == store' = new /\ call' = Witness(new, [call EXCEPT ![c] = next])

Ends(c, outcome) == Goes(c, [call[c] EXCEPT !.step = outcome])

\* The keys of the backend that a listing or a clear is about.
Belonging(h, s) == {p \in Physical : InLane(s, h, p)}

\* Every call begins with the host's key.
Begin(c, h, op, n, v) ==
    /\ call[c] = Idle /\ grant # NoKey
    /\ begun < MaxCalls /\ begun' = begun + 1
    /\ LET about == IF op \in {"entries", "clear"} THEN Belonging(h, grant) ELSE {At(grant, h, n)}
           first == CASE op \in {"get", "del"} -> "has"
                      [] op \in {"entries", "clear"} -> "list"
                      [] op = "set" -> "spend"
                      [] op \in {"mkdir", "rmdir"} -> "store"
       IN Goes(c, [op |-> op, by |-> h, key |-> grant, name |-> n, value |-> v, step |-> first,
                   about |-> about, todo |-> about, out |-> {}, again |-> NoKey,
                   seen |-> {<<p, store[p]>> : p \in about}])
    /\ UNCHANGED <<grant, spent, seals, written, restores>>

At1(c) == CHOOSE p \in call[c].about : TRUE

\* Mutated form: a directory is nothing.
HasObject(p) == store[p] \in Sealed

HasEntry(p) == store[p] # Absent

\* get, has and del ask the backend whether there is anything, a directory included.
Has(c) ==
    /\ call[c] # Idle /\ call[c].step = "has"
    /\ Goes(c, [call[c] EXCEPT !.step =
                    IF HasEntry(At1(c)) THEN "read"
                    ELSE IF call[c].op = "del" THEN "rekey" ELSE "ok"])
    /\ UNCHANGED <<grant, spent, seals, written, counts>>

\* keys of the backend names what has a value and what is a directory.
BackendKeys == {p \in Physical : store[p] # Absent}

\* Those that belong to the lane.
Listed(cl) == cl.about \intersect BackendKeys

List(c) ==
    /\ call[c] # Idle /\ call[c].step = "list"
    /\ Goes(c, [call[c] EXCEPT !.todo = Listed(call[c]),
                               !.step = IF Listed(call[c]) = {} THEN "ok"
                                        ELSE IF call[c].op = "clear" THEN "remove" ELSE "read"])
    /\ UNCHANGED <<grant, spent, seals, written, counts>>

\* Mutated form: del has read the entry and is done.
AfterRead(cl, left) == IF left # {} THEN cl.step ELSE "ok"

After(cl, left) ==
    IF left # {} THEN cl.step ELSE IF cl.op = "del" THEN "rekey" ELSE "ok"

\* decode: a payload holds the logical name beside the value.
Decoded(o) == <<o.at, o.value>>

\* What the backend's get answers is opened; nil is no sealed object.
Read(c, p) ==
    /\ call[c] # Idle /\ call[c].step = "read" /\ p \in call[c].todo
    /\ IF Opens(call[c].by, p, store[p])
       THEN LET left == call[c].todo \ {p} IN
            Goes(c, [call[c] EXCEPT !.out = @ \union {Decoded(store[p])}, !.todo = left,
                                    !.step = After(call[c], left)])
       ELSE Ends(c, "authentication")
    /\ UNCHANGED <<grant, spent, seals, written, counts>>

\* del asks the host again, after it has read.
Rekey(c) ==
    /\ call[c] # Idle /\ call[c].step = "rekey"
    /\ IF grant = NoKey THEN Ends(c, "failed")
       ELSE Goes(c, [call[c] EXCEPT !.step = "remove", !.again = grant,
                                    !.todo = {At(grant, call[c].by, call[c].name)}])
    /\ UNCHANGED <<grant, spent, seals, written, counts>>

\* The backend's del leaves a directory alone.
Without(p) == IF store[p] = Dir THEN store ELSE [store EXCEPT ![p] = Absent]

Remove(c, p) ==
    /\ call[c] # Idle /\ call[c].step = "remove" /\ p \in call[c].todo
    /\ LET left == call[c].todo \ {p} IN
       Changes(c, [call[c] EXCEPT !.todo = left,
                                  !.step = IF left = {} THEN "ok" ELSE "remove"],
               Without(p))
    /\ UNCHANGED <<grant, spent, seals, written, counts>>

Fresh(f, n) == Cardinality(spent[f]) < Budget /\ n \notin spent[f]

\* seal, up to the point where a nonce is spent; what fails after it has spent it.
Spend(c, n) ==
    /\ call[c] # Idle /\ call[c].step = "spend"
    /\ LET h == call[c].by
           f == Nonces(h)
       IN IF Fresh(f, n)
          THEN /\ spent' = [spent EXCEPT ![f] = @ \union {n}]
               /\ \/ /\ Goes(c, [call[c] EXCEPT !.step = "store"])
                     /\ seals' = [seals EXCEPT ![Origin[h]][n] = @ + 1]
                     /\ written' = written \union
                          {[lane |-> LaneOf[h], generation |-> Generation[h],
                            name |-> call[c].name, value |-> call[c].value]}
                  \/ Ends(c, "failed") /\ UNCHANGED <<seals, written>>
          ELSE Ends(c, "failed") /\ UNCHANGED <<spent, seals, written>>
    /\ UNCHANGED <<grant, counts>>

\* rmdir of the backend takes what is in the directory with it.
Emptied(p) ==
    [q \in Physical |-> IF q = p \/ q.lane = ChildLane[p.lane][p.name] THEN Absent ELSE store[q]]

\* The backend's set, mkdir or rmdir; each may be refused.
Store(c) ==
    /\ call[c] # Idle /\ call[c].step = "store"
    /\ LET p == At1(c)
           done == [call[c] EXCEPT !.step = "ok"]
           o == Encoded(Binding(call[c].by, p), call[c].value)
       IN CASE call[c].op = "set" /\ store[p] # Dir -> Changes(c, done, [store EXCEPT ![p] = o])
            [] call[c].op = "mkdir" /\ store[p] \in {Dir, Absent} ->
                 Changes(c, done, [store EXCEPT ![p] = Dir])
            [] call[c].op = "rmdir" /\ store[p] = Dir -> Changes(c, done, Emptied(p))
            [] OTHER -> Ends(c, "failed")
    /\ UNCHANGED <<grant, spent, seals, written, counts>>

Return(c) ==
    /\ call[c] # Idle /\ call[c].step \in Outcomes
    /\ Goes(c, Idle)
    /\ UNCHANGED <<grant, spent, seals, written, counts>>

\* External: the host replaces or revokes the key.
HostGrants ==
    /\ grant' \in Secret \union {NoKey}
    /\ UNCHANGED <<store, spent, call, seals, written, counts>>

\* External: the backend's owner puts an object that is stored under another name, too.
OwnerRestores(p, q) ==
    /\ restores < MaxRestores /\ store[p] \in Sealed /\ store[q] # Dir
    /\ restores' = restores + 1
    /\ store' = [store EXCEPT ![q] = store[p]]
    /\ call' = Witness(store', call)
    /\ UNCHANGED <<grant, spent, seals, written, begun>>

-------------------------------------------------------------------------------
Init ==
    /\ store = [p \in Physical |-> Absent]
    /\ grant \in Secret
    /\ spent = [h \in Handle |-> {}]
    /\ call = [c \in Caller |-> Idle]
    /\ seals = [h \in Handle |-> [n \in Nonce |-> 0]]
    /\ written = {} /\ begun = 0 /\ restores = 0

Ops == {"get", "del", "entries", "clear", "set", "mkdir", "rmdir"}

Starts(c, h) ==
    \E n \in Name :
        \/ \E v \in Value : Begin(c, h, "set", n, v)
        \/ \E op \in Ops \ {"set"} : Begin(c, h, op, n, Absent)

Next ==
    \/ \E c \in Caller :
         \/ \E h \in Handle : Starts(c, h)
         \/ Has(c) \/ List(c) \/ Rekey(c) \/ Store(c) \/ Return(c)
         \/ \E p \in Physical : Read(c, p) \/ Remove(c, p)
         \/ \E n \in Nonce : Spend(c, n)
    \/ HostGrants
    \/ \E p, q \in Physical : OwnerRestores(p, q)

Spec == Init /\ [][Next]_vars

-------------------------------------------------------------------------------
\* Properties

\* table.rs:174-184, 250: a nonce is used for one seal by a table, its clones and its
\* children together, and all of them stay within one budget, whatever the source gives
\* and however their calls overlap.
NonceIsUsedOnce ==
    \A h \in Handle :
        /\ \A n \in Nonce : seals[h][n] <= 1
        /\ Cardinality({n \in Nonce : seals[h][n] > 0}) <= Budget

\* table.rs:207-239: what a call gives out was sealed for the lane, the generation and
\* the name it is given out for, whatever the backend's owner has restored where.
GivesOutWhatWasSealed ==
    \A c \in Caller : call[c] # Idle =>
        \A e \in call[c].out :
            [lane |-> LaneOf[call[c].by], generation |-> Generation[call[c].by],
             name |-> e[1].name, value |-> e[2]] \in written

\* The entry was a sealed object of another place or generation, or a directory, or it
\* went away during the call.
Explains(cl, p) ==
    \/ \E e \in cl.seen : e[1] = p /\ e[2] # Absent /\ ~Opens(cl.by, p, e[2])
    \/ <<p, Absent>> \in cl.seen /\ \E e \in cl.seen : e[1] = p /\ e[2] # Absent

\* table.rs:292-369: between the calls of the backend everything may change.  A value that
\* is given out was in its place during the call; get says nil, and a listing leaves an
\* entry out, only if there was none for a time; and the call reports an authentication
\* failure only for an object that is out of place, for a directory, which keys and has
\* of the backend name as well, or for an entry that was removed during the call.
AnswersAreOfTheCall ==
    \A c \in Caller : call[c] # Idle =>
        /\ \A e \in call[c].out : \E s \in call[c].seen :
              s[1] = e[1] /\ s[2] \in Sealed /\ s[2].value = e[2]
        /\ call[c].step = "ok" /\ call[c].op \in {"get", "entries"} =>
              \A p \in call[c].about :
                  <<p, Absent>> \in call[c].seen \/ \E e \in call[c].out : e[1] = p
        /\ call[c].step = "authentication" => \E p \in call[c].about : Explains(call[c], p)

\* table.rs:323-328: del reads, asks the host again and removes.  Unless it was given
\* another key the second time, there was no entry in its place for a time before it returns: it has
\* not passed over a directory, which del of the backend leaves where it is.
DelRemoves ==
    \A c \in Caller :
        call[c] # Idle /\ call[c].op = "del" /\ call[c].step = "ok"
        /\ call[c].again \in {call[c].key, NoKey} =>
            \A p \in call[c].about : <<p, Absent>> \in call[c].seen
==============================================================================
