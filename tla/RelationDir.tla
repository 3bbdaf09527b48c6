------------------------------ MODULE RelationDir ------------------------------
(***************************************************************************)
(* RelationDir: a directory tree kept as the rows of one relation.  Every  *)
(* handle is a path; each call takes the state's mutex, walks the path     *)
(* from row 0 by local names, plans its change on a copy of the state, and *)
(* installs the copy.  A handle with a head first exchanges the generation *)
(* in a slot of another table, here a HashTable: the slot must hold the    *)
(* generation the copy was made from.  Handles without a head share the    *)
(* same rows and write past the slot.                                      *)
(*                                                                         *)
(* A mutation holds the mutex from the first look to the last, so it is    *)
(* one action; entries is not, it takes the lock once for the keys and     *)
(* once for every value.  Several relations may share a slot, and anybody  *)
(* may use the table of the slot.  A call that fails leaves everything as  *)
(* it was and is no action, but for the exchange that is made and then     *)
(* answered with an error.                                                 *)
(*                                                                         *)
(* Of a name the model keeps the symbol and its local part: two symbols    *)
(* with different qualifiers can have the same one.  The root's name is    *)
(* the one illegal name.  Capabilities are granted, a value's bytes and    *)
(* codec are its value: every handle of a relation has the codec the       *)
(* relation was opened with.                                               *)
(***************************************************************************)
EXTENDS Integers, Sequences, FiniteSets

CONSTANTS Relation,       \* the relations that are attached to the slot
          Part,           \* local names
          Name,           \* symbols
          RootName,       \* the empty symbol, which is the root's name
          Local,          \* the local name of each symbol
          NoPart,         \* the local name of the root's
          Value, NoValue, \* values; nil
          Slot, HeadKey,    \* keys of the head's table; the one the head uses
          Absent,         \* no entry in the head's table
          Idle,           \* no listing is under way
          Foreign,        \* generations others put into the slot
          MaxGeneration,  \* bound: mutations of each relation
          MaxDepth        \* bound: length of a handle's path

ASSUME NameAssumption ==
    /\ RootName \in Name /\ NoPart \notin Part
    /\ Local \in [Name -> Part \union {NoPart}]
    /\ \A n \in Name : Local[n] = NoPart <=> n = RootName
ASSUME HeadAssumption == HeadKey \in Slot /\ Absent \notin Nat /\ Foreign \subseteq Nat
ASSUME BoundAssumption == MaxGeneration \in [Relation -> Nat] /\ MaxDepth \in Nat

Path == {p \in Seq(Part) : Len(p) <= MaxDepth}

Row == [id : Nat, parent : Nat, name : Name, kind : {"dir", "value"},
        value : Value \union {NoValue}]

Root == [id |-> 0, parent |-> 0, name |-> RootName, kind |-> "dir", value |-> NoValue]

VARIABLES
    nodes,      \* the rows of each relation
    nextId,     \* the id of the next row
    generation, \* how many mutations were installed
    map,        \* the head's table
    listing,    \* the one call of entries under way
    opened,     \* paths of handles mkdir returned; opendir and resolve return no others
    strayed,    \* history: relations in which rows hung off a value
    lost,       \* history: relations whose exchange was made but answered with an error
    bypassed    \* history: a write through a handle without the head, or somebody
                \* else's change of the slot

state == <<nodes, nextId, generation>>
history == <<strayed, lost, bypassed>>
vars == <<state, map, listing, opened, history>>

Table == INSTANCE HashTable

-------------------------------------------------------------------------------
\* Looking up

Ids(S) == {x.id : x \in S}

\* Iterator::find over a map ordered by id: the first of the rows that fit.
IsFirst(S, x) == x \in S /\ \A y \in S : x.id <= y.id

Missing == -1

FirstId(S) == IF S = {} THEN Missing ELSE (CHOOSE x \in S : IsFirst(S, x)).id

Fits(S, parent, part) == {x \in S : x.parent = parent /\ Local[x.name] = part}

\* resolve_id: the row a path leads to, whatever its kind is.  Only local names are
\* compared.
Resolve(S, path) ==
    LET at[i \in 0..Len(path)] ==
            IF i = 0 THEN 0 ELSE FirstId(Fits(S, at[i-1], path[i]))
    IN at[Len(path)]

\* child: whole symbols are compared.
Siblings(S, parent, name) == {x \in S : x.parent = parent /\ x.name = name}

IsChild(S, parent, name, x) == IsFirst(Siblings(S, parent, name), x)

\* keys: the root row is its own parent and is not among its children.
Keys(S, d) == {x.name : x \in {y \in S : y.parent = d /\ y.id # d}}

\* get and the errors of get: a value, nil for a name that is not there; entries leaves
\* out a directory and everything below a path that is gone.
Got(S, path, k) ==
    LET d == Resolve(S, path) IN
    {[name |-> k, value |-> v] : v \in
        IF d \notin Ids(S) THEN {}
        ELSE IF Siblings(S, d, k) = {} THEN {NoValue}
        ELSE {x.value : x \in {y \in S : IsChild(S, d, k, y) /\ y.kind = "value"}}}

\* What get would answer for every name now.
Answers(S, path) == UNION {Got(S, path, k) : k \in Name}

Steady(S, path) == {g.name : g \in {h \in Answers(S, path) : h.value # NoValue}}

-------------------------------------------------------------------------------
\* Mutations

Expected(g) == IF g = 0 THEN Absent ELSE g

\* Mutated form: the head is set, whatever it holds.
SetsHead(r) == Table!HashSet(HeadKey, generation[r] + 1)

\* The head moves from the generation of the copy to the next one.
MovesHead(r) == Table!HashExchange(HeadKey, Expected(generation[r]), generation[r] + 1)

\* A call of entries that is under way can see what r now holds.
Witness(r, S) ==
    listing' = IF listing # Idle /\ listing.rel = r
               THEN [listing EXCEPT !.truth = @ \union Answers(S, listing.path),
                                    !.steady = @ \intersect Steady(S, listing.path)]
               ELSE listing

HangsOffValue(S) == \E x, y \in S : x.parent = y.id /\ y.kind = "value"

\* The end of execute: the generation, the head, and the new state.
Install(r, headed, S, next) ==
    /\ generation[r] < MaxGeneration[r]
    /\ IF headed THEN MovesHead(r) /\ UNCHANGED bypassed
                 ELSE bypassed' = TRUE /\ UNCHANGED map
    /\ nodes' = [nodes EXCEPT ![r] = S]
    /\ nextId' = [nextId EXCEPT ![r] = next]
    /\ generation' = [generation EXCEPT ![r] = @ + 1]
    /\ strayed' = IF HangsOffValue(S) THEN strayed \union {r} ELSE strayed
    /\ Witness(r, S)
    /\ UNCHANGED lost

\* The parent a handle's path leads to: nothing asks for its kind.
Reaches(r, path, d) == path \in opened[r] /\ d = Resolve(nodes[r], path) /\ d \in Ids(nodes[r])

Fresh(r, d, name, kind, value) ==
    [id |-> nextId[r], parent |-> d, name |-> name, kind |-> kind, value |-> value]

NextId(r) == nextId[r] + 1

SetNew(r, headed, d, name, v) ==
    /\ Siblings(nodes[r], d, name) = {}
    /\ Install(r, headed, nodes[r] \union {Fresh(r, d, name, "value", v)}, NextId(r))

SetOld(r, headed, x, v) ==
    /\ x.kind = "value"
    /\ Install(r, headed, (nodes[r] \ {x}) \union {[x EXCEPT !.value = v]}, nextId[r])

Set(r, headed, path, name, v) ==
    /\ name # RootName
    /\ \E d \in Ids(nodes[r]) :
        /\ Reaches(r, path, d)
        /\ \/ SetNew(r, headed, d, name, v)
           \/ \E x \in nodes[r] : IsChild(nodes[r], d, name, x) /\ SetOld(r, headed, x, v)
    /\ UNCHANGED opened

\* Mutated form: the id of the newest row is given back.
FreesId(r, headed, x) ==
    /\ x.kind = "value"
    /\ Install(r, headed, nodes[r] \ {x}, IF x.id + 1 = nextId[r] THEN x.id ELSE nextId[r])

Deletes(r, headed, x) ==
    /\ x.kind = "value"
    /\ Install(r, headed, nodes[r] \ {x}, nextId[r])

\* Delete of a name that is not there answers nil and installs nothing.
Delete(r, headed, path, name) ==
    /\ \E d \in Ids(nodes[r]), x \in nodes[r] :
        /\ Reaches(r, path, d)
        /\ IsChild(nodes[r], d, name, x)
        /\ Deletes(r, headed, x)
    /\ UNCHANGED opened

NothingThere(r, d, name) == Siblings(nodes[r], d, name) = {}

\* The path of the handle that mkdir and opendir return has the local name only, and so
\* it can lead elsewhere.
Opens(path, name) == Append(path, Local[name])

Mkdir(r, headed, path, name) ==
    /\ name # RootName /\ Len(path) < MaxDepth
    /\ \E d \in Ids(nodes[r]) :
        /\ Reaches(r, path, d)
        /\ NothingThere(r, d, name)
        /\ Install(r, headed, nodes[r] \union {Fresh(r, d, name, "dir", NoValue)}, NextId(r))
    /\ opened' = [opened EXCEPT ![r] = @ \union {Opens(path, name)}]

\* Mutated form: whatever is in it.
IsDirBelow(r, x) == x.id # 0 /\ x.kind = "dir"

\* The root is never removed, nor a directory with anything in it.
IsEmptyDir(r, x) ==
    /\ x.id # 0 /\ x.kind = "dir"
    /\ \A y \in nodes[r] : y.parent = x.id => y.id = x.id

Rmdir(r, headed, path, name) ==
    /\ \E d \in Ids(nodes[r]), x \in nodes[r] :
        /\ Reaches(r, path, d)
        /\ IsChild(nodes[r], d, name, x)
        /\ IsEmptyDir(r, x)
        /\ Install(r, headed, nodes[r] \ {x}, nextId[r])
    /\ UNCHANGED opened

Clear(r, headed, path) ==
    /\ \E d \in Ids(nodes[r]) :
        /\ Reaches(r, path, d)
        /\ Install(r, headed, {x \in nodes[r] : ~(x.parent = d /\ x.kind = "value")}, nextId[r])
    /\ UNCHANGED opened

\* External: the head's table makes the exchange and answers with an error; the copy of
\* the state is dropped.
LoseAnswer(r) ==
    /\ MovesHead(r)
    /\ lost' = lost \union {r}
    /\ UNCHANGED <<state, listing, opened, strayed, bypassed>>

\* Anybody else who has the table of the head uses the slot; bound: until it is bypassed.
Meddle ==
    /\ ~bypassed
    /\ \E k \in Slot :
        \/ Table!HashDel(k) \/ Table!HashClear
        \/ \E g \in Foreign :
             Table!HashSet(k, g) \/ \E e \in {Absent} \union Foreign : Table!HashExchange(k, e, g)
    /\ bypassed' = (map'[HeadKey] # map[HeadKey])
    /\ UNCHANGED <<state, listing, opened, strayed, lost>>

-------------------------------------------------------------------------------
\* entries, and len, which counts them

StartEntries(r, path) ==
    /\ listing = Idle
    /\ \E d \in Ids(nodes[r]) :
        /\ Reaches(r, path, d)
        /\ listing' = [rel |-> r, path |-> path, todo |-> Keys(nodes[r], d), out |-> {},
                       truth |-> Answers(nodes[r], path), steady |-> Steady(nodes[r], path)]
    /\ UNCHANGED <<state, map, opened, history>>

\* Mutated form: what get answers for a directory is taken for nil.
ReadsNil(r, path, k) ==
    IF Got(nodes[r], path, k) = {} THEN {[name |-> k, value |-> NoValue]}
    ELSE Got(nodes[r], path, k)

Reads(r, path, k) == Got(nodes[r], path, k)

\* One key after another; the order of the keys is left open.
ReadEntry(k) ==
    /\ listing # Idle /\ k \in listing.todo
    /\ listing' = [listing EXCEPT !.todo = @ \ {k},
                                  !.out = @ \union Reads(listing.rel, listing.path, k)]
    /\ UNCHANGED <<state, map, opened, history>>

Return ==
    /\ listing # Idle /\ listing.todo = {}
    /\ listing' = Idle
    /\ UNCHANGED <<state, map, opened, history>>

-------------------------------------------------------------------------------
Init ==
    /\ nodes = [r \in Relation |-> {Root}]
    /\ nextId = [r \in Relation |-> 1]
    /\ generation = [r \in Relation |-> 0]
    /\ Table!HashInit
    /\ listing = Idle
    /\ opened = [r \in Relation |-> {<<>>}]
    /\ strayed = {} /\ lost = {} /\ bypassed = FALSE

Mutate(r) ==
    \E headed \in BOOLEAN, path \in opened[r] :
        \/ \E name \in Name :
             \/ \E v \in Value : Set(r, headed, path, name, v)
             \/ Delete(r, headed, path, name)
             \/ Mkdir(r, headed, path, name)
             \/ Rmdir(r, headed, path, name)
        \/ Clear(r, headed, path)

Next ==
    \/ \E r \in Relation : Mutate(r) \/ LoseAnswer(r) \/ \E p \in opened[r] : StartEntries(r, p)
    \/ Meddle
    \/ \E k \in Name : ReadEntry(k)
    \/ Return

Spec == Init /\ [][Next]_vars

-------------------------------------------------------------------------------
\* Properties

Listing == [rel : Relation, path : Path, todo : SUBSET Name,
            out : SUBSET [name : Name, value : Value \union {NoValue}],
            truth : SUBSET [name : Name, value : Value \union {NoValue}], steady : SUBSET Name]

\* The types of backend.rs:43-64, with root row zero and every id below the next one.
TypeOK ==
    /\ nodes \in [Relation -> SUBSET Row]
    /\ nextId \in [Relation -> Nat \ {0}]
    /\ generation \in [Relation -> Nat]
    /\ map \in [Slot -> Nat \union {Absent}]
    /\ opened \in [Relation -> SUBSET Path]
    /\ listing = Idle \/ listing \in Listing
    /\ strayed \subseteq Relation /\ lost \subseteq Relation
    /\ bypassed \in BOOLEAN
    /\ \A r \in Relation : \A x \in nodes[r] : x.id < nextId[r]

\* backend.rs:43-57: ids name one row each, a name is unique within its parent, and the
\* root is always there; whatever handles are used and however stale they are.
RowsAreKeyed ==
    \A r \in Relation :
        /\ Root \in nodes[r]
        /\ \A x, y \in nodes[r] :
             x.id = y.id \/ (x.parent = y.parent /\ x.name = y.name) => x = y

\* Every row is below a directory row that is older, so the rows are one tree: unless a
\* handle for a path that has become a value's was used to put a row below that value,
\* which resolve_id does not look at (backend.rs:169-182).
NamespaceIsTree ==
    \A r \in Relation \ strayed : \A x \in nodes[r] \ {Root} :
        \E y \in nodes[r] : y.id = x.parent /\ y.kind = "dir" /\ y.id < x.id

\* backend.rs:44: an id is generated once.  A row keeps its parent, name and kind while
\* it is there, and no later row is given the id of one that was removed.
IdsAreNotReused ==
    [][\A r \in Relation :
         /\ nextId'[r] >= nextId[r]
         /\ \A y \in nodes'[r] :
              y.id >= nextId[r] \/ \E x \in nodes[r] : [x EXCEPT !.value = y.value] = y]_vars

\* backend.rs:298-318: while every write goes through the head and nobody else touches
\* the slot, the slot holds the generation of the one relation that was ever written;
\* it is one ahead after an answer was lost, and then that relation is written no more.
OneLineage ==
    ~bypassed =>
        \A r \in Relation :
            generation[r] > 0 \/ r \in lost =>
                /\ map[HeadKey] = generation[r] + (IF r \in lost THEN 1 ELSE 0)
                /\ \A q \in Relation \ {r} : generation[q] = 0 /\ q \notin lost

\* backend.rs:383-402: entries locks for the keys and again for every value, and drops
\* what get refuses.  Each pair it returns was the answer of get at some time of the call,
\* nil for a name that went in between, and a value that was there all along is returned.
EntriesAreOfTheCall ==
    listing # Idle =>
        /\ listing.out \subseteq listing.truth
        /\ listing.todo = {} => listing.steady \subseteq {e.name : e \in listing.out}
==============================================================================
