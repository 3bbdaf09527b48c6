--------------------------- MODULE RelationDirProofs ---------------------------
(***************************************************************************)
(* The safety properties of RelationDir, for every set of relations,       *)
(* names, values and keys and every bound.  A mutation is a change of one  *)
(* set of rows that Install makes: IsChange says what such a change keeps, *)
(* one lemma per operation shows that it makes such a change, and one      *)
(* lemma shows that installing any such change keeps the invariant.        *)
(***************************************************************************)
EXTENDS RelationDir, TLAPS

\* The parts of the properties that speak of one set of rows.
Keyed(S) ==
    /\ Root \in S
    /\ \A x, y \in S : x.id = y.id \/ (x.parent = y.parent /\ x.name = y.name) => x = y

Older(S) == \A x \in S \ {Root} : x.parent < x.id

Tree(S) == \A x \in S \ {Root} : \E y \in S : y.id = x.parent /\ y.kind = "dir" /\ y.id < x.id

Keeps(S, T, next) == \A y \in T : y.id >= next \/ \E x \in S : [x EXCEPT !.value = y.value] = y

\* Rows T with next id m may follow rows S with next id n.
IsChange(S, n, T, m) ==
    /\ T \subseteq Row
    /\ m \in Nat /\ m >= n
    /\ \A x \in T : x.id < m
    /\ Keyed(T)
    /\ Older(T)
    /\ Keeps(S, T, n)
    /\ Tree(S) /\ ~HangsOffValue(T) => Tree(T)

\* What a listing knows of the rows it reads.
Informed ==
    listing # Idle =>
        /\ Answers(nodes[listing.rel], listing.path) \subseteq listing.truth
        /\ listing.steady \subseteq Steady(nodes[listing.rel], listing.path)
        /\ listing.out \subseteq listing.truth
        /\ listing.steady \subseteq listing.todo \union {e.name : e \in listing.out}

IInv ==
    /\ TypeOK
    /\ RowsAreKeyed
    /\ \A r \in Relation : Older(nodes[r])
    /\ NamespaceIsTree
    /\ OneLineage
    /\ Informed

-------------------------------------------------------------------------------
\* What get answers

\* get answers with pairs of its name.
LEMMA GotType ==
    ASSUME NEW S \in SUBSET Row, NEW path, NEW k \in Name
    PROVE  Got(S, path, k) \subseteq [name : {k}, value : Value \union {NoValue}]
<1> DEFINE d == Resolve(S, path)
           V == IF d \notin Ids(S) THEN {}
                ELSE IF Siblings(S, d, k) = {} THEN {NoValue}
                ELSE {x.value : x \in {y \in S : IsChild(S, d, k, y) /\ y.kind = "value"}}
<1>1. \A x \in S : x.value \in Value \union {NoValue}
  BY DEF Row
<1>2. V \subseteq Value \union {NoValue}
  <2> HIDE DEF d
  <2> QED BY <1>1
<1>3. Got(S, path, k) = {[name |-> k, value |-> v] : v \in V}
  BY DEF Got
<1> HIDE DEF V
<1> QED BY <1>2, <1>3

\* So are the answers for all names.
LEMMA AnswersType ==
    ASSUME NEW S \in SUBSET Row, NEW path
    PROVE  /\ Answers(S, path) \subseteq [name : Name, value : Value \union {NoValue}]
           /\ Steady(S, path) \subseteq Name
           /\ \A k \in Name : Got(S, path, k) \subseteq Answers(S, path)
           /\ \A k \in Steady(S, path) : \E g \in Got(S, path, k) : g.name = k
<1>1. \A k \in Name : Got(S, path, k) \subseteq [name : {k}, value : Value \union {NoValue}]
  BY GotType
<1>2. Answers(S, path) \subseteq [name : Name, value : Value \union {NoValue}]
  BY <1>1 DEF Answers
<1>3. \A k \in Name : Got(S, path, k) \subseteq Answers(S, path)
  BY DEF Answers
<1>4. Steady(S, path) \subseteq Name
  BY <1>2 DEF Steady
<1>5. ASSUME NEW k \in Steady(S, path)
      PROVE  \E g \in Got(S, path, k) : g.name = k
  <2>1. PICK g \in Answers(S, path) : g.name = k
    BY DEF Steady
  <2>2. PICK n \in Name : g \in Got(S, path, n)
    BY <2>1 DEF Answers
  <2>3. g.name = n
    BY <1>1, <2>2
  <2> QED BY <2>1, <2>2, <2>3
<1> QED BY <1>2, <1>3, <1>4, <1>5

\* A name with a value is a key of its directory.
LEMMA SteadyAreKeys ==
    ASSUME NEW S \in SUBSET Row, Older(S), NEW path, NEW d, d = Resolve(S, path)
    PROVE  Steady(S, path) \subseteq Keys(S, d)
<1> SUFFICES ASSUME NEW k \in Steady(S, path) PROVE k \in Keys(S, d)
  OBVIOUS
<1>1. PICK g \in Answers(S, path) : g.name = k /\ g.value # NoValue
  BY DEF Steady
<1>2. PICK n \in Name : g \in Got(S, path, n)
  BY <1>1 DEF Answers
<1>3. n = k
  BY <1>1, <1>2, GotType
<1>4. PICK x \in S : IsChild(S, d, k, x) /\ x.kind = "value"
  <2>1. PICK v : /\ g = [name |-> k, value |-> v]
                 /\ v \in IF d \notin Ids(S) THEN {}
                          ELSE IF Siblings(S, d, k) = {} THEN {NoValue}
                          ELSE {x.value : x \in {y \in S : IsChild(S, d, k, y) /\ y.kind = "value"}}
    BY <1>2, <1>3 DEF Got
  <2>2. v # NoValue
    BY <1>1, <2>1
  <2> QED BY <2>1, <2>2
<1>5. x.parent = d /\ x.name = k
  BY <1>4 DEF IsChild, IsFirst, Siblings
<1>6. x # Root
  BY <1>4 DEF Root
<1>7. x.id # d
  BY <1>5, <1>6 DEF Older, Row
<1> QED BY <1>5, <1>7 DEF Keys

-------------------------------------------------------------------------------
\* The changes of rows

\* What the invariant says of one relation.
LEMMA RowsOf ==
    ASSUME IInv, NEW r \in Relation
    PROVE  /\ nodes[r] \subseteq Row /\ nextId[r] \in Nat \ {0}
           /\ \A x \in nodes[r] : x.id < nextId[r]
           /\ Keyed(nodes[r]) /\ Older(nodes[r])
BY DEF IInv, TypeOK, RowsAreKeyed, Keyed

\* A row with the next id, below a row that is there and has no child of that name.
LEMMA AddIsChange ==
    ASSUME NEW S \in SUBSET Row, NEW n \in Nat \ {0}, \A x \in S : x.id < n,
           Keyed(S), Older(S),
           NEW y \in Row, y.id = n, y.parent \in Ids(S), Siblings(S, y.parent, y.name) = {}
    PROVE  IsChange(S, n, S \union {y}, n + 1)
<1> DEFINE T == S \union {y}
<1>1. T \subseteq Row /\ n + 1 \in Nat /\ n + 1 >= n /\ \A x \in T : x.id < n + 1
  BY DEF Row
<1>2. Keyed(T)
  <2>1. \A x \in S : x.id # y.id
    BY DEF Row
  <2>2. \A x \in S : ~(x.parent = y.parent /\ x.name = y.name)
    BY DEF Siblings
  <2> QED BY <2>1, <2>2 DEF Keyed
<1>3. y.parent < y.id
  BY DEF Ids, Row
<1>4. Older(T)
  BY <1>3 DEF Older
<1>5. Keeps(S, T, n)
  <2>1. \A x \in S : [x EXCEPT !.value = x.value] = x
    BY DEF Row
  <2>2. y.id >= n
    OBVIOUS
  <2> QED BY <2>1, <2>2 DEF Keeps
<1>6. ASSUME Tree(S), ~HangsOffValue(T) PROVE Tree(T)
  <2>1. PICK z \in S : z.id = y.parent
    BY DEF Ids
  <2>2. z.kind = "dir"
    BY <1>6, <2>1 DEF HangsOffValue, Row
  <2> QED BY <1>3, <1>6, <2>1, <2>2 DEF Tree
<1> QED BY <1>1, <1>2, <1>4, <1>5, <1>6 DEF IsChange

\* A row that is not the root has another value.
LEMMA PutIsChange ==
    ASSUME NEW S \in SUBSET Row, NEW n \in Nat \ {0}, \A x \in S : x.id < n,
           Keyed(S), Older(S), NEW x \in S, x.kind = "value", NEW v \in Value
    PROVE  IsChange(S, n, (S \ {x}) \union {[x EXCEPT !.value = v]}, n)
<1> DEFINE y == [x EXCEPT !.value = v]
           T == (S \ {x}) \union {y}
<1>1. y \in Row /\ y.id = x.id /\ y.parent = x.parent /\ y.name = x.name /\ y.kind = x.kind
  BY DEF Row
<1>2. x # Root /\ y # Root
  BY <1>1 DEF Root
<1>3. [x EXCEPT !.value = y.value] = y
  BY DEF Row
<1> HIDE DEF y
<1>4. T \subseteq Row /\ n \in Nat /\ n >= n /\ \A z \in T : z.id < n
  BY <1>1
<1>5. Keyed(T)
  BY <1>1, <1>2 DEF Keyed
<1>6. Older(T)
  BY <1>1, <1>2 DEF Older
<1>7. Keeps(S, T, n)
  <2>1. \A z \in S : [z EXCEPT !.value = z.value] = z
    BY DEF Row
  <2> QED BY <2>1, <1>3 DEF Keeps
<1>8. ASSUME Tree(S) PROVE Tree(T)
  <2>1. \A z \in S \ {Root} : \E w \in T : w.id = z.parent /\ w.kind = "dir" /\ w.id < z.id
    BY <1>8 DEF Tree
  <2> QED BY <1>1, <1>2, <2>1 DEF Tree
<1> QED BY <1>4, <1>5, <1>6, <1>7, <1>8 DEF IsChange, y

\* Rows are removed, none of them the root or a directory with rows left in it.
LEMMA RemoveIsChange ==
    ASSUME NEW S \in SUBSET Row, NEW n \in Nat \ {0}, \A x \in S : x.id < n,
           Keyed(S), Older(S), NEW T \in SUBSET S, Root \in T,
           \A x \in S \ T, z \in T \ {Root} : x.kind = "dir" => z.parent # x.id
    PROVE  IsChange(S, n, T, n)
<1>1. T \subseteq Row /\ n \in Nat /\ n >= n /\ \A z \in T : z.id < n
  OBVIOUS
<1>2. Keyed(T) /\ Older(T)
  BY DEF Keyed, Older
<1>3. Keeps(S, T, n)
  <2>1. \A z \in S : [z EXCEPT !.value = z.value] = z
    BY DEF Row
  <2> QED BY <2>1 DEF Keeps
<1>4. ASSUME Tree(S) PROVE Tree(T)
  BY <1>4 DEF Tree
<1> QED BY <1>1, <1>2, <1>3, <1>4 DEF IsChange

-------------------------------------------------------------------------------
\* Each mutation installs a change

\* What every mutation comes down to.
Changes(r) == \E headed \in BOOLEAN, T \in SUBSET Row, m \in Nat :
                  Install(r, headed, T, m) /\ IsChange(nodes[r], nextId[r], T, m)

LEMMA ChangesBy ==
    ASSUME NEW r \in Relation, NEW headed \in BOOLEAN, NEW T, NEW m,
           Install(r, headed, T, m), IsChange(nodes[r], nextId[r], T, m)
    PROVE  Changes(r)
<1>1. T \in SUBSET Row /\ m \in Nat
  BY DEF IsChange
<1> QED BY <1>1 DEF Changes

LEMMA SetChanges ==
    ASSUME IInv, NEW r \in Relation, NEW headed \in BOOLEAN, NEW path,
           NEW name \in Name, NEW v \in Value, Set(r, headed, path, name, v)
    PROVE  Changes(r)
<1>1. PICK d \in Ids(nodes[r]) :
          \/ SetNew(r, headed, d, name, v)
          \/ \E x \in nodes[r] : IsChild(nodes[r], d, name, x) /\ SetOld(r, headed, x, v)
  BY DEF Set
<1>2. d \in Nat
  BY RowsOf DEF Ids, Row
<1>3. CASE SetNew(r, headed, d, name, v)
  <2> DEFINE y == Fresh(r, d, name, "value", v)
  <2>1. y \in Row /\ y.id = nextId[r] /\ y.parent = d /\ y.name = name
    BY RowsOf, <1>2 DEF Fresh, Row
  <2>2. Siblings(nodes[r], d, name) = {} /\ Install(r, headed, nodes[r] \union {y}, nextId[r] + 1)
    BY <1>3 DEF SetNew, NextId
  <2> HIDE DEF y
  <2>3. IsChange(nodes[r], nextId[r], nodes[r] \union {y}, nextId[r] + 1)
    BY AddIsChange, RowsOf, <2>1, <2>2
  <2> QED BY ChangesBy, <2>2, <2>3
<1>4. CASE \E x \in nodes[r] : IsChild(nodes[r], d, name, x) /\ SetOld(r, headed, x, v)
  <2>1. PICK x \in nodes[r] : SetOld(r, headed, x, v)
    BY <1>4
  <2>2. IsChange(nodes[r], nextId[r], (nodes[r] \ {x}) \union {[x EXCEPT !.value = v]}, nextId[r])
    BY PutIsChange, RowsOf, <2>1 DEF SetOld
  <2> QED BY ChangesBy, <2>1, <2>2 DEF SetOld
<1> QED BY <1>1, <1>3, <1>4

LEMMA DeleteChanges ==
    ASSUME IInv, NEW r \in Relation, NEW headed \in BOOLEAN, NEW path,
           NEW name \in Name, Delete(r, headed, path, name)
    PROVE  Changes(r)
<1>1. PICK x \in nodes[r] : x.kind = "value" /\ Install(r, headed, nodes[r] \ {x}, nextId[r])
  BY DEF Delete, Deletes
<1>2. x # Root
  BY <1>1 DEF Root
<1>3. Root \in nodes[r] \ {x}
  BY <1>2, RowsOf DEF Keyed
<1>4. IsChange(nodes[r], nextId[r], nodes[r] \ {x}, nextId[r])
  <2>1. \A y \in nodes[r] \ (nodes[r] \ {x}) : y.kind # "dir"
    BY <1>1
  <2> QED BY RemoveIsChange, RowsOf, <1>3, <2>1
<1> QED BY ChangesBy, <1>1, <1>4

LEMMA MkdirChanges ==
    ASSUME IInv, NEW r \in Relation, NEW headed \in BOOLEAN, NEW path,
           NEW name \in Name, Mkdir(r, headed, path, name)
    PROVE  Changes(r)
<1>1. PICK d \in Ids(nodes[r]) :
          /\ Siblings(nodes[r], d, name) = {}
          /\ Install(r, headed, nodes[r] \union {Fresh(r, d, name, "dir", NoValue)}, nextId[r] + 1)
  BY DEF Mkdir, NothingThere, NextId
<1>2. d \in Nat
  BY RowsOf DEF Ids, Row
<1> DEFINE y == Fresh(r, d, name, "dir", NoValue)
<1>3. y \in Row /\ y.id = nextId[r] /\ y.parent = d /\ y.name = name
  BY RowsOf, <1>2 DEF Fresh, Row
<1>4. Install(r, headed, nodes[r] \union {y}, nextId[r] + 1)
  BY <1>1
<1> HIDE DEF y
<1>5. IsChange(nodes[r], nextId[r], nodes[r] \union {y}, nextId[r] + 1)
  BY AddIsChange, RowsOf, <1>1, <1>3
<1> QED BY ChangesBy, <1>4, <1>5

LEMMA RmdirChanges ==
    ASSUME IInv, NEW r \in Relation, NEW headed \in BOOLEAN, NEW path,
           NEW name \in Name, Rmdir(r, headed, path, name)
    PROVE  Changes(r)
<1>1. PICK x \in nodes[r] : IsEmptyDir(r, x) /\ Install(r, headed, nodes[r] \ {x}, nextId[r])
  BY DEF Rmdir
<1>2. Root \in nodes[r] \ {x}
  BY <1>1, RowsOf DEF Keyed, IsEmptyDir, Root
<1>3. \A z \in nodes[r] \ {x} : z.parent # x.id
  BY <1>1, RowsOf DEF IsEmptyDir, Keyed
<1>4. IsChange(nodes[r], nextId[r], nodes[r] \ {x}, nextId[r])
  <2>1. \A y \in nodes[r] \ (nodes[r] \ {x}) : y = x
    OBVIOUS
  <2> QED BY RemoveIsChange, RowsOf, <1>2, <1>3, <2>1
<1> QED BY ChangesBy, <1>1, <1>4

LEMMA ClearChanges ==
    ASSUME IInv, NEW r \in Relation, NEW headed \in BOOLEAN, NEW path, Clear(r, headed, path)
    PROVE  Changes(r)
<1>1. PICK d \in Ids(nodes[r]) :
          Install(r, headed, {x \in nodes[r] : ~(x.parent = d /\ x.kind = "value")}, nextId[r])
  BY DEF Clear
<1> DEFINE T == {x \in nodes[r] : ~(x.parent = d /\ x.kind = "value")}
<1>2. Root \in T
  BY RowsOf DEF Keyed, Root
<1>3. T \subseteq nodes[r] /\ \A x \in nodes[r] \ T : x.kind # "dir"
  OBVIOUS
<1>4. Install(r, headed, T, nextId[r])
  BY <1>1
<1> HIDE DEF T
<1>5. IsChange(nodes[r], nextId[r], T, nextId[r])
  BY RemoveIsChange, RowsOf, <1>2, <1>3
<1> QED BY ChangesBy, <1>4, <1>5

-------------------------------------------------------------------------------
\* Installing a change keeps the invariant

LEMMA InstallRows ==
    ASSUME IInv, NEW r \in Relation, Changes(r)
    PROVE  /\ nodes' \in [Relation -> SUBSET Row] /\ nextId' \in [Relation -> Nat \ {0}]
           /\ \A q \in Relation : \A x \in nodes'[q] : x.id < nextId'[q]
           /\ RowsAreKeyed' /\ (\A q \in Relation : Older(nodes[q]))' /\ NamespaceIsTree'
           /\ \A q \in Relation : nextId'[q] >= nextId[q] /\ Keeps(nodes[q], nodes'[q], nextId[q])
<1>1. PICK headed \in BOOLEAN, T \in SUBSET Row, m \in Nat :
          Install(r, headed, T, m) /\ IsChange(nodes[r], nextId[r], T, m)
  BY DEF Changes
<1>2. /\ nodes' = [nodes EXCEPT ![r] = T] /\ nextId' = [nextId EXCEPT ![r] = m]
      /\ strayed' = IF HangsOffValue(T) THEN strayed \union {r} ELSE strayed
  BY <1>1 DEF Install
<1>3. nodes \in [Relation -> SUBSET Row] /\ nextId \in [Relation -> Nat \ {0}]
  BY DEF IInv, TypeOK
<1>4. nodes'[r] = T /\ nextId'[r] = m
      /\ \A q \in Relation \ {r} : nodes'[q] = nodes[q] /\ nextId'[q] = nextId[q]
  BY <1>2, <1>3
<1>5. m \in Nat \ {0} /\ m >= nextId[r] /\ (\A x \in T : x.id < m) /\ Keyed(T) /\ Older(T)
      /\ Keeps(nodes[r], T, nextId[r]) /\ (Tree(nodes[r]) /\ ~HangsOffValue(T) => Tree(T))
  BY <1>1, <1>3 DEF IsChange
<1>6. \A q \in Relation : Keyed(nodes[q]) /\ Older(nodes[q])
                          /\ \A x \in nodes[q] : x.id < nextId[q]
  BY RowsOf
<1>7. \A q \in Relation : Keyed(nodes'[q]) /\ Older(nodes'[q])
                          /\ \A x \in nodes'[q] : x.id < nextId'[q]
  BY <1>4, <1>5, <1>6
<1>8. nodes' \in [Relation -> SUBSET Row] /\ nextId' \in [Relation -> Nat \ {0}]
  BY <1>2, <1>3, <1>5
<1>9. RowsAreKeyed'
  BY <1>7 DEF RowsAreKeyed, Keyed
<1>10. \A q \in Relation \ strayed' : Tree(nodes'[q])
  <2>1. \A q \in Relation \ strayed : Tree(nodes[q])
    BY DEF IInv, NamespaceIsTree, Tree
  <2> QED BY <1>2, <1>4, <1>5, <2>1
<1>11. NamespaceIsTree'
  BY <1>10 DEF NamespaceIsTree, Tree
<1>12. \A q \in Relation : nextId'[q] >= nextId[q] /\ Keeps(nodes[q], nodes'[q], nextId[q])
  <2>1. ASSUME NEW q \in Relation \ {r} PROVE Keeps(nodes[q], nodes'[q], nextId[q])
    <3>1. \A x \in nodes[q] : [x EXCEPT !.value = x.value] = x
      BY <1>3 DEF Row
    <3> QED BY <1>4, <3>1 DEF Keeps
  <2>2. \A q \in Relation \ {r} : nextId'[q] >= nextId[q]
    BY <1>3, <1>4
  <2> QED BY <1>4, <1>5, <2>1, <2>2
<1> QED BY <1>7, <1>8, <1>9, <1>11, <1>12

\* The new answers reach a listing that reads r.
LEMMA InstallInforms ==
    ASSUME IInv, NEW r \in Relation, Changes(r)
    PROVE  (listing = Idle \/ listing \in Listing)' /\ Informed'
<1>1. PICK headed \in BOOLEAN, T \in SUBSET Row, m \in Nat : Install(r, headed, T, m)
  BY DEF Changes
<1>2. nodes' = [nodes EXCEPT ![r] = T] /\ Witness(r, T)
  BY <1>1 DEF Install
<1>3. nodes \in [Relation -> SUBSET Row] /\ (listing = Idle \/ listing \in Listing) /\ Informed
  BY DEF IInv, TypeOK
<1>4. nodes'[r] = T /\ \A q \in Relation \ {r} : nodes'[q] = nodes[q]
  BY <1>2, <1>3
<1>5. CASE listing # Idle /\ listing.rel = r
  <2> DEFINE A == Answers(T, listing.path)
             Y == Steady(T, listing.path)
  <2>1. listing' = [listing EXCEPT !.truth = @ \union A, !.steady = @ \intersect Y]
    BY <1>2, <1>5 DEF Witness
  <2>2. A \subseteq [name : Name, value : Value \union {NoValue}]
    BY AnswersType
  <2>3. listing \in Listing
    BY <1>3, <1>5
  <2>4. nodes'[r] = T
    BY <1>4
  <2> HIDE DEF A, Y
  <2>5. /\ listing'.rel = r /\ listing'.path = listing.path /\ listing'.todo = listing.todo
        /\ listing'.out = listing.out /\ listing'.truth = listing.truth \union A
        /\ listing'.steady = listing.steady \intersect Y
    BY <2>1, <2>3, <1>5 DEF Listing
  <2>6. listing' \in Listing
    BY <2>1, <2>2, <2>3 DEF Listing
  <2>7. /\ listing.out \subseteq listing.truth
        /\ listing.steady \subseteq listing.todo \union {e.name : e \in listing.out}
    BY <1>3, <1>5 DEF Informed
  <2>8. Answers(nodes'[listing'.rel], listing'.path) = A
        /\ Steady(nodes'[listing'.rel], listing'.path) = Y
    BY <2>4, <2>5 DEF A, Y
  <2>9. Informed'
    BY <2>5, <2>7, <2>8 DEF Informed
  <2> QED BY <2>6, <2>9
<1>6. CASE listing # Idle /\ listing.rel # r
  <2>1. listing' = listing
    BY <1>2, <1>6 DEF Witness
  <2>2. listing.rel \in Relation
    BY <1>3, <1>6 DEF Listing
  <2>3. nodes'[listing.rel] = nodes[listing.rel]
    BY <1>4, <1>6, <2>2
  <2> QED BY <1>3, <2>1, <2>3 DEF Informed
<1>7. CASE listing = Idle
  <2>1. listing' = listing
    BY <1>2, <1>7 DEF Witness
  <2> QED BY <1>7, <2>1 DEF Informed
<1> QED BY <1>5, <1>6, <1>7

\* The slot moves with the one relation that was ever written.
LEMMA InstallHead ==
    ASSUME IInv, NEW r \in Relation, Changes(r)
    PROVE  /\ generation' \in [Relation -> Nat] /\ map' \in [Slot -> Nat \union {Absent}]
           /\ strayed' \subseteq Relation /\ lost' \subseteq Relation /\ bypassed' \in BOOLEAN
           /\ OneLineage'
<1>1. PICK headed \in BOOLEAN, T \in SUBSET Row, m \in Nat : Install(r, headed, T, m)
  BY DEF Changes
<1>2. /\ generation' = [generation EXCEPT ![r] = @ + 1] /\ lost' = lost
      /\ strayed' = IF HangsOffValue(T) THEN strayed \union {r} ELSE strayed
  BY <1>1 DEF Install
<1>3. /\ generation \in [Relation -> Nat] /\ map \in [Slot -> Nat \union {Absent}]
      /\ strayed \subseteq Relation /\ lost \subseteq Relation /\ bypassed \in BOOLEAN
      /\ OneLineage
  BY DEF IInv, TypeOK
<1>4. generation' \in [Relation -> Nat] /\ strayed' \subseteq Relation /\ lost' \subseteq Relation
  BY <1>2, <1>3
<1>5. CASE ~headed
  <2>1. bypassed' = TRUE /\ map' = map
    BY <1>1, <1>5 DEF Install
  <2> QED BY <1>3, <1>4, <2>1 DEF OneLineage
<1>6. CASE headed
  <2>1. /\ bypassed' = bypassed
        /\ map[HeadKey] = Expected(generation[r])
        /\ map' = [map EXCEPT ![HeadKey] = generation[r] + 1]
    BY <1>1, <1>6 DEF Install, MovesHead, Table!HashExchange, Table!Matches
  <2>2. map' \in [Slot -> Nat \union {Absent}] /\ map'[HeadKey] = generation[r] + 1
    BY <1>3, <2>1, HeadAssumption
  <2>3. ASSUME ~bypassed PROVE r \notin lost /\ \A q \in Relation \ {r} : generation[q] = 0 /\ q \notin lost
    <3>1. \A q \in Relation : generation[q] > 0 \/ q \in lost =>
              /\ map[HeadKey] = generation[q] + (IF q \in lost THEN 1 ELSE 0)
              /\ \A p \in Relation \ {q} : generation[p] = 0 /\ p \notin lost
      BY <1>3, <2>3 DEF OneLineage
    <3>2. CASE generation[r] = 0
      <4>1. map[HeadKey] \notin Nat
        BY <2>1, <3>2, HeadAssumption DEF Expected
      <4>2. \A q \in Relation : generation[q] = 0 /\ q \notin lost
        BY <1>3, <3>1, <4>1
      <4> QED BY <4>2
    <3>3. CASE generation[r] > 0
      <4>1. map[HeadKey] = generation[r]
        BY <1>3, <2>1, <3>3 DEF Expected
      <4> QED BY <1>3, <3>1, <3>3, <4>1
    <3> QED BY <1>3, <3>2, <3>3
  <2>4. generation'[r] = generation[r] + 1 /\ \A q \in Relation \ {r} : generation'[q] = generation[q]
    BY <1>2, <1>3
  <2>5. ASSUME ~bypassed'
        PROVE  /\ map'[HeadKey] = generation'[r] /\ r \notin lost'
               /\ \A q \in Relation \ {r} : generation'[q] = 0 /\ q \notin lost'
    BY <1>2, <2>1, <2>2, <2>3, <2>4, <2>5
  <2>6. OneLineage'
    <3> SUFFICES ASSUME ~bypassed', NEW q \in Relation, generation'[q] > 0 \/ q \in lost'
                 PROVE  /\ map'[HeadKey] = generation'[q] + (IF q \in lost' THEN 1 ELSE 0)
                        /\ \A p \in Relation \ {q} : generation'[p] = 0 /\ p \notin lost'
      BY DEF OneLineage
    <3>1. q = r
      BY <2>5
    <3>2. generation'[q] \in Nat
      BY <1>4
    <3> QED BY <2>5, <3>1, <3>2
  <2> QED BY <1>3, <1>4, <2>1, <2>2, <2>6
<1> QED BY <1>5, <1>6

\* The path of a new handle.
LEMMA OpenedTyped ==
    ASSUME IInv, NEW r \in Relation, NEW headed, NEW path \in opened[r], NEW name \in Name,
           Mkdir(r, headed, path, name)
    PROVE  opened' \in [Relation -> SUBSET Path]
<1>1. opened \in [Relation -> SUBSET Path]
  BY DEF IInv, TypeOK
<1>2. name # RootName /\ Len(path) < MaxDepth
      /\ opened' = [opened EXCEPT ![r] = @ \union {Append(path, Local[name])}]
  BY DEF Mkdir, Opens
<1>3. path \in Seq(Part) /\ Len(path) \in Nat
  BY <1>1 DEF Path
<1>4. Local[name] \in Part
  BY <1>2, NameAssumption
<1>5. Append(path, Local[name]) \in Seq(Part) /\ Len(Append(path, Local[name])) = Len(path) + 1
  BY <1>3, <1>4
<1>6. Append(path, Local[name]) \in Path
  BY <1>2, <1>3, <1>5, BoundAssumption DEF Path
<1> QED BY <1>1, <1>2, <1>6

-------------------------------------------------------------------------------
\* The invariant

LEMMA MutateKeeps ==
    ASSUME IInv, NEW r \in Relation, Mutate(r)
    PROVE  /\ IInv'
           /\ \A q \in Relation : nextId'[q] >= nextId[q] /\ Keeps(nodes[q], nodes'[q], nextId[q])
<1>1. opened \in [Relation -> SUBSET Path]
  BY DEF IInv, TypeOK
<1>2. Changes(r) /\ opened' \in [Relation -> SUBSET Path]
  <2>1. PICK headed \in BOOLEAN, path \in opened[r] :
            \/ \E name \in Name :
                 \/ \E v \in Value : Set(r, headed, path, name, v)
                 \/ Delete(r, headed, path, name)
                 \/ Mkdir(r, headed, path, name)
                 \/ Rmdir(r, headed, path, name)
            \/ Clear(r, headed, path)
    BY DEF Mutate
  <2>2. CASE \E name \in Name, v \in Value : Set(r, headed, path, name, v)
    BY <1>1, <2>2, SetChanges DEF Set
  <2>3. CASE \E name \in Name : Delete(r, headed, path, name)
    BY <1>1, <2>3, DeleteChanges DEF Delete
  <2>4. CASE \E name \in Name : Mkdir(r, headed, path, name)
    BY <2>4, MkdirChanges, OpenedTyped
  <2>5. CASE \E name \in Name : Rmdir(r, headed, path, name)
    BY <1>1, <2>5, RmdirChanges DEF Rmdir
  <2>6. CASE Clear(r, headed, path)
    BY <1>1, <2>6, ClearChanges DEF Clear
  <2> QED BY <2>1, <2>2, <2>3, <2>4, <2>5, <2>6
<1>3. TypeOK'
  BY <1>2, InstallRows, InstallInforms, InstallHead DEF TypeOK
<1> QED BY <1>2, <1>3, InstallRows, InstallInforms, InstallHead DEF IInv

\* Actions that leave the rows alone.
LEMMA SameRowsKeep ==
    ASSUME IInv, UNCHANGED <<nodes, nextId>>
    PROVE  \A q \in Relation : nextId'[q] >= nextId[q] /\ Keeps(nodes[q], nodes'[q], nextId[q])
<1>1. nodes \in [Relation -> SUBSET Row] /\ nextId \in [Relation -> Nat \ {0}]
  BY DEF IInv, TypeOK
<1>2. \A q \in Relation : \A x \in nodes[q] : [x EXCEPT !.value = x.value] = x
  BY <1>1 DEF Row
<1> QED BY <1>1, <1>2 DEF Keeps

LEMMA LoseAnswerKeeps ==
    ASSUME IInv, NEW r \in Relation, LoseAnswer(r)
    PROVE  IInv'
<1>1. /\ map[HeadKey] = Expected(generation[r])
      /\ map' = [map EXCEPT ![HeadKey] = generation[r] + 1]
      /\ lost' = lost \union {r}
      /\ UNCHANGED <<nodes, nextId, generation, listing, opened, strayed, bypassed>>
  BY DEF LoseAnswer, MovesHead, Table!HashExchange, Table!Matches, state
<1>2. generation \in [Relation -> Nat] /\ map \in [Slot -> Nat \union {Absent}]
      /\ lost \subseteq Relation /\ OneLineage
  BY DEF IInv, TypeOK
<1>3. map' \in [Slot -> Nat \union {Absent}] /\ map'[HeadKey] = generation[r] + 1
  BY <1>1, <1>2, HeadAssumption
<1>4. ASSUME ~bypassed
      PROVE  r \notin lost /\ \A q \in Relation \ {r} : generation[q] = 0 /\ q \notin lost
  <2>1. \A q \in Relation : generation[q] > 0 \/ q \in lost =>
            /\ map[HeadKey] = generation[q] + (IF q \in lost THEN 1 ELSE 0)
            /\ \A p \in Relation \ {q} : generation[p] = 0 /\ p \notin lost
    BY <1>2, <1>4 DEF OneLineage
  <2>2. CASE generation[r] = 0
    <3>1. map[HeadKey] \notin Nat
      BY <1>1, <2>2, HeadAssumption DEF Expected
    <3>2. \A q \in Relation : generation[q] = 0 /\ q \notin lost
      BY <1>2, <2>1, <3>1
    <3> QED BY <3>2
  <2>3. CASE generation[r] > 0
    <3>1. map[HeadKey] = generation[r]
      BY <1>1, <1>2, <2>3 DEF Expected
    <3> QED BY <1>2, <2>1, <2>3, <3>1
  <2> QED BY <1>2, <2>2, <2>3
<1>5. OneLineage'
  <2> SUFFICES ASSUME ~bypassed', NEW q \in Relation, generation'[q] > 0 \/ q \in lost'
               PROVE  /\ map'[HeadKey] = generation'[q] + (IF q \in lost' THEN 1 ELSE 0)
                      /\ \A p \in Relation \ {q} : generation'[p] = 0 /\ p \notin lost'
    BY DEF OneLineage
  <2>1. ~bypassed
    BY <1>1
  <2>2. q = r /\ \A p \in Relation \ {r} : generation[p] = 0 /\ p \notin lost'
    BY <1>1, <1>2, <1>4, <2>1
  <2> QED BY <1>1, <1>3, <2>2
<1>6. TypeOK'
  BY <1>1, <1>2, <1>3 DEF IInv, TypeOK
<1> QED BY <1>1, <1>5, <1>6 DEF IInv, RowsAreKeyed, NamespaceIsTree, Informed

LEMMA MeddleKeeps ==
    ASSUME IInv, Meddle
    PROVE  IInv'
<1>1. /\ bypassed' = (map'[HeadKey] # map[HeadKey])
      /\ UNCHANGED <<nodes, nextId, generation, listing, opened, strayed, lost>>
  BY DEF Meddle, state
<1>2. map \in [Slot -> Nat \union {Absent}] /\ OneLineage /\ ~bypassed
  BY DEF IInv, TypeOK, Meddle
<1>3. map' \in [Slot -> Nat \union {Absent}]
  <2>1. Foreign \subseteq Nat
    BY HeadAssumption
  <2> QED BY <1>2, <2>1 DEF Meddle, Table!HashDel, Table!HashClear, Table!HashSet, Table!HashExchange
<1>4. OneLineage'
  BY <1>1, <1>2 DEF OneLineage
<1>5. TypeOK'
  BY <1>1, <1>3 DEF IInv, TypeOK
<1> QED BY <1>1, <1>4, <1>5 DEF IInv, RowsAreKeyed, NamespaceIsTree, Informed

LEMMA StartEntriesKeeps ==
    ASSUME IInv, NEW r \in Relation, NEW path \in opened[r], StartEntries(r, path)
    PROVE  IInv'
<1>1. PICK d \in Ids(nodes[r]) :
        /\ d = Resolve(nodes[r], path)
        /\ listing' = [rel |-> r, path |-> path, todo |-> Keys(nodes[r], d), out |-> {},
                       truth |-> Answers(nodes[r], path), steady |-> Steady(nodes[r], path)]
  BY DEF StartEntries, Reaches
<1>2. UNCHANGED <<nodes, nextId, generation, map, opened, strayed, lost, bypassed>>
  BY DEF StartEntries, state, history
<1>3. nodes[r] \subseteq Row /\ Older(nodes[r])
  BY RowsOf
<1>4. path \in Path
  BY DEF IInv, TypeOK
<1>5. Keys(nodes[r], d) \subseteq Name
  BY <1>3 DEF Keys, Row
<1>6. Answers(nodes[r], path) \subseteq [name : Name, value : Value \union {NoValue}]
      /\ Steady(nodes[r], path) \subseteq Name
  BY <1>3, AnswersType
<1>7. Steady(nodes[r], path) \subseteq Keys(nodes[r], d)
  BY <1>1, <1>3, SteadyAreKeys
<1>8. listing' \in Listing
  BY <1>1, <1>4, <1>5, <1>6 DEF Listing
<1>9. Informed'
  BY <1>1, <1>2, <1>7 DEF Informed
<1>10. TypeOK'
  BY <1>2, <1>8 DEF IInv, TypeOK
<1> QED BY <1>2, <1>9, <1>10 DEF IInv, RowsAreKeyed, NamespaceIsTree, OneLineage

LEMMA ReadEntryKeeps ==
    ASSUME IInv, NEW k \in Name, ReadEntry(k)
    PROVE  IInv'
<1> DEFINE S == nodes[listing.rel]
           G == Got(S, listing.path, k)
<1>1. /\ listing # Idle /\ k \in listing.todo
      /\ listing' = [listing EXCEPT !.todo = @ \ {k}, !.out = @ \union G]
      /\ UNCHANGED <<nodes, nextId, generation, map, opened, strayed, lost, bypassed>>
  BY DEF ReadEntry, Reads, state, history
<1>2. listing \in Listing /\ Informed
  BY <1>1 DEF IInv, TypeOK
<1>3. S \subseteq Row
  BY <1>2, RowsOf DEF Listing
<1>4. G \subseteq Answers(S, listing.path) /\ G \subseteq [name : Name, value : Value \union {NoValue}]
  BY <1>3, AnswersType
<1>5. ASSUME k \in Steady(S, listing.path) PROVE k \in {e.name : e \in G}
  <2>1. PICK g \in G : g.name = k
    BY <1>3, <1>5, AnswersType
  <2> QED BY <2>1
<1>6. /\ Answers(S, listing.path) \subseteq listing.truth
      /\ listing.steady \subseteq Steady(S, listing.path)
      /\ listing.out \subseteq listing.truth
      /\ listing.steady \subseteq listing.todo \union {e.name : e \in listing.out}
  BY <1>1, <1>2 DEF Informed
<1>7. S' = nodes[listing'.rel]
  BY <1>1
<1> HIDE DEF G
<1>8. /\ listing'.rel = listing.rel /\ listing'.path = listing.path
      /\ listing'.todo = listing.todo \ {k} /\ listing'.out = listing.out \union G
      /\ listing'.truth = listing.truth /\ listing'.steady = listing.steady
  BY <1>1, <1>2 DEF Listing
<1>9. listing' \in Listing
  BY <1>1, <1>2, <1>4 DEF Listing
<1>10. Informed'
  <2>1. nodes'[listing'.rel] = S
    BY <1>1, <1>8
  <2>2. listing'.out \subseteq listing'.truth
    BY <1>4, <1>6, <1>8
  <2>3. listing'.steady \subseteq listing'.todo \union {e.name : e \in listing'.out}
    BY <1>5, <1>6, <1>8
  <2> QED BY <1>6, <1>8, <2>1, <2>2, <2>3 DEF Informed
<1>11. TypeOK'
  BY <1>1, <1>9 DEF IInv, TypeOK
<1> QED BY <1>1, <1>10, <1>11 DEF IInv, RowsAreKeyed, NamespaceIsTree, OneLineage

LEMMA ReturnKeeps ==
    ASSUME IInv, Return \/ UNCHANGED vars
    PROVE  IInv'
<1>1. /\ UNCHANGED <<nodes, nextId, generation, map, opened, strayed, lost, bypassed>>
      /\ listing' = Idle \/ listing' = listing
  BY DEF Return, vars, state, history
<1>2. TypeOK' /\ Informed'
  BY <1>1 DEF IInv, TypeOK, Informed
<1> QED BY <1>1, <1>2 DEF IInv, RowsAreKeyed, NamespaceIsTree, OneLineage

LEMMA InitHolds == Init => IInv
<1> SUFFICES ASSUME Init PROVE IInv
  OBVIOUS
<1>1. Root \in Row
  BY NameAssumption DEF Root, Row
<1>2. Root.id = 0
  BY DEF Root
<1>3. TypeOK
  <2>1. <<>> \in Path
    BY BoundAssumption DEF Path
  <2>2. nodes \in [Relation -> SUBSET Row] /\ nextId \in [Relation -> Nat \ {0}]
        /\ \A r \in Relation : \A x \in nodes[r] : x.id < nextId[r]
    BY <1>1, <1>2 DEF Init
  <2>3. generation \in [Relation -> Nat] /\ opened \in [Relation -> SUBSET Path]
    BY <2>1 DEF Init
  <2>4. map \in [Slot -> Nat \union {Absent}]
    BY DEF Init, Table!HashInit
  <2> QED BY <2>2, <2>3, <2>4 DEF Init, TypeOK
<1> QED BY <1>3 DEF Init, IInv, RowsAreKeyed, Older, NamespaceIsTree, OneLineage, Informed

LEMMA NextKeeps ==
    ASSUME IInv, [Next]_vars
    PROVE  /\ IInv'
           /\ \A q \in Relation : nextId'[q] >= nextId[q] /\ Keeps(nodes[q], nodes'[q], nextId[q])
<1>1. CASE \E r \in Relation : Mutate(r)
  BY <1>1, MutateKeeps
<1>2. CASE \E r \in Relation : LoseAnswer(r)
  BY <1>2, LoseAnswerKeeps, SameRowsKeep DEF LoseAnswer, state
<1>3. CASE \E r \in Relation : \E p \in opened[r] : StartEntries(r, p)
  BY <1>3, StartEntriesKeeps, SameRowsKeep DEF StartEntries, state
<1>4. CASE Meddle
  BY <1>4, MeddleKeeps, SameRowsKeep DEF Meddle, state
<1>5. CASE \E k \in Name : ReadEntry(k)
  BY <1>5, ReadEntryKeeps, SameRowsKeep DEF ReadEntry, state
<1>6. CASE Return \/ UNCHANGED vars
  <2>1. UNCHANGED <<nodes, nextId>>
    BY <1>6 DEF Return, vars, state
  <2> QED BY <1>6, <2>1, ReturnKeeps, SameRowsKeep
<1> QED BY <1>1, <1>2, <1>3, <1>4, <1>5, <1>6 DEF Next

\* The invariant holds in every reachable state of the relations.
THEOREM Invariance == Spec => []IInv
BY InitHolds, NextKeeps, PTL DEF Spec

\* backend.rs:43-64: the types, and every id is below the next one.
THEOREM TypeCorrect == Spec => []TypeOK
<1>1. IInv => TypeOK
  BY DEF IInv
<1> QED BY <1>1, Invariance, PTL

\* backend.rs:43-57: one row for an id, one child for a name, and the root stays.
THEOREM KeyedRows == Spec => []RowsAreKeyed
<1>1. IInv => RowsAreKeyed
  BY DEF IInv
<1> QED BY <1>1, Invariance, PTL

\* No row is orphaned and no directory is below itself.
THEOREM TreeStays == Spec => []NamespaceIsTree
<1>1. IInv => NamespaceIsTree
  BY DEF IInv
<1> QED BY <1>1, Invariance, PTL

\* backend.rs:298-318: the exchange before the install lets one relation through.
THEOREM SlotFollowsOne == Spec => []OneLineage
<1>1. IInv => OneLineage
  BY DEF IInv
<1> QED BY <1>1, Invariance, PTL

\* backend.rs:383-402: the lock is let go of between the keys and the values.
THEOREM ListingsAreTrue == Spec => []EntriesAreOfTheCall
<1>1. IInv => EntriesAreOfTheCall
  BY DEF IInv, Informed, EntriesAreOfTheCall
<1> QED BY <1>1, Invariance, PTL

\* backend.rs:44: "Positive generated id".
THEOREM FreshIds == Spec => IdsAreNotReused
<1>1. IInv /\ [Next]_vars =>
        [\A r \in Relation :
           /\ nextId'[r] >= nextId[r]
           /\ \A y \in nodes'[r] :
                y.id >= nextId[r] \/ \E x \in nodes[r] : [x EXCEPT !.value = y.value] = y]_vars
  BY NextKeeps DEF Keeps
<1> QED BY <1>1, Invariance, PTL DEF Spec, IdsAreNotReused
==============================================================================
