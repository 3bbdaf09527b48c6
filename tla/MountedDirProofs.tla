---------------------------- MODULE MountedDirProofs ----------------------------
(***************************************************************************)
(* What a mounted namespace keeps for any number of callers, paths and     *)
(* targets: a symbol that made a directory is no value, tables are leaves, *)
(* a mount that was made undisturbed shadows nothing of its name, and a    *)
(* get finds what was put.                                                 *)
(***************************************************************************)
EXTENDS MountedDir, SequenceTheorems, TLAPS

\* TypeOK without its bounds.
Typed ==
    /\ DbTypeOK
    /\ mounts \in [DirPath -> Mount \union {NoMount}]
    /\ pc \in [Caller -> Steps] /\ op \in [Caller -> Ops] /\ path \in [Caller -> Path]
    /\ node \in [Caller -> Store] /\ base \in [Caller -> Nat] /\ depth \in [Caller -> Nat]
    /\ virt \in [Caller -> BOOLEAN]
    /\ kids \in [Caller -> SUBSET Path] /\ leaves \in [Caller -> SUBSET Path]
    /\ word \in [Path -> Value \union {Absent, NoWord}] /\ due \in [Caller -> BOOLEAN]
    /\ sure \in [Caller -> Value \union {Absent, NoWord}]
    /\ misread \subseteq Caller /\ clean \subseteq DirPath

\* Where the walk of c may be.
Bounded(c) ==
    /\ base[c] <= depth[c]
    /\ pc[c] = "walk" => depth[c] <= Len(Handle(c))
    /\ op[c] \notin OnHandle /\ pc[c] \notin Outcomes => path[c] # <<>>

\* A walk in the root is at its own path; one has not begun before the registry answered.
Placed(c) ==
    /\ node[c] = Root => base[c] = 0
    /\ pc[c] \in Outcomes \union {"resolve"} => node[c] = Root /\ depth[c] = 0
    /\ op[c] = "mount" => /\ node[c] = Root /\ pc[c] \in {"walk", "has", "insert"}
                          /\ path[c] \in DirPath
    /\ pc[c] \in {"has", "insert"} => op[c] = "mount"

TInv == Typed /\ \A c \in Caller : Bounded(c) /\ Placed(c)

-------------------------------------------------------------------------------
\* Paths

\* A path leads to another if it agrees with it name by name.
LEMMA PrefixByEntries ==
    ASSUME NEW S, NEW s \in Seq(S), NEW t \in Seq(S)
    PROVE  IsPrefix(s, t) <=> /\ Len(s) <= Len(t)
                              /\ \A i \in 1..Len(s) : s[i] = t[i]
<1>1. /\ Len(s) \in Nat /\ Len(t) \in Nat
      /\ \A i \in 1..Len(s) : s[i] \in S
      /\ \A i \in 1..Len(t) : t[i] \in S
  BY LenProperties, ElementOfSeq
<1>2. /\ SubSeq(s, 1, Len(s)) = s
  BY SubSeqFull
<1>3. SUFFICES ASSUME Len(s) <= Len(t)
               PROVE  s = SubSeq(t, 1, Len(s)) <=> \A i \in 1..Len(s) : s[i] = t[i]
  BY <1>2 DEF IsPrefix
<1>4. /\ SubSeq(t, 1, Len(s)) \in Seq(S)
      /\ Len(SubSeq(t, 1, Len(s))) = Len(s)
      /\ \A i \in 1..Len(s) : SubSeq(t, 1, Len(s))[i] = t[i]
  BY <1>1, <1>3, SubSeqProperties
<1>5. ASSUME \A i \in 1..Len(s) : s[i] = t[i]
      PROVE  s = SubSeq(t, 1, Len(s))
  BY <1>4, <1>5, SeqEqual
<1> QED BY <1>4, <1>5

\* Every path leads to itself.
LEMMA PrefixReflexive ==
    ASSUME NEW S, NEW s \in Seq(S)
    PROVE  IsPrefix(s, s)
BY PrefixByEntries

LEMMA PathParts ==
    ASSUME NEW p \in Path
    PROVE  /\ p \in Seq(Name) /\ Len(p) \in Nat
           /\ \A i, j \in 0..Len(p) : SubSeq(p, i + 1, j) \in Path
           /\ p # <<>> => /\ Len(p) >= 1 /\ Parent(p) \in Path
                          /\ Len(Parent(p)) = Len(p) - 1
<1>1. p \in Seq(Name) /\ Len(p) \in Nat /\ \A i, j \in 0..Len(p) : SubSeq(p, i + 1, j) \in Path
  BY PathsAreClosed, LenProperties
<1>2. ASSUME p # <<>>
      PROVE  Len(p) >= 1 /\ Parent(p) \in Path /\ Len(Parent(p)) = Len(p) - 1
  <2>1. Len(p) >= 1
    BY <1>1, <1>2, EmptySeq
  <2>2. SubSeq(p, 0 + 1, Len(p) - 1) \in Path
    BY <1>1, <2>1
  <2>3. Len(SubSeq(p, 1, Len(p) - 1)) = Len(p) - 1
    <3>1. PICK n \in Nat : n = Len(p) - 1
      BY <1>1, <2>1
    <3>2. \A i \in 1..n : p[i] \in Name
      BY <1>1, <3>1, ElementOfSeq
    <3>3. Len(SubSeq(p, 1, n)) = IF 1 <= n THEN n - 1 + 1 ELSE 0
      BY <3>2, SubSeqProperties
    <3> QED BY <3>1, <3>3
  <2> QED BY <2>1, <2>2, <2>3 DEF Parent
<1> QED BY <1>1, <1>2

\* A part of a path.
LEMMA PathPart ==
    ASSUME NEW p \in Path, NEW i \in 0..Len(p), NEW j \in i..Len(p)
    PROVE  /\ SubSeq(p, i + 1, j) \in Path /\ SubSeq(p, i + 1, j) \in Seq(Name)
           /\ Len(SubSeq(p, i + 1, j)) = j - i
           /\ \A k \in 1..(j - i) : SubSeq(p, i + 1, j)[k] = p[i + k]
<1>1. p \in Seq(Name) /\ Len(p) \in Nat /\ i \in Nat /\ j \in Nat /\ i <= j /\ j <= Len(p)
  BY PathParts
<1>2. SubSeq(p, i + 1, j) \in Path
  BY <1>1, PathParts
<1>3. \A k \in (i + 1)..j : p[k] \in Name
  BY <1>1, ElementOfSeq
<1>4. Len(SubSeq(p, i + 1, j)) = IF i + 1 <= j THEN j - (i + 1) + 1 ELSE 0
  BY <1>1, <1>3, SubSeqProperties
<1>5. \A k \in 1..(j - (i + 1) + 1) : SubSeq(p, i + 1, j)[k] = p[i + 1 + k - 1]
  BY <1>1, <1>3, SubSeqProperties
<1>6. \A k \in 1..(j - i) : SubSeq(p, i + 1, j)[k] = p[i + k]
  <2>1. j - (i + 1) + 1 = j - i /\ \A k \in 1..(j - i) : i + 1 + k - 1 = i + k
    BY <1>1
  <2> QED BY <1>5, <2>1
<1> QED BY <1>1, <1>2, <1>4, <1>6, PathParts

\* Without its last name a path is what it was.
LEMMA ParentNames ==
    ASSUME NEW p \in Path, p # <<>>
    PROVE  /\ Parent(p) \in Path /\ Len(Parent(p)) = Len(p) - 1 /\ Len(p) \in Nat
           /\ \A k \in 1..(Len(p) - 1) : Parent(p)[k] = p[k]
<1>1. Len(p) \in Nat /\ Parent(p) \in Path /\ Len(p) >= 1 /\ Len(Parent(p)) = Len(p) - 1
  BY PathParts
<1>2. 0 \in 0..Len(p) /\ Len(p) - 1 \in 0..Len(p)
  BY <1>1
<1>3. \A k \in 1..(Len(p) - 1 - 0) : SubSeq(p, 0 + 1, Len(p) - 1)[k] = p[0 + k]
  BY <1>2, PathPart
<1>4. Len(p) - 1 - 0 = Len(p) - 1 /\ 0 + 1 = 1 /\ \A k \in 1..(Len(p) - 1) : 0 + k = k
  BY <1>1
<1> QED BY <1>1, <1>3, <1>4 DEF Parent

\* The path of a directory is the path of its symbol but for the last name.
LEMMA ChildParts ==
    ASSUME NEW p \in Path
    PROVE  /\ ChildPath(p) \in Path /\ ChildPath(p) \in DirPath /\ Len(ChildPath(p)) = Len(p)
           /\ \A i \in 1..Len(p) : /\ ChildPath(p)[i] = Local[p[i]]
                                   /\ Local[Local[p[i]]] = Local[p[i]]
           /\ p # <<>> => ChildPath(p) # <<>> /\ Parent(ChildPath(p)) = Parent(p)
<1> DEFINE c == ChildPath(p)
<1>1. /\ p \in Seq(Name) /\ Len(p) \in Nat /\ c \in Path /\ c \in Seq(Name) /\ Len(c) \in Nat
  BY PathsAreClosed, PathParts
<1>2. DOMAIN c = 1..Len(p) /\ DOMAIN c = 1..Len(c)
  <2>1. DOMAIN c = 1..Len(p)
    BY DEF ChildPath
  <2> HIDE DEF c
  <2> QED BY <1>1, <2>1, LenProperties
<1>3. Len(c) = Len(p)
  <2>1. 1..Len(p) = 1..Len(c)
    BY <1>2
  <2> HIDE DEF c
  <2> QED BY <1>1, <2>1
<1>4. \A i \in 1..Len(p) : c[i] = Local[p[i]] /\ Local[Local[p[i]]] = Local[p[i]]
  <2>1. \A i \in 1..Len(p) : p[i] \in Name
    BY <1>1, ElementOfSeq
  <2> QED BY <2>1, LocalIsLocal DEF ChildPath
<1>5. ChildPath(c) = c
  <2>1. /\ ChildPath(c) \in Seq(Name) /\ Len(ChildPath(c)) \in Nat
        /\ DOMAIN ChildPath(c) = 1..Len(c)
        /\ \A i \in 1..Len(c) : ChildPath(c)[i] = Local[c[i]]
    <3> HIDE DEF c
    <3>1. ChildPath(c) \in Path
      BY <1>1, PathsAreClosed
    <3> QED BY <3>1, PathParts DEF ChildPath
  <2>2. Len(ChildPath(c)) = Len(c)
    <3>1. 1..Len(ChildPath(c)) = 1..Len(c)
      BY <2>1, LenProperties
    <3> HIDE DEF c
    <3> QED BY <1>1, <2>1, <3>1
  <2>3. \A i \in 1..Len(c) : ChildPath(c)[i] = c[i]
    BY <1>3, <1>4, <2>1
  <2> QED BY <1>1, <2>1, <2>2, <2>3, SeqEqual
<1>6. c \in DirPath
  BY <1>1, <1>5 DEF DirPath
<1>7. ASSUME p # <<>> PROVE c # <<>> /\ Parent(c) = Parent(p)
  <2>1. Len(p) >= 1
    BY <1>7, PathParts
  <2>2. c # <<>>
    BY <1>3, <2>1, EmptySeq
  <2>3. /\ Parent(c) \in Seq(Name) /\ Len(Parent(c)) = Len(p) - 1
        /\ \A k \in 1..(Len(p) - 1) : Parent(c)[k] = c[k]
    <3> HIDE DEF c
    <3> QED BY <1>1, <1>3, <2>2, ParentNames, PathParts
  <2>4. /\ Parent(p) \in Seq(Name) /\ Len(Parent(p)) = Len(p) - 1
        /\ \A k \in 1..(Len(p) - 1) : Parent(p)[k] = p[k]
    BY <1>7, ParentNames, PathParts
  <2>5. ASSUME NEW k \in 1..(Len(p) - 1) PROVE c[k] = p[k]
    <3>1. ChildPath(Parent(p)) = Parent(p)
      BY <1>7, PathsAreClosed DEF DirPath
    <3>2. k \in 1..Len(Parent(p)) /\ k \in 1..Len(p)
      BY <1>1, <2>4
    <3>3. ChildPath(Parent(p))[k] = Local[Parent(p)[k]]
      BY <3>2 DEF ChildPath
    <3> QED BY <1>4, <2>4, <3>1, <3>2, <3>3
  <2>6. Parent(c) = Parent(p)
    <3> HIDE DEF c
    <3> QED BY <2>3, <2>4, <2>5, SeqEqual
  <2> QED BY <2>2, <2>6
<1> QED BY <1>1, <1>3, <1>4, <1>6, <1>7

\* The top is a directory.
LEMMA DirPaths == DirPath \subseteq Path /\ <<>> \in DirPath
<1>1. DirPath \subseteq Path /\ <<>> \in Path
  BY PathsAreClosed DEF DirPath
<1>2. PICK e : e = <<>>
  OBVIOUS
<1>3. e \in Path /\ Len(e) = 0
  BY <1>1, <1>2, EmptySeq
<1>4. ChildPath(e) \in DirPath /\ ChildPath(e) \in Seq(Name) /\ Len(ChildPath(e)) = 0
  BY <1>3, ChildParts, PathParts
<1>5. ChildPath(e) = <<>>
  BY <1>4, EmptySeq
<1> QED BY <1>1, <1>4, <1>5

\* A path is a directory's if its names are plain.
LEMMA ByLocalNames ==
    ASSUME NEW m \in DirPath
    PROVE  m \in Path /\ \A i \in 1..Len(m) : Local[m[i]] = m[i]
<1>1. m \in Path /\ ChildPath(m) = m
  BY DEF DirPath
<1>2. \A i \in 1..Len(m) : ChildPath(m)[i] = Local[m[i]]
  BY <1>1, ChildParts
<1> QED BY <1>1, <1>2

\* A directory that leads to a name leads to the directory of that name.
LEMMA PrefixOfChildPath ==
    ASSUME NEW m \in DirPath, NEW p \in Path, IsPrefix(m, p)
    PROVE  IsPrefix(m, ChildPath(p))
<1>1. /\ m \in Path /\ m \in Seq(Name) /\ p \in Seq(Name) /\ Len(m) \in Nat /\ Len(p) \in Nat
      /\ \A i \in 1..Len(m) : Local[m[i]] = m[i]
  BY ByLocalNames, PathParts
<1>2. Len(m) <= Len(p) /\ \A i \in 1..Len(m) : m[i] = p[i]
  BY <1>1, PrefixByEntries
<1>3. /\ ChildPath(p) \in Seq(Name) /\ Len(ChildPath(p)) = Len(p)
      /\ \A i \in 1..Len(p) : ChildPath(p)[i] = Local[p[i]]
  BY ChildParts, PathParts
<1>4. \A i \in 1..Len(m) : m[i] = ChildPath(p)[i]
  BY <1>1, <1>2, <1>3
<1> QED BY <1>1, <1>2, <1>3, <1>4, PrefixByEntries

\* A mount below a directory has a longer path.
LEMMA StrictIsLonger ==
    ASSUME NEW p \in Path, NEW m \in Path, IsStrictPrefix(p, m)
    PROVE  Len(p) < Len(m)
<1>1. p \in Seq(Name) /\ m \in Seq(Name) /\ Len(p) \in Nat /\ Len(m) \in Nat
  BY PathParts
<1>2. IsPrefix(p, m) /\ p # m
  BY DEF IsStrictPrefix
<1>3. Len(p) <= Len(m) /\ \A i \in 1..Len(p) : p[i] = m[i]
  BY <1>1, <1>2, PrefixByEntries
<1>4. Len(p) # Len(m)
  BY <1>1, <1>2, <1>3, SeqEqual
<1> QED BY <1>1, <1>3, <1>4

\* A running call has a directory to walk to.
LEMMA HandleIsPath ==
    ASSUME Typed, NEW c \in Caller, Bounded(c), Running(c)
    PROVE  /\ Handle(c) \in Path /\ Len(Handle(c)) \in Nat
           /\ Len(Handle(c)) <= Len(path[c])
           /\ op[c] \notin OnHandle => path[c] # <<>> /\ Len(Handle(c)) + 1 = Len(path[c])
<1>1. path[c] \in Path
  BY DEF Typed
<1>2. op[c] \notin OnHandle => path[c] # <<>>
  BY DEF Bounded, Running
<1> QED BY <1>1, <1>2, PathParts DEF Handle

\* What a walk asks for is a path.
LEMMA GoalIsPath ==
    ASSUME Typed, NEW c \in Caller, Bounded(c), pc[c] = "walk"
    PROVE  /\ Goal(c) \in Path
           /\ Walks(c) => Reached(c, depth[c] + 1) \in Path
<1>1. Running(c)
  BY DEF Running, Outcomes
<1>2. path[c] \in Path /\ base[c] \in Nat /\ depth[c] \in Nat /\ base[c] <= depth[c]
      /\ depth[c] <= Len(Handle(c))
  BY DEF Typed, Bounded
<1>3. Len(Handle(c)) \in Nat /\ Len(Handle(c)) <= Len(path[c])
  BY <1>1, HandleIsPath
<1>4. base[c] \in 0..Len(path[c]) /\ Len(path[c]) \in 0..Len(path[c])
  BY <1>2, <1>3, PathParts
<1>5. Walks(c) => depth[c] + 1 \in 0..Len(path[c])
  BY <1>2, <1>3, PathParts DEF Walks
<1> QED BY <1>2, <1>4, <1>5, PathParts DEF Goal, Below, Reached

-------------------------------------------------------------------------------
\* Types

LEMMA InitTyped == Init => TInv
<1> SUFFICES ASSUME Init PROVE TInv
  OBVIOUS
<1>1. <<>> \in Path /\ Root \in Store
  BY PathsAreClosed, MountSentinels
<1>2. Typed
  BY <1>1, DirPaths DEF Init, DbInit, Typed, DbTypeOK, Steps, Outcomes, Ops, GuardedOps, OnHandle
<1>3. \A c \in Caller : Bounded(c) /\ Placed(c)
  BY DEF Init, Bounded, Placed, Outcomes, OnHandle
<1> QED BY <1>2, <1>3 DEF TInv

\* What c does is no other caller's step.
Elsewhere(c) == \A d \in Caller \ {c} :
    /\ pc'[d] = pc[d] /\ op'[d] = op[d] /\ path'[d] = path[d]
    /\ node'[d] = node[d] /\ base'[d] = base[d] /\ depth'[d] = depth[d]

LEMMA OthersStay ==
    ASSUME TInv, NEW c \in Caller, Typed', Elsewhere(c), Bounded(c)', Placed(c)'
    PROVE  TInv'
<1>1. ASSUME NEW d \in Caller, d # c PROVE Bounded(d)' /\ Placed(d)'
  <2>1. Bounded(d) /\ Placed(d)
    BY DEF TInv
  <2> QED BY <1>1, <2>1 DEF Elsewhere, Bounded, Placed, Handle
<1> QED BY <1>1 DEF TInv

LEMMA BeginTyped ==
    ASSUME TInv, NEW c \in Caller, NEW o \in Ops, NEW p \in Path, NEW step \in Steps,
           Begin(c, o, p, step),
           kids' \in [Caller -> SUBSET Path], leaves' \in [Caller -> SUBSET Path],
           o \notin OnHandle => p # <<>>,
           IF o = "mount" THEN step = "walk" /\ p \in DirPath ELSE step = "resolve"
    PROVE  TInv'
<1>1. Typed /\ Placed(c) /\ pc[c] \in Outcomes
  BY DEF TInv, Begin, Running
<1>2. Typed'
  <2>1. /\ word' \in [Path -> Value \union {Absent, NoWord}]
        /\ sure' \in [Caller -> Value \union {Absent, NoWord}]
    BY <1>1 DEF Begin, Voids, Typed
  <2>2. due' \in [Caller -> BOOLEAN]
    BY <1>1 DEF Begin, Typed, Disturbs, MakesWay, Touches, Promises
  <2> QED BY <1>1, <2>1, <2>2 DEF Begin, Goto, Typed, DbTypeOK, db, spot
<1>3. /\ pc'[c] = step /\ op'[c] = o /\ path'[c] = p
      /\ node'[c] = Root /\ base'[c] = 0 /\ depth'[c] = 0
  BY <1>1 DEF Begin, Goto, Typed, Placed, spot
<1>4. Elsewhere(c)
  BY <1>1 DEF Begin, Goto, Typed, Elsewhere, spot
<1>5. Placed(c)'
  BY <1>3 DEF Placed, Outcomes
<1>6. Bounded(c)'
  <2>1. o = "mount" => Handle(c)' = Parent(p)
    BY <1>3 DEF Handle, OnHandle
  <2>2. o = "mount" => Len(Parent(p)) >= 0
    BY PathParts DEF OnHandle
  <2> QED BY <1>3, <2>1, <2>2 DEF Bounded, Outcomes
<1> QED BY <1>2, <1>4, <1>5, <1>6, OthersStay

LEMMA ReturnTyped ==
    ASSUME TInv, NEW c \in Caller, NEW outcome \in Outcomes,
           NEW r, Return(c, outcome, r), DbTypeOK',
           mounts' \in [DirPath -> Mount \union {NoMount}],
           word' \in [Path -> Value \union {Absent, NoWord}], clean' \subseteq DirPath
    PROVE  TInv'
<1>1. Typed /\ <<>> \in Path /\ Root \in Store
  BY PathsAreClosed, MountSentinels DEF TInv
<1>2. Typed'
  BY <1>1 DEF Return, Goto, Typed, Steps, Ops
<1>3. /\ pc'[c] = outcome /\ op'[c] = "get" /\ path'[c] = <<>>
      /\ node'[c] = Root /\ base'[c] = 0 /\ depth'[c] = 0
  BY <1>1 DEF Return, Goto, Typed
<1>4. Elsewhere(c)
  BY <1>1 DEF Return, Goto, Typed, Elsewhere
<1>5. Bounded(c)' /\ Placed(c)'
  BY <1>3 DEF Bounded, Placed, Outcomes
<1> QED BY <1>2, <1>4, <1>5, OthersStay

LEMMA EndsTyped ==
    ASSUME TInv, NEW c \in Caller, NEW outcome \in Outcomes, Ends(c, outcome), DbTypeOK'
    PROVE  TInv'
BY ReturnTyped DEF TInv, Typed, Ends, kept

\* A call that goes on leaves its method and its path.
LEMMA ContinueTyped ==
    ASSUME TInv, NEW c \in Caller, NEW step \in Steps,
           Continue(c, step), UNCHANGED <<db, mounts, listing>>,
           node' \in [Caller -> Store], base' \in [Caller -> Nat],
           depth' \in [Caller -> Nat], virt' \in [Caller -> BOOLEAN],
           \A d \in Caller \ {c} : node'[d] = node[d] /\ base'[d] = base[d] /\ depth'[d] = depth[d],
           step \notin Outcomes, pc[c] \notin Outcomes, step # "resolve",
           base'[c] <= depth'[c], node'[c] = Root => base'[c] = 0,
           step = "walk" => depth'[c] <= Len(Handle(c)),
           IF op[c] = "mount" THEN node'[c] = Root ELSE step \notin {"has", "insert"},
           op[c] = "mount" => step \in {"walk", "has", "insert"}
    PROVE  TInv'
<1>1. Typed /\ Bounded(c) /\ Placed(c)
  BY DEF TInv
<1>2. Typed'
  BY <1>1 DEF Continue, Goto, Typed, DbTypeOK, db, listing, call, kept
<1>3. pc'[c] = step /\ op'[c] = op[c] /\ path'[c] = path[c]
  BY <1>1 DEF Continue, Goto, Typed, call
<1>4. Elsewhere(c)
  BY <1>1 DEF Continue, Goto, Typed, Elsewhere, call
<1>5. Handle(c)' = Handle(c)
  BY <1>3 DEF Handle
<1>6. Bounded(c)'
  BY <1>1, <1>3, <1>5 DEF Bounded
<1>7. Placed(c)'
  BY <1>1, <1>3 DEF Placed
<1> QED BY <1>2, <1>4, <1>6, <1>7, OthersStay

LEMMA StaysTyped ==
    ASSUME TInv, NEW c \in Caller, NEW step \in {"has", "insert", "list"},
           Continue(c, step), UNCHANGED <<db, mounts, spot, listing>>, pc[c] \notin Outcomes,
           IF op[c] = "mount" THEN step # "list" ELSE step = "list"
    PROVE  TInv'
<1>1. Typed /\ Bounded(c) /\ Placed(c)
  BY DEF TInv
<1>2. step \in Steps /\ step \notin Outcomes /\ step # "resolve" /\ step # "walk"
  BY DEF Steps, Outcomes
<1>3. UNCHANGED <<node, base, depth, virt>>
  BY DEF spot
<1>4. /\ node' \in [Caller -> Store] /\ base' \in [Caller -> Nat]
      /\ depth' \in [Caller -> Nat] /\ virt' \in [Caller -> BOOLEAN]
  BY <1>1, <1>3 DEF Typed
<1>5. /\ base'[c] <= depth'[c] /\ (node'[c] = Root => base'[c] = 0)
      /\ op[c] = "mount" => node'[c] = Root
  BY <1>1, <1>3 DEF Bounded, Placed
<1>6. /\ op[c] = "mount" => step \in {"walk", "has", "insert"}
      /\ IF op[c] = "mount" THEN node'[c] = Root ELSE step \notin {"has", "insert"}
  BY <1>5
<1> QED BY <1>2, <1>3, <1>4, <1>5, <1>6, ContinueTyped

-------------------------------------------------------------------------------
\* The stores

\* Each method of a store keeps its types, and makes no value of what made a directory.
LEMMA StoreMethods ==
    ASSUME DbTypeOK, MadeIsNoValue, NEW s \in Store, NEW p \in Path,
           \/ \E v \in Value : DbSet(s, p, v)
           \/ \E e, v \in Value \union {Absent} : DbExchange(s, p, e, v)
           \/ DbDel(s, p) \/ DbClear(s, p) \/ DbMkdir(s, p) \/ DbRmdir(s, p)
    PROVE  DbTypeOK' /\ MadeIsNoValue'
<1>1. ASSUME NEW v \in Value \union {Absent}, Put(s, p, v), v # Absent => NoDir(s, p)
      PROVE  DbTypeOK' /\ MadeIsNoValue'
  <2>1. DbTypeOK'
    BY <1>1 DEF Put, DbTypeOK
  <2>2. ASSUME NEW t \in Store, NEW q \in made'[t]
        PROVE  ChildPath(q) \in dirs'[t] /\ values'[t][q] = Absent
    BY <1>1, <2>2 DEF Put, DbTypeOK, MadeIsNoValue, NoDir
  <2> QED BY <2>1, <2>2 DEF MadeIsNoValue
<1>2. ASSUME UNCHANGED db PROVE DbTypeOK' /\ MadeIsNoValue'
  BY <1>2 DEF db, DbTypeOK, MadeIsNoValue
<1>3. CASE \E v \in Value : DbSet(s, p, v)
  BY <1>1, <1>3 DEF DbSet
<1>4. CASE \E e, v \in Value \union {Absent} : DbExchange(s, p, e, v)
  BY <1>1, <1>2, <1>4 DEF DbExchange
<1>5. CASE DbDel(s, p)
  BY <1>1, <1>5 DEF DbDel
<1>6. CASE DbClear(s, p)
  <2>1. DbTypeOK'
    BY <1>6 DEF DbClear, DbTypeOK
  <2>2. ASSUME NEW t \in Store, NEW q \in made'[t]
        PROVE  ChildPath(q) \in dirs'[t] /\ values'[t][q] = Absent
    BY <1>6, <2>2 DEF DbClear, DbTypeOK, MadeIsNoValue
  <2> QED BY <2>1, <2>2 DEF MadeIsNoValue
<1>7. CASE DbMkdir(s, p)
  <2>1. DbTypeOK'
    BY <1>7, ChildParts DEF DbMkdir, DbTypeOK
  <2>2. ASSUME NEW t \in Store, NEW q \in made'[t]
        PROVE  ChildPath(q) \in dirs'[t] /\ values'[t][q] = Absent
    BY <1>7, <2>2 DEF DbMkdir, DbTypeOK, MadeIsNoValue
  <2> QED BY <2>1, <2>2 DEF MadeIsNoValue
<1>8. CASE DbRmdir(s, p)
  <2>1. DbTypeOK'
    BY <1>8 DEF DbRmdir, DbTypeOK
  <2>2. ASSUME NEW t \in Store, NEW q \in made'[t]
        PROVE  ChildPath(q) \in dirs'[t] /\ values'[t][q] = Absent
    BY <1>8, <2>2 DEF DbRmdir, DbTypeOK, MadeIsNoValue
  <2> QED BY <2>1, <2>2 DEF MadeIsNoValue
<1> QED BY <1>3, <1>4, <1>5, <1>6, <1>7, <1>8

-------------------------------------------------------------------------------
\* Every step keeps the types, and makes no value of what made a directory

SInv == TInv /\ MadeIsNoValue

LEMMA StartTyped ==
    ASSUME SInv, NEW c \in Caller, NEW p \in Path,
           \/ StartGet(c, p) \/ StartEntries(c, p) \/ StartClear(c, p) \/ StartMount(c, p)
           \/ \E o \in GuardedOps : StartWrite(c, o, p)
    PROVE  SInv'
<1>1. TInv /\ Typed
  BY DEF SInv, TInv
<1>2. UNCHANGED db
  BY DEF StartGet, StartEntries, StartClear, StartMount, StartWrite, Begin
<1>3. MadeIsNoValue'
  BY <1>2 DEF SInv, MadeIsNoValue, db
<1>4. /\ {"walk", "resolve"} \subseteq Steps
      /\ {"get", "entries", "clear", "mount"} \subseteq Ops /\ GuardedOps \subseteq Ops
      /\ {"get", "mount"} \intersect OnHandle = {} /\ GuardedOps \intersect OnHandle = {}
      /\ "mount" \notin GuardedOps
  BY DEF Steps, Ops, OnHandle, GuardedOps
<1>5. ASSUME UNCHANGED listing
      PROVE  kids' \in [Caller -> SUBSET Path] /\ leaves' \in [Caller -> SUBSET Path]
  BY <1>1, <1>5 DEF listing, Typed
<1>6. CASE StartGet(c, p)
  <2>1. ASSUME Begin(c, "get", p, "resolve"), UNCHANGED listing PROVE TInv'
    <3>1. p # <<>>
      BY <1>6 DEF StartGet
    <3>2. "get" \in Ops /\ "resolve" \in Steps
      BY <1>4
    <3> QED BY <1>1, <1>5, <2>1, <3>1, <3>2, BeginTyped
  <2>2. ASSUME ChildPath(p) \in Mounted PROVE TInv'
    <3>1. /\ pc' = [pc EXCEPT ![c] = "idle"] /\ pc[c] \in Outcomes
          /\ UNCHANGED <<op, path, due, sure, node, base, depth, virt, kids, leaves, mounts,
                         word, clean>>
          /\ misread' \subseteq Caller
      BY <1>1, <1>6, <2>2 DEF StartGet, Running, Goto, call, spot, listing, kept, Typed
    <3>2. Typed'
      BY <1>1, <1>2, <3>1 DEF Typed, DbTypeOK, db, Steps, Outcomes
    <3>3. Elsewhere(c)
      BY <1>1, <3>1 DEF Elsewhere, Typed
    <3>4. Bounded(c) /\ Placed(c) /\ pc'[c] = "idle"
      BY <1>1, <3>1 DEF TInv, Typed
    <3>5. Bounded(c)' /\ Placed(c)'
      BY <3>1, <3>4 DEF Bounded, Placed, Outcomes
    <3> QED BY <1>1, <3>2, <3>3, <3>5, OthersStay
  <2>3. TInv'
    BY <1>6, <2>1, <2>2 DEF StartGet
  <2> QED BY <1>3, <2>3 DEF SInv
<1>7. CASE StartEntries(c, p)
  <2>1. leaves' \in [Caller -> SUBSET Path]
    BY <1>1, <1>7, DirPaths DEF StartEntries, Typed, Children, Mounted
  <2>2. ASSUME NEW m \in Children(p) PROVE SubSeq(m, 1, Len(p) + 1) \in Path
    <3>1. m \in Path /\ IsStrictPrefix(p, m)
      BY DirPaths DEF Children, Mounted
    <3>2. Len(p) + 1 \in 0..Len(m)
      <4>1. Len(p) < Len(m)
        BY <3>1, PathParts, StrictIsLonger
      <4> QED BY <3>1, <4>1, PathParts
    <3>3. SubSeq(m, 0 + 1, Len(p) + 1) \in Path
      BY <3>1, <3>2, PathParts
    <3> QED BY <3>3
  <2>3. kids' \in [Caller -> SUBSET Path]
    <3> DEFINE K == {SubSeq(m, 1, Len(p) + 1) : m \in Children(p)}
    <3>1. K \in SUBSET Path
      BY <2>2
    <3>2. kids' = [kids EXCEPT ![c] = K]
      BY <1>7 DEF StartEntries
    <3> HIDE DEF K
    <3> QED BY <1>1, <3>1, <3>2 DEF Typed
  <2>4. Begin(c, "entries", p, "resolve") /\ "entries" \in OnHandle
    BY <1>7 DEF StartEntries, OnHandle
  <2> QED BY <1>1, <1>3, <1>4, <2>1, <2>3, <2>4, BeginTyped DEF SInv
<1>8. CASE StartClear(c, p)
  <2>1. Begin(c, "clear", p, "resolve") /\ UNCHANGED listing /\ "clear" \in OnHandle
    BY <1>8 DEF StartClear, OnHandle
  <2> QED BY <1>1, <1>3, <1>4, <1>5, <2>1, BeginTyped DEF SInv
<1>9. CASE StartMount(c, p)
  <2>1. Begin(c, "mount", p, "walk") /\ UNCHANGED listing /\ p # <<>> /\ p \in DirPath
    BY <1>9, MountSentinels DEF StartMount
  <2> QED BY <1>1, <1>3, <1>4, <1>5, <2>1, BeginTyped DEF SInv
<1>10. ASSUME NEW o \in GuardedOps, StartWrite(c, o, p) PROVE SInv'
  <2>1. Begin(c, o, p, "resolve") /\ UNCHANGED listing /\ p # <<>>
    BY <1>10 DEF StartWrite
  <2>2. o \in Ops /\ o # "mount"
    BY <1>4
  <2>3. kids' \in [Caller -> SUBSET Path] /\ leaves' \in [Caller -> SUBSET Path]
    BY <1>5, <2>1
  <2>4. "resolve" \in Steps
    BY <1>4
  <2>5. TInv'
    BY <1>1, <2>1, <2>2, <2>3, <2>4, BeginTyped
  <2> QED BY <1>3, <2>5 DEF SInv
<1> QED BY <1>6, <1>7, <1>8, <1>9, <1>10

LEMMA ResolveTyped ==
    ASSUME SInv, NEW c \in Caller, Resolve(c)
    PROVE  SInv'
<1>1. TInv /\ Typed /\ Bounded(c) /\ Placed(c) /\ DbTypeOK
  BY DEF SInv, TInv, Typed
<1>2. UNCHANGED db /\ pc[c] = "resolve" /\ pc[c] \notin Outcomes
  BY DEF Resolve, Outcomes
<1>3. MadeIsNoValue' /\ DbTypeOK'
  BY <1>1, <1>2 DEF SInv, MadeIsNoValue, DbTypeOK, db
<1>4. node[c] = Root /\ depth[c] = 0 /\ base[c] = 0 /\ op[c] # "mount"
  BY <1>1, <1>2 DEF Placed
<1>5. Handle(c) \in Path /\ Len(Handle(c)) \in Nat
  BY <1>1, <1>2, HandleIsPath DEF Running
<1>6. "walk" \in Steps /\ "walk" \notin Outcomes
  BY DEF Steps, Outcomes
<1>7. ASSUME Continue(c, "walk"), UNCHANGED <<mounts, listing, node, base, depth>>,
             virt' = [virt EXCEPT ![c] = MountBelow(Handle(c))]
      PROVE  TInv'
  <2>1. /\ node' \in [Caller -> Store] /\ base' \in [Caller -> Nat]
        /\ depth' \in [Caller -> Nat] /\ virt' \in [Caller -> BOOLEAN]
    BY <1>1, <1>7 DEF Typed, MountBelow
  <2>2. base'[c] <= depth'[c] /\ depth'[c] <= Len(Handle(c)) /\ (node'[c] = Root => base'[c] = 0)
    BY <1>4, <1>5, <1>7
  <2> QED BY <1>1, <1>2, <1>4, <1>6, <1>7, <2>1, <2>2, ContinueTyped
<1>8. ASSUME NEW m \in MountsAbove(Handle(c)),
             node' = [node EXCEPT ![c] = mounts[m].store], base' = [base EXCEPT ![c] = Len(m)],
             depth' = [depth EXCEPT ![c] = Len(m)],
             Continue(c, "walk"), UNCHANGED <<mounts, listing, virt>>
      PROVE  TInv'
  <2>1. m \in Path /\ IsPrefix(m, Handle(c)) /\ mounts[m] \in Mount
    BY <1>1, DirPaths DEF MountsAbove, Mounted, Typed
  <2>2. mounts[m].store \in Store /\ mounts[m].store # Root
    BY <2>1 DEF Mount, Kind, Target
  <2>3. Len(m) \in Nat /\ Len(m) <= Len(Handle(c))
    BY <2>1, PathParts DEF IsPrefix
  <2>4. /\ node' \in [Caller -> Store] /\ base' \in [Caller -> Nat]
        /\ depth' \in [Caller -> Nat] /\ virt' \in [Caller -> BOOLEAN]
    BY <1>1, <1>8, <2>2, <2>3 DEF Typed
  <2>5. /\ base'[c] <= depth'[c] /\ depth'[c] <= Len(Handle(c))
        /\ node'[c] = Root => base'[c] = 0
    BY <1>1, <1>8, <2>2, <2>3 DEF Typed
  <2>6. \A d \in Caller \ {c} : node'[d] = node[d] /\ base'[d] = base[d] /\ depth'[d] = depth[d]
    BY <1>1, <1>8 DEF Typed
  <2> QED BY <1>1, <1>2, <1>4, <1>6, <1>8, <2>4, <2>5, <2>6, ContinueTyped
<1>9. ASSUME Ends(c, "idle") PROVE TInv'
  BY <1>1, <1>3, <1>9, EndsTyped DEF Outcomes
<1>10. TInv'
  BY <1>7, <1>8, <1>9 DEF Resolve
<1> QED BY <1>3, <1>10 DEF SInv

LEMMA WalkTyped ==
    ASSUME SInv, NEW c \in Caller, Walk(c)
    PROVE  SInv'
<1>1. TInv /\ Typed /\ Bounded(c) /\ Placed(c) /\ DbTypeOK
  BY DEF SInv, TInv, Typed
<1>2. UNCHANGED db /\ pc[c] = "walk" /\ pc[c] \notin Outcomes /\ "idle" \in Outcomes
  BY DEF Walk, Outcomes
<1>3. MadeIsNoValue' /\ DbTypeOK'
  BY <1>1, <1>2 DEF SInv, MadeIsNoValue, DbTypeOK, db
<1>4. CASE /\ depth' = [depth EXCEPT ![c] = @ + 1]
           /\ UNCHANGED <<mounts, pc, call, node, base, virt, listing, misread, kept>>
  <2>1. Handle(c) \in Path /\ Len(Handle(c)) \in Nat
    BY <1>1, <1>2, HandleIsPath DEF Running
  <2>2. depth[c] + 1 <= Len(Handle(c))
    BY <1>1, <2>1 DEF Walk, Walks, Typed
  <2>3. Typed'
    BY <1>1, <1>3, <1>4 DEF Typed, call, listing, kept
  <2>4. Elsewhere(c)
    BY <1>1, <1>4 DEF Elsewhere, Typed, call
  <2>5. UNCHANGED <<pc, op, path, node, base>> /\ depth'[c] = depth[c] + 1
    BY <1>1, <1>4 DEF call, Typed
  <2>6. Handle(c)' = Handle(c)
    BY <2>5 DEF Handle
  <2>7. Bounded(c)' /\ Placed(c)'
    BY <1>1, <1>2, <2>2, <2>5, <2>6 DEF Bounded, Placed, Typed
  <2>8. TInv'
    BY <1>1, <2>3, <2>4, <2>7, OthersStay
  <2> QED BY <1>3, <2>8 DEF SInv
<1>5. ASSUME Ends(c, "idle") PROVE TInv'
  BY <1>1, <1>2, <1>3, <1>5, EndsTyped
<1>6. ASSUME Misses(c) PROVE TInv'
  <2>1. CASE op[c] = "mount"
    BY <1>1, <1>2, <1>6, <2>1, StaysTyped DEF Misses
  <2>2. CASE op[c] # "mount" /\ Continue(c, "list") /\ UNCHANGED <<mounts, spot, listing>>
    BY <1>1, <1>2, <2>2, StaysTyped
  <2>3. ASSUME NEW r, Return(c, "idle", r), UNCHANGED <<mounts, kept>> PROVE TInv'
    BY <1>1, <1>2, <1>3, <2>3, ReturnTyped DEF Typed, kept
  <2> QED BY <1>5, <1>6, <2>1, <2>2, <2>3 DEF Misses
<1>7. CASE Ends(c, "idle") \/ Misses(c)
  BY <1>3, <1>5, <1>6, <1>7 DEF SInv
<1> QED BY <1>4, <1>7 DEF Walk

\* What a call does to the store it has come to.
ActsBy(c) ==
    \/ op[c] = "put" /\ \E v \in Value : DbSet(node[c], Goal(c), v)
    \/ op[c] = "put" /\ \E e, v \in Value \union {Absent} : DbExchange(node[c], Goal(c), e, v)
    \/ op[c] = "mkdir" /\ DbMkdir(node[c], Goal(c))
    \/ op[c] = "del" /\ DbDel(node[c], Goal(c))
    \/ op[c] = "clear" /\ DbClear(node[c], Goal(c))
    \/ op[c] = "rmdir" /\ DbRmdir(node[c], Goal(c))

\* A step at the end of the walk changes the store by one method or not at all.
LEMMA ActCases ==
    ASSUME NEW c \in Caller, Act(c)
    PROVE  /\ ActsBy(c) \/ UNCHANGED db
           /\ \/ Writes(c)
              \/ Ends(c, "idle")
              \/ \E r : Return(c, "idle", r) /\ UNCHANGED <<mounts, kept>>
              \/ op[c] = "entries" /\ Continue(c, "list") /\ UNCHANGED <<mounts, spot, listing, db>>
              \/ op[c] = "mount" /\ Continue(c, "has") /\ UNCHANGED <<mounts, spot, listing, db>>
<1>1. CASE ActValue(c)
  BY <1>1 DEF ActValue, ActsBy
<1>2. CASE ActDir(c)
  BY <1>2 DEF ActDir, ActsBy
<1>3. CASE ActEntries(c)
  BY <1>3 DEF ActEntries
<1>4. CASE AskIsDir(c)
  BY <1>4 DEF AskIsDir
<1> QED BY <1>1, <1>2, <1>3, <1>4 DEF Act

LEMMA ActTyped ==
    ASSUME SInv, NEW c \in Caller, Act(c)
    PROVE  SInv'
<1>1. TInv /\ Typed /\ Bounded(c) /\ Placed(c) /\ DbTypeOK /\ MadeIsNoValue
  BY DEF SInv, TInv, Typed
<1>2. pc[c] = "walk" /\ pc[c] \notin Outcomes /\ "idle" \in Outcomes
  BY DEF Act, Arrived, Outcomes
<1>3. node[c] \in Store /\ Goal(c) \in Path
  BY <1>1, <1>2, GoalIsPath DEF Typed
<1>4. DbTypeOK' /\ MadeIsNoValue'
  <2>1. CASE UNCHANGED db
    BY <1>1, <2>1 DEF MadeIsNoValue, DbTypeOK, db
  <2>2. CASE ActsBy(c)
    BY <1>1, <1>3, <2>2, StoreMethods DEF ActsBy
  <2> QED BY <2>1, <2>2, ActCases
<1>5. ASSUME Writes(c) PROVE TInv'
  <2>1. values'[node[c]][Goal(c)] \in Value \union {Absent}
    BY <1>3, <1>4 DEF DbTypeOK
  <2>2. word' \in [Path -> Value \union {Absent, NoWord}]
    BY <1>1, <1>5, <2>1 DEF Writes, Typed
  <2> QED BY <1>1, <1>2, <1>4, <1>5, <2>2, ReturnTyped DEF Writes, Typed
<1>6. ASSUME Ends(c, "idle") PROVE TInv'
  BY <1>1, <1>2, <1>4, <1>6, EndsTyped
<1>7. ASSUME NEW r, Return(c, "idle", r), UNCHANGED <<mounts, kept>> PROVE TInv'
  BY <1>1, <1>2, <1>4, <1>7, ReturnTyped DEF Typed, kept
<1>8. ASSUME op[c] = "entries", Continue(c, "list"), UNCHANGED <<mounts, spot, listing, db>>
      PROVE  TInv'
  BY <1>1, <1>2, <1>8, StaysTyped
<1>9. ASSUME op[c] = "mount", Continue(c, "has"), UNCHANGED <<mounts, spot, listing, db>>
      PROVE  TInv'
  BY <1>1, <1>2, <1>9, StaysTyped
<1>10. TInv'
  BY <1>5, <1>6, <1>7, <1>8, <1>9, ActCases
<1> QED BY <1>4, <1>10 DEF SInv

LEMMA RestTyped ==
    ASSUME SInv, NEW c \in Caller, List(c) \/ AskHas(c) \/ Insert(c)
    PROVE  SInv'
<1>1. TInv /\ Typed /\ Bounded(c) /\ Placed(c) /\ DbTypeOK
  BY DEF SInv, TInv, Typed
<1>2. UNCHANGED db /\ pc[c] \in {"list", "has", "insert"} /\ pc[c] \notin Outcomes
  BY DEF List, AskHas, Insert, Outcomes
<1>3. MadeIsNoValue' /\ DbTypeOK'
  BY <1>1, <1>2 DEF SInv, MadeIsNoValue, DbTypeOK, db
<1>4. ASSUME NEW outcome \in Outcomes, Ends(c, outcome) PROVE TInv'
  BY <1>1, <1>3, <1>4, EndsTyped
<1>5. "idle" \in Outcomes /\ "panicked" \in Outcomes
  BY DEF Outcomes
<1>6. CASE List(c)
  <2>1. ASSUME NEW m \in leaves[c], leaves' = [leaves EXCEPT ![c] = @ \ {m}],
               UNCHANGED <<mounts, pc, call, spot, kids, misread, kept>>
        PROVE  TInv'
    <3>1. UNCHANGED <<pc, op, path, node, base, depth>>
      BY <2>1 DEF call, spot
    <3>2. Typed'
      BY <1>1, <1>3, <2>1 DEF Typed, call, spot, kept
    <3>3. Elsewhere(c)
      BY <3>1 DEF Elsewhere
    <3>4. Bounded(c)' /\ Placed(c)'
      BY <1>1, <3>1 DEF Bounded, Placed, Handle
    <3> QED BY <1>1, <3>2, <3>3, <3>4, OthersStay
  <2>2. TInv'
    BY <1>4, <1>5, <1>6, <2>1 DEF List
  <2> QED BY <1>3, <2>2 DEF SInv
<1>7. CASE AskHas(c)
  <2>1. op[c] = "mount"
    BY <1>1, <1>7 DEF AskHas, Placed
  <2>2. ASSUME Continue(c, "insert"), UNCHANGED <<mounts, spot, listing>> PROVE TInv'
    BY <1>1, <1>2, <2>1, <2>2, StaysTyped
  <2>3. TInv'
    BY <1>4, <1>5, <1>7, <2>2 DEF AskHas
  <2> QED BY <1>3, <2>3 DEF SInv
<1>8. CASE Insert(c)
  <2>1. ASSUME NEW kind \in Kind, NEW t \in Target,
               mounts' = [mounts EXCEPT ![path[c]] = [kind |-> kind, store |-> t]],
               clean' = IF due[c] THEN clean \union {path[c]} ELSE clean,
               Return(c, "idle", NoWord), UNCHANGED word
        PROVE  TInv'
    <3>1. [kind |-> kind, store |-> t] \in Mount
      BY DEF Mount, Kind
    <3>2. mounts' \in [DirPath -> Mount \union {NoMount}] /\ clean' \subseteq DirPath
      BY <1>1, <1>2, <1>8, <2>1, <3>1 DEF Typed, Insert, Placed
    <3> QED BY <1>1, <1>3, <1>5, <2>1, <3>2, ReturnTyped DEF Typed
  <2>2. TInv'
    BY <1>4, <1>5, <1>8, <2>1 DEF Insert
  <2> QED BY <1>3, <2>2 DEF SInv
<1> QED BY <1>6, <1>7, <1>8

LEMMA UnmountTyped ==
    ASSUME SInv, NEW m \in DirPath, Unmount(m)
    PROVE  SInv'
<1>1. TInv /\ Typed
  BY DEF SInv, TInv
<1>2. UNCHANGED <<values, dirs, made, pc, op, path, node, base, depth, virt, kids, leaves, misread>>
  BY DEF Unmount, db, spot, listing
<1>3. /\ word' \in [Path -> Value \union {Absent, NoWord}]
      /\ sure' \in [Caller -> Value \union {Absent, NoWord}]
      /\ due' \in [Caller -> BOOLEAN]
      /\ mounts' \in [DirPath -> Mount \union {NoMount}] /\ clean' \subseteq DirPath
  BY <1>1 DEF Unmount, Typed
<1>4. Typed'
  BY <1>1, <1>2, <1>3 DEF Typed, DbTypeOK
<1>5. \A c \in Caller : Bounded(c)' /\ Placed(c)'
  BY <1>1, <1>2 DEF TInv, Bounded, Placed, Handle
<1>6. MadeIsNoValue'
  BY <1>2 DEF SInv, MadeIsNoValue
<1> QED BY <1>4, <1>5, <1>6 DEF SInv, TInv

\* A step of a caller.
LEMMA CallStepTyped ==
    ASSUME SInv, NEW c \in Caller, CallStep(c)
    PROVE  SInv'
BY StartTyped, ResolveTyped, WalkTyped, ActTyped, RestTyped DEF CallStep

LEMMA StutterTyped ==
    ASSUME SInv, UNCHANGED vars
    PROVE  SInv'
<1>1. UNCHANGED <<values, dirs, made, mounts, pc, op, path, node, base, depth, virt, kids,
                  leaves, word, due, sure, misread, clean>>
  BY DEF vars, db, call, spot, listing, kept
<1> QED BY <1>1 DEF SInv, TInv, Typed, DbTypeOK, Bounded, Placed, Handle, MadeIsNoValue

\* The typing part of the invariant.
LEMMA TypesKept == Spec => []SInv
<1>1. Init => SInv
  <2>1. ASSUME Init PROVE MadeIsNoValue
    BY <2>1, PathsAreClosed DEF Init, DbInit, MadeIsNoValue
  <2> QED BY <2>1, InitTyped DEF SInv
<1>2. SInv /\ [Next]_vars => SInv'
  BY CallStepTyped, UnmountTyped, StutterTyped DEF Next
<1> QED BY <1>1, <1>2, PTL DEF Spec

\* Every variable keeps its type, and a walk never leaves its path.
THEOREM TypeCorrect == Spec => []TypeOK
<1>1. SInv => TypeOK
  BY DEF SInv, TInv, Typed, Bounded, TypeOK
<1> QED BY <1>1, TypesKept, PTL

\* db_dir.rs:224, 303, 334: whatever handles outlive their directories, a symbol by which a
\* directory was made is no value until the directory is removed.
THEOREM DirectoriesAreNoValues == Spec => []MadeIsNoValue
<1>1. SInv => MadeIsNoValue
  BY DEF SInv
<1> QED BY <1>1, TypesKept, PTL

-------------------------------------------------------------------------------
\* Mounts

\* A call that may make a node at q or a directory that leads there.
Makes(c, q) == Running(c) /\ MakesWay(op[c], path[c], q)

\* A mount that may call itself undisturbed is.
Undisturbed == \A c \in Caller : op[c] = "mount" /\ due[c] =>
                  \A d \in Caller : ~Makes(d, path[c])

\* Before it is inserted it has seen that the root has no such node.
Unseen == \A c \in Caller : pc[c] = "insert" /\ due[c] => ~RootHas(path[c])

\* Nobody makes anything at a mount that is there, or on the way to it.
CleanIsGuarded == clean \subseteq Mounted /\ \A m \in clean : \A d \in Caller : ~Makes(d, m)

MInv == /\ SInv /\ TablesAreLeaves
        /\ Undisturbed /\ Unseen /\ CleanIsGuarded /\ MountsShadowNothing

\* A path of the root that nobody makes does not come into being.
LEMMA RootGrowth ==
    ASSUME DbTypeOK, NEW q \in Path,
           \A p \in Path : IsPrefix(p, q) /\ p \in dirs'[Root] => p \in dirs[Root],
           values'[Root][q] # Absent => values[Root][q] # Absent,
           RootHas(q)'
    PROVE  RootHas(q)
<1>1. q \in Seq(Name) /\ Len(q) \in Nat
  BY PathParts
<1>2. ASSUME NEW n \in 0..(Len(q) - 1) PROVE SubSeq(q, 1, n) \in dirs[Root]
  <2>1. SubSeq(q, 1, n) \in dirs'[Root]
    BY <1>2 DEF RootHas
  <2>2. SubSeq(q, 0 + 1, n) \in Path
    BY <1>1, PathParts
  <2>3. IsPrefix(SubSeq(q, 1, n), q)
    <3>1. n \in Nat /\ n <= Len(q)
      BY <1>1
    <3>2. \A i \in 1..n : q[i] \in Name
      BY <1>1, <3>1, ElementOfSeq
    <3>3. Len(SubSeq(q, 1, n)) = n /\ \A i \in 1..n : SubSeq(q, 1, n)[i] = q[i]
      <4>1. Len(SubSeq(q, 1, n)) = IF 1 <= n THEN n - 1 + 1 ELSE 0
        BY <3>1, <3>2, SubSeqProperties
      <4>2. \A i \in 1..(n - 1 + 1) : SubSeq(q, 1, n)[i] = q[1 + i - 1]
        BY <3>1, <3>2, SubSeqProperties
      <4> QED BY <3>1, <4>1, <4>2
    <3>4. SubSeq(q, 1, n) \in Seq(Name)
      BY <2>2, PathParts
    <3> QED BY <1>1, <3>1, <3>3, <3>4, PrefixByEntries
  <2> QED BY <2>1, <2>2, <2>3
<1>3. q \in dirs[Root] \/ values[Root][q] # Absent
  <2>1. IsPrefix(q, q)
    BY <1>1, PrefixReflexive
  <2> QED BY <2>1 DEF RootHas
<1> QED BY <1>2, <1>3 DEF RootHas

\* The end of a walk makes what its call is about, and nothing else.
LEMMA ActGrowth ==
    ASSUME SInv, NEW c \in Caller, Act(c), NEW q \in DirPath, ~Makes(c, q), RootHas(q)'
    PROVE  RootHas(q)
<1>1. /\ Typed /\ Bounded(c) /\ Placed(c) /\ DbTypeOK /\ Root \in Store
      /\ q \in Path /\ ChildPath(q) = q
  BY MountSentinels DEF SInv, TInv, Typed, DirPath
<1>2. pc[c] = "walk" /\ Running(c)
  BY DEF Act, Arrived, Running, Outcomes
<1>3. node[c] \in Store /\ Goal(c) \in Path
  BY <1>1, <1>2, GoalIsPath DEF Typed
<1>4. node[c] = Root => Goal(c) = path[c]
  <2>1. path[c] \in Seq(Name)
    BY <1>1, PathParts DEF Typed
  <2>2. SubSeq(path[c], 1, Len(path[c])) = path[c]
    BY <2>1, SubSeqFull
  <2> QED BY <1>1, <2>2 DEF Goal, Below, Placed
<1>5. node[c] = Root => /\ op[c] = "put" => Goal(c) # q
                        /\ op[c] = "mkdir" => ~IsPrefix(ChildPath(Goal(c)), q)
  BY <1>1, <1>2, <1>4 DEF Makes, MakesWay
<1>6. ASSUME NEW v \in Value \union {Absent}, op[c] = "put", Put(node[c], Goal(c), v)
      PROVE  RootHas(q)
  <2>1. dirs' = dirs /\ (node[c] = Root => Goal(c) # q)
    BY <1>5, <1>6 DEF Put
  <2>2. values'[Root][q] = values[Root][q]
    BY <1>1, <1>3, <1>6, <2>1 DEF Put, DbTypeOK
  <2> QED BY <1>1, <2>1, <2>2, RootGrowth
<1>7. ASSUME UNCHANGED db PROVE RootHas(q)
  BY <1>7 DEF db, RootHas
<1>8. ASSUME \A s \in Store : \A p \in Path : values'[s][p] # Absent => values[s][p] # Absent,
             \A s \in Store : dirs'[s] \subseteq dirs[s]
      PROVE  RootHas(q)
  BY <1>1, <1>8, RootGrowth
<1>9. CASE op[c] = "put" /\ \E v \in Value : DbSet(node[c], Goal(c), v)
  BY <1>6, <1>9 DEF DbSet
<1>10. CASE op[c] = "put" /\ \E e, v \in Value \union {Absent} : DbExchange(node[c], Goal(c), e, v)
  BY <1>6, <1>7, <1>10 DEF DbExchange
<1>11. CASE op[c] = "mkdir" /\ DbMkdir(node[c], Goal(c))
  <2>1. values' = values /\ dirs' = [dirs EXCEPT ![node[c]] = @ \union {ChildPath(Goal(c))}]
    BY <1>11 DEF DbMkdir
  <2>2. \A p \in Path : IsPrefix(p, q) /\ p \in dirs'[Root] => p \in dirs[Root]
    BY <1>1, <1>3, <1>5, <1>11, <2>1 DEF DbTypeOK
  <2> QED BY <1>1, <2>1, <2>2, RootGrowth
<1>12. CASE op[c] = "del" /\ DbDel(node[c], Goal(c))
  <2>1. /\ \A s \in Store : \A p \in Path : values'[s][p] # Absent => values[s][p] # Absent
        /\ dirs' = dirs
    BY <1>1, <1>3, <1>12 DEF DbDel, Put, DbTypeOK
  <2> QED BY <1>8, <2>1
<1>13. CASE op[c] = "clear" /\ DbClear(node[c], Goal(c))
  <2>1. /\ \A s \in Store : \A p \in Path : values'[s][p] # Absent => values[s][p] # Absent
        /\ dirs' = dirs
    BY <1>1, <1>3, <1>13 DEF DbClear, DbTypeOK
  <2> QED BY <1>8, <2>1
<1>14. CASE op[c] = "rmdir" /\ DbRmdir(node[c], Goal(c))
  <2>1. /\ \A s \in Store : \A p \in Path : values'[s][p] # Absent => values[s][p] # Absent
        /\ \A s \in Store : dirs'[s] \subseteq dirs[s]
    BY <1>1, <1>3, <1>14 DEF DbRmdir, DbTypeOK
  <2> QED BY <1>8, <2>1
<1> QED BY <1>7, <1>9, <1>10, <1>11, <1>12, <1>13, <1>14, ActCases DEF ActsBy

\* A step that begins no call makes nobody a maker, and no mount undisturbed.
Settles == \A d \in Caller :
    /\ \A q : Makes(d, q)' => Makes(d, q)
    /\ op'[d] = "mount" /\ due'[d] => op[d] = "mount" /\ due[d] /\ path'[d] = path[d]

LEMMA Continued ==
    ASSUME SInv, NEW c \in Caller, Running(c),
           \/ \E step : Continue(c, step)
           \/ \E outcome \in Outcomes : \E r : Return(c, outcome, r)
           \/ UNCHANGED <<pc, call>>
    PROVE  Settles
<1>1. Typed
  BY DEF SInv, TInv
<1>2. ASSUME NEW step, Continue(c, step) PROVE Settles
  <2>1. UNCHANGED <<op, path, due>> /\ pc' = [pc EXCEPT ![c] = step]
    BY <1>2 DEF Continue, Goto, call
  <2>2. \A d \in Caller : Running(d)' => Running(d)
    BY <1>1, <2>1 DEF Running, Typed
  <2> QED BY <2>1, <2>2 DEF Settles, Makes
<1>3. ASSUME NEW outcome \in Outcomes, NEW r, Return(c, outcome, r) PROVE Settles
  <2>1. /\ pc' = [pc EXCEPT ![c] = outcome] /\ op' = [op EXCEPT ![c] = "get"]
        /\ path' = [path EXCEPT ![c] = <<>>] /\ due' = [due EXCEPT ![c] = FALSE]
    BY <1>3 DEF Return, Goto
  <2>2. ~Running(c)' /\ op'[c] = "get"
    BY <1>1, <2>1 DEF Running, Typed
  <2>3. \A d \in Caller \ {c} :
           pc'[d] = pc[d] /\ op'[d] = op[d] /\ path'[d] = path[d] /\ due'[d] = due[d]
    BY <1>1, <2>1 DEF Typed
  <2> QED BY <2>2, <2>3 DEF Settles, Makes, Running
<1>4. CASE UNCHANGED <<pc, call>>
  BY <1>4 DEF call, Settles, Makes, Running
<1> QED BY <1>2, <1>3, <1>4

LEMMA SettledStaysUndisturbed ==
    ASSUME Undisturbed, Settles
    PROVE  Undisturbed'
BY DEF Undisturbed, Settles

\* Every step of a call that runs is one of these.
Later(c) == Resolve(c) \/ Walk(c) \/ Act(c) \/ List(c) \/ AskHas(c) \/ Insert(c)

LEMMA LaterSettles ==
    ASSUME SInv, NEW c \in Caller, Later(c)
    PROVE  Settles
<1>1. Running(c)
  BY DEF Later, Resolve, Walk, Act, Arrived, List, AskHas, Insert, Running, Outcomes
<1>2. "idle" \in Outcomes /\ "panicked" \in Outcomes
  BY DEF Outcomes
<1>3. \/ \E step : Continue(c, step)
      \/ \E outcome \in Outcomes : \E r : Return(c, outcome, r)
      \/ UNCHANGED <<pc, call>>
  <2>1. CASE Resolve(c)
    BY <1>2, <2>1 DEF Resolve, Ends
  <2>2. CASE Walk(c)
    BY <1>2, <2>2 DEF Walk, Misses, Ends
  <2>3. CASE Act(c)
    BY <1>2, <2>3, ActCases DEF Writes, Ends
  <2>4. CASE List(c)
    BY <1>2, <2>4 DEF List, Ends
  <2>5. CASE AskHas(c)
    BY <1>2, <2>5 DEF AskHas, Ends
  <2>6. CASE Insert(c)
    BY <1>2, <2>6 DEF Insert, Ends
  <2> QED BY <2>1, <2>2, <2>3, <2>4, <2>5, <2>6 DEF Later
<1> QED BY <1>1, <1>3, Continued

\* It moves nobody else.
LEMMA OnlyOwnStep ==
    ASSUME SInv, NEW c \in Caller, Later(c), NEW d \in Caller, d # c
    PROVE  pc'[d] = pc[d]
<1>1. Typed
  BY DEF SInv, TInv
<1>2. \/ \E step : Goto(c, step)
      \/ UNCHANGED pc
  <2>1. CASE Resolve(c)
    BY <2>1 DEF Resolve, Ends, Return, Continue
  <2>2. CASE Walk(c)
    BY <2>2 DEF Walk, Misses, Ends, Return, Continue
  <2>3. CASE Act(c)
    BY <2>3, ActCases DEF Writes, Ends, Return, Continue
  <2>4. CASE List(c)
    BY <2>4 DEF List, Ends, Return
  <2>5. CASE AskHas(c)
    BY <2>5 DEF AskHas, Ends, Return, Continue
  <2>6. CASE Insert(c)
    BY <2>6 DEF Insert, Ends, Return
  <2> QED BY <2>1, <2>2, <2>3, <2>4, <2>5, <2>6 DEF Later
<1> QED BY <1>1, <1>2 DEF Goto, Typed

\* What nobody makes stays away from the root through the step of a call.
LEMMA LaterGrowth ==
    ASSUME SInv, NEW c \in Caller, Later(c), NEW q \in DirPath, ~Makes(c, q), ~RootHas(q)
    PROVE  ~RootHas(q)'
<1>1. CASE Act(c)
  BY <1>1, ActGrowth
<1>2. CASE UNCHANGED db
  BY <1>2 DEF db, RootHas
<1> QED BY <1>1, <1>2 DEF Later, Resolve, Walk, List, AskHas, Insert

\* A step that takes a mount to its insertion has seen the root.
LEMMA SeenByInsert ==
    ASSUME SInv, NEW c \in Caller, Later(c), pc'[c] = "insert", pc[c] # "insert"
    PROVE  ~RootHas(path[c])
<1>1. Typed /\ Bounded(c) /\ Placed(c)
  BY DEF SInv, TInv
<1>2. ASSUME NEW outcome, NEW r, Return(c, outcome, r), outcome # "insert" PROVE FALSE
  BY <1>1, <1>2 DEF Return, Goto, Typed
<1>3. ASSUME NEW step, Continue(c, step), step # "insert" PROVE FALSE
  BY <1>1, <1>3 DEF Continue, Goto, Typed
<1>4. CASE Walk(c)
  <2>1. Running(c)
    BY <1>4 DEF Walk, Running, Outcomes
  <2>2. /\ op[c] = "mount" /\ depth[c] < Len(Handle(c))
        /\ Reached(c, depth[c] + 1) \notin dirs[node[c]]
    BY <1>2, <1>3, <1>4 DEF Walk, Walks, Misses, Ends
  <2>3. node[c] = Root /\ base[c] = 0 /\ op[c] \notin OnHandle
    BY <1>1, <2>2 DEF Placed, OnHandle
  <2>4. Len(Handle(c)) \in Nat /\ Len(Handle(c)) + 1 = Len(path[c]) /\ depth[c] \in Nat
    BY <1>1, <2>1, <2>3, HandleIsPath DEF Typed
  <2>5. depth[c] + 1 \in 0..(Len(path[c]) - 1)
    BY <2>2, <2>4
  <2> QED BY <2>2, <2>3, <2>5 DEF Reached, RootHas
<1>5. CASE AskHas(c)
  BY <1>2, <1>5 DEF AskHas, Ends, Has, HasDir, RootHas
<1>6. CASE Resolve(c)
  BY <1>2, <1>3, <1>6 DEF Resolve, Ends
<1>7. CASE Act(c)
  BY <1>1, <1>2, <1>3, <1>7, ActCases DEF Writes, Ends
<1>8. CASE List(c)
  BY <1>2, <1>8 DEF List, Ends
<1>9. CASE Insert(c)
  BY <1>9 DEF Insert
<1> QED BY <1>4, <1>5, <1>6, <1>7, <1>8, <1>9 DEF Later

LEMMA LaterKeepsUnseen ==
    ASSUME MInv, NEW c \in Caller, Later(c)
    PROVE  Undisturbed' /\ Unseen'
<1>1. SInv /\ Settles /\ SInv' /\ CallStep(c)
  BY LaterSettles, CallStepTyped DEF MInv, Later, CallStep
<1>2. ASSUME NEW d \in Caller, pc'[d] = "insert", due'[d] PROVE ~RootHas(path[d])'
  <2>1. op'[d] = "mount"
    BY <1>1, <1>2 DEF SInv, TInv, Placed
  <2>2. op[d] = "mount" /\ due[d] /\ path'[d] = path[d] /\ path[d] \in DirPath
    BY <1>1, <1>2, <2>1 DEF Settles, SInv, TInv, Placed
  <2>3. ~Makes(c, path[d])
    BY <2>2 DEF MInv, Undisturbed
  <2>4. ~RootHas(path[d])
    <3>1. CASE pc[d] = "insert"
      BY <2>2, <3>1 DEF MInv, Unseen
    <3>2. CASE pc[d] # "insert"
      <4>1. d = c
        BY <1>1, <1>2, <3>2, OnlyOwnStep
      <4> QED BY <1>1, <1>2, <3>2, <4>1, SeenByInsert
    <3> QED BY <3>1, <3>2
  <2>5. \A q \in DirPath : q = path[d] => ~RootHas(q)'
    BY <1>1, <2>3, <2>4, LaterGrowth
  <2> QED BY <2>2, <2>5 DEF RootHas
<1> QED BY <1>1, <1>2, SettledStaysUndisturbed DEF MInv, Unseen

LEMMA LaterKeepsMounts ==
    ASSUME MInv, NEW c \in Caller, Later(c)
    PROVE  TablesAreLeaves' /\ CleanIsGuarded' /\ MountsShadowNothing'
<1>1. SInv /\ Settles /\ Typed /\ clean \subseteq DirPath
  BY LaterSettles DEF MInv, SInv, TInv, Typed
<1>2. ASSUME NEW m \in clean PROVE ~RootHas(m)'
  <2>1. ~Makes(c, m) /\ ~RootHas(m)
    BY <1>2 DEF MInv, CleanIsGuarded, MountsShadowNothing
  <2> QED BY <1>1, <1>2, <2>1, LaterGrowth
<1>3. CASE UNCHANGED <<mounts, clean>>
  <2>1. TablesAreLeaves'
    BY <1>3 DEF MInv, TablesAreLeaves, Mounted
  <2>2. CleanIsGuarded'
    BY <1>1, <1>3 DEF MInv, CleanIsGuarded, Mounted, Settles
  <2>3. MountsShadowNothing'
    BY <1>2, <1>3 DEF MountsShadowNothing
  <2> QED BY <2>1, <2>2, <2>3
<1>4. ASSUME NEW kind \in Kind, NEW t \in Target, pc[c] = "insert",
             path[c] \notin Mounted, FitsRegistry(path[c], kind),
             mounts' = [mounts EXCEPT ![path[c]] = [kind |-> kind, store |-> t]],
             clean' = IF due[c] THEN clean \union {path[c]} ELSE clean,
             UNCHANGED db
      PROVE  TablesAreLeaves' /\ CleanIsGuarded' /\ MountsShadowNothing'
  <2>1. path[c] \in DirPath /\ op[c] = "mount"
    BY <1>1, <1>4 DEF SInv, TInv, Placed
  <2>2. [kind |-> kind, store |-> t] \in Mount /\ [kind |-> kind, store |-> t] # NoMount
    BY MountSentinels DEF Mount, Kind
  <2>3. /\ Mounted' = Mounted \union {path[c]}
        /\ mounts'[path[c]].kind = kind
        /\ \A m \in Mounted : mounts'[m] = mounts[m]
    BY <1>1, <1>4, <2>1, <2>2 DEF Mounted, Typed
  <2>4. TablesAreLeaves'
    <3>1. ASSUME NEW m \in Mounted', NEW n \in Mounted', IsStrictPrefix(m, n)
          PROVE  mounts'[m].kind = "dir"
      <4>1. CASE m # path[c] /\ n # path[c]
        BY <2>3, <3>1, <4>1 DEF MInv, TablesAreLeaves
      <4>2. CASE m # path[c] /\ n = path[c]
        BY <1>4, <2>3, <3>1, <4>2 DEF FitsRegistry, NothingAbove
      <4>3. CASE m = path[c]
        <5>1. n \in Mounted
          BY <2>3, <3>1, <4>3 DEF IsStrictPrefix
        <5>2. MountBelow(path[c])
          BY <3>1, <4>3, <5>1 DEF MountBelow, Children
        <5> QED BY <1>4, <2>3, <4>3, <5>2 DEF FitsRegistry, Kind
      <4> QED BY <4>1, <4>2, <4>3
    <3> QED BY <3>1 DEF TablesAreLeaves
  <2>5. CleanIsGuarded'
    <3>1. clean' \subseteq Mounted'
      BY <1>4, <2>3 DEF MInv, CleanIsGuarded
    <3>2. ASSUME NEW m \in clean', NEW d \in Caller PROVE ~Makes(d, m)
      BY <1>4, <2>1, <3>2 DEF MInv, CleanIsGuarded, Undisturbed
    <3> QED BY <1>1, <3>1, <3>2 DEF CleanIsGuarded, Settles
  <2>6. MountsShadowNothing'
    <3>1. due[c] => ~RootHas(path[c])
      BY <1>4 DEF MInv, Unseen
    <3>2. \A m \in clean' : ~RootHas(m)
      BY <1>4, <3>1 DEF MInv, MountsShadowNothing
    <3> QED BY <1>4, <3>2 DEF MountsShadowNothing, RootHas, db
  <2> QED BY <2>4, <2>5, <2>6
<1>5. CASE Resolve(c)
  BY <1>3, <1>5 DEF Resolve, Ends, Continue, kept
<1>6. CASE Walk(c)
  BY <1>3, <1>6 DEF Walk, Misses, Ends, Continue, kept
<1>7. CASE Act(c)
  BY <1>3, <1>7, ActCases DEF Writes, Ends, Continue, kept
<1>8. CASE List(c)
  BY <1>3, <1>8 DEF List, Ends, kept
<1>9. CASE AskHas(c)
  BY <1>3, <1>9 DEF AskHas, Ends, Continue, kept
<1>10. CASE Insert(c)
  <2>1. ASSUME Ends(c, "idle")
        PROVE  TablesAreLeaves' /\ CleanIsGuarded' /\ MountsShadowNothing'
    BY <1>3, <2>1 DEF Ends, kept
  <2> QED BY <1>4, <1>10, <2>1 DEF Insert
<1> QED BY <1>5, <1>6, <1>7, <1>8, <1>9, <1>10 DEF Later

\* A call that begins: a set or mkdir at or above a mount is refused, and a mount is
\* undisturbed only while no such call runs.
LEMMA BeginKeepsMounts ==
    ASSUME MInv, NEW c \in Caller, NEW o \in Ops, NEW p \in Path, NEW step \in {"walk", "resolve"},
           Begin(c, o, p, step), o \in {"put", "mkdir"} => ~ChildHasMount(p)
    PROVE  /\ TablesAreLeaves' /\ Undisturbed' /\ Unseen'
           /\ CleanIsGuarded' /\ MountsShadowNothing'
<1>1. Typed /\ UNCHANGED <<db, mounts, clean>> /\ ~Running(c)
  BY DEF MInv, SInv, TInv, Begin
<1>2. /\ pc'[c] = step /\ op'[c] = o /\ path'[c] = p
      /\ \A d \in Caller \ {c} : pc'[d] = pc[d] /\ op'[d] = op[d] /\ path'[d] = path[d]
  BY <1>1 DEF Begin, Goto, Typed
<1>3. /\ due'[c] => \A e \in Caller \ {c} : Running(e) => ~Disturbs(op[e], path[e], o, p)
      /\ \A d \in Caller \ {c} : due'[d] = (due[d] /\ ~Disturbs(o, p, op[d], path[d]))
  BY DEF Begin
<1>4. \A d \in Caller \ {c} : \A q : Makes(d, q)' => Makes(d, q)
  BY <1>2 DEF Makes, Running
<1>5. \A q : Makes(c, q)' => MakesWay(o, p, q)
  BY <1>2 DEF Makes
<1>6. TablesAreLeaves' /\ MountsShadowNothing'
  BY <1>1 DEF MInv, TablesAreLeaves, MountsShadowNothing, RootHas, Mounted, db
<1>7. Undisturbed'
  <2>1. ASSUME NEW d \in Caller, op'[d] = "mount", due'[d], NEW e \in Caller, Makes(e, path[d])'
        PROVE  FALSE
    <3>1. CASE d = c
      <4>1. e # c
        BY <1>2, <2>1, <3>1 DEF Makes, MakesWay
      <4>2. Running(e) /\ MakesWay(op[e], path[e], p)
        BY <1>2, <2>1, <3>1, <4>1 DEF Makes, Running
      <4> QED BY <1>2, <1>3, <2>1, <3>1, <4>1, <4>2 DEF Disturbs
    <3>2. CASE d # c /\ e = c
      <4>1. op[d] = "mount" /\ path'[d] = path[d] /\ ~Disturbs(o, p, "mount", path[d])
        BY <1>2, <1>3, <2>1, <3>2
      <4>2. MakesWay(o, p, path[d])
        BY <1>2, <2>1, <3>2, <4>1 DEF Makes
      <4> QED BY <4>1, <4>2 DEF Disturbs
    <3>3. CASE d # c /\ e # c
      <4>1. op[d] = "mount" /\ due[d] /\ path'[d] = path[d]
        BY <1>2, <1>3, <2>1, <3>3
      <4>2. Makes(e, path[d])
        BY <1>2, <2>1, <3>3, <4>1 DEF Makes, Running
      <4> QED BY <4>1, <4>2 DEF MInv, Undisturbed
    <3> QED BY <3>1, <3>2, <3>3
  <2> QED BY <2>1 DEF Undisturbed
<1>8. Unseen'
  <2>1. ASSUME NEW d \in Caller, pc'[d] = "insert", due'[d] PROVE ~RootHas(path[d])'
    <3>1. d # c
      BY <1>2, <2>1
    <3>2. pc[d] = "insert" /\ due[d] /\ path'[d] = path[d]
      BY <1>2, <1>3, <2>1, <3>1
    <3> QED BY <1>1, <3>2 DEF MInv, Unseen, RootHas, db
  <2> QED BY <2>1 DEF Unseen
<1>9. CleanIsGuarded'
  <2>1. ASSUME NEW m \in clean PROVE ~Makes(c, m)'
    <3>1. m \in Mounted /\ IsPrefix(m, m)
      <4>1. m \in Path
        BY <1>1, DirPaths DEF Typed
      <4> QED BY <4>1, PathParts, PrefixReflexive DEF MInv, CleanIsGuarded
    <3>2. MakesWay(o, p, m) => o \in {"put", "mkdir"} /\ IsPrefix(ChildPath(p), m)
      BY <3>1 DEF MakesWay
    <3> QED BY <1>5, <3>1, <3>2 DEF ChildHasMount
  <2> QED BY <1>1, <1>4, <2>1 DEF MInv, CleanIsGuarded, Mounted
<1> QED BY <1>6, <1>7, <1>8, <1>9

LEMMA StartKeepsMounts ==
    ASSUME MInv, NEW c \in Caller, NEW p \in Path,
           \/ StartGet(c, p) \/ StartEntries(c, p) \/ StartClear(c, p) \/ StartMount(c, p)
           \/ \E o \in GuardedOps : StartWrite(c, o, p)
    PROVE  MInv'
<1>1. SInv'
  BY StartTyped DEF MInv
<1>2. ASSUME ~Running(c), pc' = [pc EXCEPT ![c] = "idle"], UNCHANGED <<db, mounts, call, clean>>
      PROVE  MInv'
  <2>1. Typed
    BY DEF MInv, SInv, TInv
  <2>2. UNCHANGED <<values, dirs, mounts, op, path, due, clean>>
    BY <1>2 DEF db, call
  <2>3. \A d \in Caller : /\ Running(d)' <=> Running(d)
                          /\ pc'[d] = "insert" => pc[d] = "insert"
    BY <1>2, <2>1 DEF Running, Outcomes, Typed
  <2>4. \A d \in Caller : \A q : Makes(d, q)' <=> Makes(d, q)
    BY <2>2, <2>3 DEF Makes
  <2>5. Undisturbed'
    BY <2>2, <2>4 DEF MInv, Undisturbed, Makes
  <2>6. Unseen'
    BY <2>2, <2>3 DEF MInv, Unseen, RootHas
  <2>7. TablesAreLeaves' /\ CleanIsGuarded' /\ MountsShadowNothing'
    BY <2>2, <2>4 DEF MInv, TablesAreLeaves, CleanIsGuarded, MountsShadowNothing, RootHas, Mounted
  <2> QED BY <1>1, <2>5, <2>6, <2>7 DEF MInv
<1>3. ASSUME NEW o \in Ops, NEW step \in {"walk", "resolve"}, Begin(c, o, p, step),
             o \in {"put", "mkdir"} => ~ChildHasMount(p)
      PROVE  MInv'
  BY <1>1, <1>3, BeginKeepsMounts DEF MInv
<1>4. {"get", "entries", "clear", "mount"} \subseteq Ops /\ GuardedOps \subseteq Ops
  BY DEF Ops, OnHandle, GuardedOps
<1>5. CASE StartGet(c, p)
  <2>1. CASE Begin(c, "get", p, "resolve")
    BY <1>3, <1>4, <2>1
  <2>2. CASE ChildPath(p) \in Mounted
    BY <1>2, <1>5, <2>2 DEF StartGet, Goto, kept
  <2> QED BY <1>5, <2>1, <2>2 DEF StartGet
<1>6. CASE StartEntries(c, p)
  BY <1>3, <1>4, <1>6 DEF StartEntries
<1>7. CASE StartClear(c, p)
  BY <1>3, <1>4, <1>7 DEF StartClear
<1>8. CASE StartMount(c, p)
  BY <1>3, <1>4, <1>8 DEF StartMount
<1>9. ASSUME NEW o \in GuardedOps, StartWrite(c, o, p) PROVE MInv'
  BY <1>3, <1>4, <1>9 DEF StartWrite
<1> QED BY <1>5, <1>6, <1>7, <1>8, <1>9

\* An unmount takes promises away and gives none.
LEMMA UnmountKeepsMounts ==
    ASSUME MInv, NEW m \in DirPath, Unmount(m)
    PROVE  MInv'
<1>1. SInv' /\ Typed
  BY UnmountTyped DEF MInv, SInv, TInv
<1>2. UNCHANGED <<values, dirs, pc, op, path>> /\ clean' = clean \ {m}
  BY DEF Unmount, db
<1>3. \A d \in Caller : due'[d] => due[d]
  BY DEF Unmount
<1>4. Mounted' = Mounted \ {m} /\ \A n \in Mounted' : mounts'[n] = mounts[n]
  BY <1>1 DEF Unmount, Mounted, Typed
<1>5. \A d \in Caller : \A q : Makes(d, q)' <=> Makes(d, q)
  BY <1>2 DEF Makes, Running
<1>6. Undisturbed' /\ Unseen'
  <2>1. Undisturbed'
    BY <1>2, <1>3, <1>5 DEF MInv, Undisturbed, Makes
  <2>2. Unseen'
    BY <1>2, <1>3 DEF MInv, Unseen, RootHas
  <2> QED BY <2>1, <2>2
<1>7. TablesAreLeaves'
  BY <1>4 DEF MInv, TablesAreLeaves
<1>8. CleanIsGuarded'
  BY <1>2, <1>4, <1>5 DEF MInv, CleanIsGuarded
<1>9. MountsShadowNothing'
  BY <1>2 DEF MInv, MountsShadowNothing, RootHas
<1> QED BY <1>1, <1>6, <1>7, <1>8, <1>9 DEF MInv

\* The whole invariant.
LEMMA MountsKept == Spec => []MInv
<1>1. Init => MInv
  <2> SUFFICES ASSUME Init PROVE MInv
    OBVIOUS
  <2>1. SInv
    <3>1. MadeIsNoValue
      BY PathsAreClosed DEF Init, DbInit, MadeIsNoValue
    <3> QED BY <3>1, InitTyped DEF SInv
  <2>2. Mounted = {} /\ clean = {} /\ \A c \in Caller : op[c] = "get" /\ pc[c] = "idle"
    BY DEF Init, Mounted
  <2> QED BY <2>1, <2>2 DEF MInv, TablesAreLeaves, Undisturbed, Unseen, CleanIsGuarded,
                            MountsShadowNothing
<1>2. MInv /\ [Next]_vars => MInv'
  <2> SUFFICES ASSUME MInv, [Next]_vars PROVE MInv'
    OBVIOUS
  <2>1. ASSUME NEW c \in Caller, Later(c) PROVE MInv'
    <3>1. SInv'
      BY <2>1, CallStepTyped DEF MInv, Later, CallStep
    <3> QED BY <2>1, <3>1, LaterKeepsUnseen, LaterKeepsMounts DEF MInv
  <2>2. ASSUME NEW c \in Caller, CallStep(c) PROVE MInv'
    BY <2>1, <2>2, StartKeepsMounts DEF CallStep, Later
  <2>3. CASE UNCHANGED vars
    <3>1. SInv'
      BY <2>3, StutterTyped DEF MInv
    <3>2. UNCHANGED <<values, dirs, mounts, pc, op, path, due, clean>>
      BY <2>3 DEF vars, db, call, kept
    <3> QED BY <3>1, <3>2 DEF MInv, TablesAreLeaves, Undisturbed, Unseen, CleanIsGuarded,
                              MountsShadowNothing, Makes, Running, RootHas, Mounted
  <2> QED BY <2>2, <2>3, UnmountKeepsMounts DEF Next
<1> QED BY <1>1, <1>2, PTL DEF Spec

\* mount_dir.rs:145-163: however mounts race, nothing is mounted below a table.
THEOREM TablesStayLeaves == Spec => []TablesAreLeaves
<1>1. MInv => TablesAreLeaves
  BY DEF MInv
<1> QED BY <1>1, MountsKept, PTL

\* mount_dir.rs:136-141: a mount that no set of its name and no mkdir of the name or of what
\* leads to it overlapped shadows no directory and no value of its plain symbol, neither when
\* it is made nor later, by whichever spelling things are made and written.
THEOREM NothingIsShadowed == Spec => []MountsShadowNothing
<1>1. MInv => MountsShadowNothing
  BY DEF MInv
<1> QED BY <1>1, MountsKept, PTL

-------------------------------------------------------------------------------
\* Reading what was written

\* Where resolve_current takes a call in directory q: a store, and how much of the path
\* leads to it.
Route(q, s, b) ==
    \/ MountsAbove(q) = {} /\ s = Root /\ b = 0
    \/ \E m \in MountsAbove(q) : /\ IsLongest(m, q) /\ (mounts[m].kind # "table" \/ m = q)
                                 /\ s = mounts[m].store /\ b = Len(m)

\* The directories on the way from there, as far as the first d names of p.
Reach(p, s, b, d) == \A n \in b + 1..d : SubSeq(p, b + 1, n) \in dirs[s]

\* A get of p that nobody disturbs returns w.
Found(p, w) ==
    /\ p # <<>> /\ ChildPath(p) \notin Mounted
    /\ \E s \in Store, b \in 0..Len(p) : /\ Route(Parent(p), s, b) /\ Reach(p, s, b, Len(p) - 1)
                                         /\ values[s][Below(p, b)] = w

Quiet(p) == \A e \in Caller : Running(e) => ~Touches(op[e], path[e], p)

\* A store is at one place of the namespace.
Owns(s, b, p) == IF s = Root THEN b = 0 ELSE b = Len(Home[s]) /\ IsPrefix(Home[s], p)

Homed == \A m \in Mounted : Home[mounts[m].store] = m

Located == \A c \in Caller : Owns(node[c], base[c], path[c])

\* Who will promise runs alone.
Alone == \A c \in Caller : due[c] =>
            /\ Running(c)
            /\ \A e \in Caller \ {c} : Running(e) => ~Disturbs(op[e], path[e], op[c], path[c])

\* A call walks where a get would walk now.
OnRoute(c) == pc[c] = "walk" => Route(Parent(path[c]), node[c], base[c])

\* A writer that will promise, and what it has walked, which is still there.
Duty(c) == due[c] /\ op[c] \in {"put", "del"} =>
            /\ ChildPath(path[c]) \notin Mounted /\ OnRoute(c)
            /\ pc[c] = "walk" => Reach(path[c], node[c], base[c], depth[c])

Promised == \A p \in Path : word[p] # NoWord => Found(p, word[p]) /\ Quiet(p)

\* A get that must find what was promised.
Reads(c) == sure[c] # NoWord =>
            /\ op[c] = "get" /\ pc[c] \in {"resolve", "walk"} /\ OnRoute(c)
            /\ Found(path[c], sure[c]) /\ Quiet(path[c])

RInv == /\ SInv /\ Homed /\ Located /\ Alone /\ Promised
        /\ \A c \in Caller : Duty(c) /\ Reads(c)
        /\ misread = {}

\* What is below one mount is ordered as in the namespace.
LEMMA PrefixBelow ==
    ASSUME NEW p \in Path, NEW q \in Path, NEW h \in Path, IsPrefix(h, p), IsPrefix(h, q),
           NEW n \in Len(h)..Len(p),
           IsPrefix(Below(q, Len(h)), SubSeq(p, Len(h) + 1, n))
    PROVE  IsPrefix(q, p) /\ Len(q) <= n
<1> DEFINE b == Len(h)
           x == SubSeq(q, b + 1, Len(q))
           y == SubSeq(p, b + 1, n)
<1>1. /\ p \in Seq(Name) /\ q \in Seq(Name) /\ h \in Seq(Name)
      /\ Len(p) \in Nat /\ Len(q) \in Nat /\ b \in Nat
  BY PathParts
<1>2. /\ b <= Len(p) /\ b <= Len(q)
      /\ \A i \in 1..b : h[i] = p[i] /\ h[i] = q[i]
  BY <1>1, PrefixByEntries
<1>3. n \in Nat /\ b <= n /\ n <= Len(p)
  BY <1>1
<1>4. b \in 0..Len(q) /\ Len(q) \in b..Len(q) /\ b \in 0..Len(p) /\ n \in b..Len(p)
  BY <1>1, <1>2, <1>3
<1>5. x \in Seq(Name) /\ Len(x) = Len(q) - b /\ \A k \in 1..(Len(q) - b) : x[k] = q[b + k]
  BY <1>4, PathPart
<1>6. y \in Seq(Name) /\ Len(y) = n - b /\ \A k \in 1..(n - b) : y[k] = p[b + k]
  BY <1>4, PathPart
<1>7. Len(x) <= Len(y) /\ \A k \in 1..Len(x) : x[k] = y[k]
  <2>1. IsPrefix(x, y)
    BY DEF Below
  <2>2. x \in Seq(Name) /\ y \in Seq(Name)
    BY <1>5, <1>6
  <2> HIDE DEF x, y
  <2> QED BY <2>1, <2>2, PrefixByEntries
<1>8. Len(q) <= n
  BY <1>1, <1>3, <1>5, <1>6, <1>7
<1>9. ASSUME NEW i \in 1..Len(q) PROVE q[i] = p[i]
  <2>1. CASE i <= b
    BY <1>1, <1>2, <2>1
  <2>2. CASE b < i
    <3>1. PICK k \in 1..(Len(q) - b) : i = b + k
      <4>1. i - b \in 1..(Len(q) - b) /\ i = b + (i - b)
        BY <1>1, <2>2
      <4> QED BY <4>1
    <3>2. k \in 1..(n - b)
      BY <1>1, <1>3, <1>8
    <3> QED BY <1>5, <1>6, <1>7, <3>1, <3>2
  <2> QED BY <1>1, <2>1, <2>2
<1> QED BY <1>1, <1>3, <1>8, <1>9, PrefixByEntries

\* Two paths that lead to each other are one.
LEMMA PrefixesAgree ==
    ASSUME NEW p \in Path, NEW q \in Path, IsPrefix(p, q), Len(q) <= Len(p)
    PROVE  p = q
<1>1. p \in Seq(Name) /\ q \in Seq(Name) /\ Len(p) \in Nat /\ Len(q) \in Nat
  BY PathParts
<1>2. Len(p) <= Len(q) /\ \A i \in 1..Len(p) : p[i] = q[i]
  BY <1>1, PrefixByEntries
<1> QED BY <1>1, <1>2, SeqEqual

\* A path that leads to the parent leads to the child.
LEMMA PrefixOfParent ==
    ASSUME NEW p \in Path, p # <<>>, NEW m \in Path, IsPrefix(m, Parent(p))
    PROVE  IsPrefix(m, p) /\ Len(m) <= Len(p) - 1
<1>1. /\ p \in Seq(Name) /\ m \in Seq(Name) /\ Len(p) \in Nat /\ Len(m) \in Nat
      /\ Parent(p) \in Path /\ Len(p) >= 1 /\ Len(Parent(p)) = Len(p) - 1
  BY PathParts
<1>2. \A k \in 1..(Len(p) - 1) : Parent(p)[k] = p[k]
  BY ParentNames
<1>3. Len(m) <= Len(p) - 1 /\ \A i \in 1..Len(m) : m[i] = Parent(p)[i]
  <2>1. Parent(p) \in Seq(Name)
    BY <1>1, PathParts
  <2> QED BY <1>1, <2>1, PrefixByEntries
<1>4. \A i \in 1..Len(m) : m[i] = p[i]
  BY <1>1, <1>2, <1>3
<1> QED BY <1>1, <1>3, <1>4, PrefixByEntries

\* What leads to the child and is shorter leads to the parent.
LEMMA PrefixToParent ==
    ASSUME NEW p \in Path, p # <<>>, NEW m \in Path, IsPrefix(m, p), Len(m) < Len(p)
    PROVE  IsPrefix(m, Parent(p))
<1>1. /\ p \in Seq(Name) /\ m \in Seq(Name) /\ Len(p) \in Nat /\ Len(m) \in Nat
      /\ Parent(p) \in Seq(Name) /\ Len(Parent(p)) = Len(p) - 1
      /\ \A k \in 1..(Len(p) - 1) : Parent(p)[k] = p[k]
  BY PathParts, ParentNames
<1>2. \A i \in 1..Len(m) : m[i] = p[i]
  BY <1>1, PrefixByEntries
<1>3. Len(m) <= Len(Parent(p)) /\ \A i \in 1..Len(m) : m[i] = Parent(p)[i]
  BY <1>1, <1>2
<1> QED BY <1>1, <1>3, PrefixByEntries

\* The parent below a directory is the parent, below it.
LEMMA ParentBelow ==
    ASSUME NEW p \in Path, p # <<>>, NEW b \in 0..(Len(p) - 1)
    PROVE  Parent(Below(p, b)) = Below(Parent(p), b)
<1> DEFINE x == Below(p, b)
           u == Parent(p)
<1>1. /\ Len(p) \in Nat /\ Len(p) >= 1 /\ b \in Nat /\ b <= Len(p) - 1
      /\ u \in Path /\ Len(u) = Len(p) - 1 /\ \A k \in 1..(Len(p) - 1) : u[k] = p[k]
  BY PathParts, ParentNames
<1>2. /\ x \in Path /\ Len(x) = Len(p) - b /\ \A k \in 1..(Len(p) - b) : x[k] = p[b + k]
  <2>1. b \in 0..Len(p) /\ Len(p) \in b..Len(p)
    BY <1>1
  <2> QED BY <2>1, PathPart DEF Below
<1>3. x # <<>>
  BY <1>1, <1>2, EmptySeq
<1>4. /\ Parent(x) \in Seq(Name) /\ Len(Parent(x)) = Len(p) - b - 1
      /\ \A k \in 1..(Len(p) - b - 1) : Parent(x)[k] = x[k]
  BY <1>2, <1>3, ParentNames, PathParts
<1>5. /\ Below(u, b) \in Seq(Name) /\ Len(Below(u, b)) = Len(p) - 1 - b
      /\ \A k \in 1..(Len(p) - 1 - b) : Below(u, b)[k] = u[b + k]
  <2>1. b \in 0..Len(u) /\ Len(u) \in b..Len(u)
    BY <1>1
  <2> QED BY <1>1, <2>1, PathPart DEF Below
<1>6. Len(p) - b - 1 = Len(p) - 1 - b
  BY <1>1
<1>7. ASSUME NEW k \in 1..(Len(p) - 1 - b) PROVE Parent(x)[k] = Below(u, b)[k]
  <2>1. k \in 1..(Len(p) - b) /\ b + k \in 1..(Len(p) - 1)
    BY <1>1
  <2> QED BY <1>1, <1>2, <1>4, <1>5, <1>6, <2>1
<1> QED BY <1>4, <1>5, <1>6, <1>7, SeqEqual

\* Of the paths that lead to q at most one has a given length.
LEMMA PrefixesOfOne ==
    ASSUME NEW q \in Path, NEW m \in Path, NEW n \in Path, IsPrefix(m, q), IsPrefix(n, q),
           Len(m) = Len(n)
    PROVE  m = n
<1>1. q \in Seq(Name) /\ m \in Seq(Name) /\ n \in Seq(Name) /\ Len(m) \in Nat
  BY PathParts
<1>2. \A i \in 1..Len(m) : m[i] = q[i] /\ n[i] = q[i]
  BY <1>1, PrefixByEntries
<1> QED BY <1>1, <1>2, SeqEqual

\* A name has one route.
LEMMA RouteIsOne ==
    ASSUME NEW q \in Path, NEW s, NEW b, NEW t, NEW a, Route(q, s, b), Route(q, t, a)
    PROVE  s = t /\ b = a
<1>1. CASE MountsAbove(q) = {}
  BY <1>1 DEF Route
<1>2. ASSUME NEW m \in MountsAbove(q), NEW n \in MountsAbove(q), IsLongest(m, q), IsLongest(n, q)
      PROVE  m = n
  <2>1. m \in Path /\ n \in Path /\ IsPrefix(m, q) /\ IsPrefix(n, q)
    BY DirPaths DEF MountsAbove, Mounted
  <2>2. Len(m) \in Nat /\ Len(n) \in Nat /\ Len(m) <= Len(n) /\ Len(n) <= Len(m)
    BY <1>2, <2>1, PathParts DEF IsLongest
  <2>3. Len(m) = Len(n)
    BY <2>2
  <2> QED BY <2>1, <2>3, PrefixesOfOne
<1>3. CASE MountsAbove(q) # {}
  BY <1>2, <1>3 DEF Route
<1> QED BY <1>1, <1>3

\* It leads to the store that is at home there.
LEMMA RouteOwns ==
    ASSUME Typed, Homed, NEW q \in Path, NEW s, NEW b, Route(q, s, b)
    PROVE  s \in Store /\ b \in 0..Len(q) /\ Owns(s, b, q)
<1>1. CASE s = Root /\ b = 0
  BY <1>1, PathParts, MountSentinels DEF Owns
<1>2. CASE \E m \in MountsAbove(q) : s = mounts[m].store /\ b = Len(m)
  <2>1. PICK m \in MountsAbove(q) : s = mounts[m].store /\ b = Len(m)
    BY <1>2
  <2>2. m \in Mounted /\ m \in Path /\ IsPrefix(m, q) /\ mounts[m] \in Mount
    BY DirPaths DEF MountsAbove, Mounted, Typed
  <2>3. s \in Store /\ s # Root /\ Home[s] = m
    BY <2>1, <2>2 DEF Mount, Kind, Target, Homed
  <2>4. b \in 0..Len(q)
    BY <2>1, <2>2, PathParts DEF IsPrefix
  <2> QED BY <2>1, <2>2, <2>3, <2>4 DEF Owns
<1> QED BY <1>1, <1>2 DEF Route

\* What is not mounted or unmounted on the way to p changes no route to it.
LEMMA RouteKept ==
    ASSUME NEW p \in Path, p # <<>>,
           \A m \in DirPath : IsPrefix(m, ChildPath(p)) => mounts'[m] = mounts[m]
    PROVE  /\ ChildPath(p) \notin Mounted => ChildPath(p) \notin Mounted'
           /\ \A s, b : Route(Parent(p), s, b) => Route(Parent(p), s, b)'
<1>1. /\ ChildPath(p) \in Path /\ ChildPath(p) # <<>> /\ Parent(ChildPath(p)) = Parent(p)
      /\ ChildPath(p) \in DirPath /\ IsPrefix(ChildPath(p), ChildPath(p))
  BY ChildParts, PathParts, PrefixReflexive
<1>2. \A m \in DirPath : IsPrefix(m, Parent(p)) => mounts'[m] = mounts[m]
  <2>1. ASSUME NEW m \in DirPath, IsPrefix(m, Parent(p)) PROVE IsPrefix(m, ChildPath(p))
    <3>1. m \in Path /\ IsPrefix(m, Parent(ChildPath(p)))
      BY <1>1, <2>1, DirPaths
    <3> QED BY <1>1, <3>1, PrefixOfParent
  <2> QED BY <2>1
<1>3. /\ MountsAbove(Parent(p))' = MountsAbove(Parent(p))
      /\ \A m \in MountsAbove(Parent(p)) : mounts'[m] = mounts[m]
  BY <1>2 DEF MountsAbove, Mounted
<1> QED BY <1>1, <1>3 DEF Route, IsLongest, Mounted

-------------------------------------------------------------------------------
\* What a call does at its place

\* The place of store s in the namespace.
Place(s) == IF s = Root THEN <<>> ELSE Home[s]

LEMMA PlaceOfOwner ==
    ASSUME NEW s \in Store, NEW b, NEW p \in Path, Owns(s, b, p)
    PROVE  /\ Place(s) \in DirPath /\ Place(s) \in Path /\ IsPrefix(Place(s), p) /\ b = Len(Place(s))
           /\ b \in 0..Len(p)
<1>1. Place(s) \in DirPath /\ Place(s) \in Path
  BY DirPaths, MountSentinels DEF Place, Target
<1>2. Len(<<>>) = 0 /\ p \in Seq(Name) /\ Len(p) \in Nat
  BY EmptySeq, PathParts
<1>3. IsPrefix(<<>>, p)
  <2>1. ASSUME NEW e \in Seq(Name), Len(e) = 0 PROVE IsPrefix(e, p)
    <3>1. Len(e) <= Len(p) /\ \A i \in 1..Len(e) : e[i] = p[i]
      BY <1>2, <2>1
    <3> QED BY <1>2, <3>1, PrefixByEntries
  <2>2. <<>> \in Seq(Name)
    BY EmptySeq
  <2> QED BY <1>2, <2>1, <2>2
<1>4. IsPrefix(Place(s), p) /\ b = Len(Place(s))
  BY <1>2, <1>3 DEF Owns, Place
<1> QED BY <1>1, <1>2, <1>4, PathParts DEF IsPrefix

\* In one store the names below are equal, above or inside as the paths are.
LEMMA BelowOne ==
    ASSUME NEW s \in Store, NEW b, NEW p \in Path, NEW q \in Path,
           Owns(s, b, p), Owns(s, b, q), NEW n \in b..Len(p),
           IsPrefix(Below(q, b), SubSeq(p, b + 1, n))
    PROVE  IsPrefix(q, p) /\ Len(q) <= n
BY PlaceOfOwner, PrefixBelow

LEMMA SameBelow ==
    ASSUME NEW s \in Store, NEW b, NEW p \in Path, NEW q \in Path,
           Owns(s, b, p), Owns(s, b, q), Below(p, b) = Below(q, b)
    PROVE  p = q
<1>1. /\ b \in 0..Len(p) /\ b \in 0..Len(q) /\ Len(p) \in Nat /\ Len(q) \in Nat
  BY PlaceOfOwner, PathParts
<1>2. Below(q, b) \in Seq(Name)
  <2>1. Len(q) \in b..Len(q)
    BY <1>1
  <2> QED BY <1>1, <2>1, PathPart DEF Below
<1>3. IsPrefix(Below(q, b), SubSeq(p, b + 1, Len(p)))
  BY <1>2, PrefixReflexive DEF Below
<1>4. Len(p) \in b..Len(p)
  BY <1>1
<1>5. IsPrefix(q, p) /\ Len(q) <= Len(p)
  BY <1>3, <1>4, BelowOne
<1>6. IsPrefix(Below(p, b), SubSeq(q, b + 1, Len(q))) /\ Len(q) \in b..Len(q)
  <2>1. IsPrefix(Below(p, b), Below(q, b))
    BY <1>2, PrefixReflexive
  <2>2. Below(q, b) = SubSeq(q, b + 1, Len(q))
    BY DEF Below
  <2> QED BY <1>1, <2>1, <2>2
<1>7. Len(p) <= Len(q)
  BY <1>6, BelowOne
<1> QED BY <1>5, <1>7, PrefixesAgree

\* The directory below a place is below it.
LEMMA ChildBelow ==
    ASSUME NEW p \in Path, NEW b \in 0..Len(p)
    PROVE  ChildPath(Below(p, b)) = Below(ChildPath(p), b)
<1> DEFINE x == Below(p, b)
           r == ChildPath(p)
<1>1. /\ Len(p) \in Nat /\ b \in Nat /\ b <= Len(p) /\ Len(p) \in b..Len(p)
      /\ r \in Path /\ Len(r) = Len(p) /\ \A i \in 1..Len(p) : r[i] = Local[p[i]]
  <2>1. Len(p) \in Nat
    BY PathParts
  <2> QED BY <2>1, ChildParts
<1>2. x \in Path /\ Len(x) = Len(p) - b /\ \A k \in 1..(Len(p) - b) : x[k] = p[b + k]
  BY <1>1, PathPart DEF Below
<1>3. /\ Below(r, b) \in Seq(Name) /\ Len(Below(r, b)) = Len(p) - b
      /\ \A k \in 1..(Len(p) - b) : Below(r, b)[k] = r[b + k]
  <2>1. b \in 0..Len(r) /\ Len(r) \in b..Len(r)
    BY <1>1
  <2> HIDE DEF r
  <2> QED BY <1>1, <2>1, PathPart DEF Below
<1>4. /\ ChildPath(x) \in Seq(Name) /\ Len(ChildPath(x)) = Len(p) - b
      /\ \A k \in 1..(Len(p) - b) : ChildPath(x)[k] = Local[x[k]]
  <2> HIDE DEF x
  <2> QED BY <1>2, ChildParts, PathParts
<1>5. ASSUME NEW k \in 1..(Len(p) - b) PROVE ChildPath(x)[k] = Below(r, b)[k]
  <2>1. b + k \in 1..Len(p)
    BY <1>1
  <2> QED BY <1>1, <1>2, <1>3, <1>4, <2>1
<1> QED BY <1>3, <1>4, <1>5, SeqEqual

\* A store that owns a name owns its directory.
LEMMA ChildOwned ==
    ASSUME NEW s \in Store, NEW b, NEW p \in Path, Owns(s, b, p)
    PROVE  ChildPath(p) \in Path /\ Owns(s, b, ChildPath(p))
<1>1. s # Root => Home[s] \in DirPath
  BY MountSentinels DEF Target
<1> QED BY <1>1, ChildParts, PrefixOfChildPath DEF Owns

\* A call that does not touch p leaves the way to p, and what is stored for it.
LEMMA ActKeeps ==
    ASSUME SInv, NEW c \in Caller, Act(c), Owns(node[c], base[c], path[c]),
           NEW p \in Path, p # <<>>, ~Touches(op[c], path[c], p),
           NEW s \in Store, NEW b, Owns(s, b, p), b < Len(p)
    PROVE  /\ \A n \in b + 1..Len(p) - 1 :
                 SubSeq(p, b + 1, n) \in dirs[s] => SubSeq(p, b + 1, n) \in dirs'[s]
           /\ values'[s][Below(p, b)] = values[s][Below(p, b)]
<1> DEFINE q == path[c]
           r == ChildPath(q)
           g == Goal(c)
           h == ChildPath(g)
           x == Below(p, b)
<1>1. Typed /\ Bounded(c) /\ DbTypeOK /\ pc[c] = "walk"
  BY DEF SInv, TInv, Typed, Act, Arrived
<1>2. node[c] \in Store /\ g \in Path /\ q \in Path /\ Len(q) \in Nat
  BY <1>1, GoalIsPath, PathParts DEF Typed
<1>3. b \in 0..Len(p) /\ Len(p) \in Nat /\ Len(p) \in b..Len(p)
  <2>1. b \in 0..Len(p) /\ Len(p) \in Nat
    BY PlaceOfOwner, PathParts
  <2> QED BY <2>1
<1>4. x \in Path
  BY <1>3, PathPart DEF Below
<1>5. ASSUME s = node[c] PROVE base[c] = b /\ Owns(s, b, q) /\ g = Below(q, b)
  BY <1>5 DEF Owns, Goal
<1>6. ASSUME s = node[c] PROVE r \in Path /\ Owns(s, b, r) /\ h = Below(r, b)
  <2>1. Owns(s, b, q) /\ g = Below(q, b) /\ s \in Store
    BY <1>5, <1>6
  <2>2. b \in 0..Len(q)
    BY <1>2, <2>1, PlaceOfOwner
  <2> QED BY <1>2, <2>1, <2>2, ChildOwned, ChildBelow
<1>7. ASSUME s = node[c], g = x PROVE q = p
  BY <1>2, <1>5, <1>7, SameBelow
<1>8. ASSUME s = node[c], NEW n \in b + 1..Len(p) - 1, IsPrefix(h, SubSeq(p, b + 1, n))
      PROVE  IsStrictPrefix(r, p)
  <2>1. n \in b..Len(p) /\ n < Len(p)
    BY <1>3
  <2>2. r \in Path /\ Owns(s, b, r) /\ h = Below(r, b)
    BY <1>8, <1>6
  <2>3. IsPrefix(r, p) /\ Len(r) <= n
    BY <1>8, <2>1, <2>2, BelowOne
  <2>4. r # p
    BY <1>3, <2>1, <2>3
  <2> QED BY <2>3, <2>4 DEF IsStrictPrefix
<1>9. ASSUME s = node[c], IsStrictPrefix(h, x) PROVE IsStrictPrefix(r, p)
  <2>1. IsPrefix(h, SubSeq(p, b + 1, Len(p))) /\ h # x
    BY <1>9 DEF IsStrictPrefix, Below
  <2>2. r \in Path /\ Owns(s, b, r) /\ h = Below(r, b)
    BY <1>9, <1>6
  <2>3. IsPrefix(r, p)
    BY <1>3, <2>1, <2>2, BelowOne
  <2> QED BY <2>1, <2>2, <2>3 DEF IsStrictPrefix
<1>10. ASSUME s = node[c], InDir(x, g) PROVE Parent(p) = q
  <2>1. Parent(p) \in Path /\ Len(Parent(p)) = Len(p) - 1
    BY PathParts
  <2>2. Owns(s, b, Parent(p)) /\ Parent(x) = Below(Parent(p), b)
    <3>1. b \in 0..(Len(p) - 1)
      BY <1>3
    <3>2. Parent(x) = Below(Parent(p), b)
      BY <3>1, ParentBelow
    <3>3. Home[s] \in Path /\ IsPrefix(Home[s], p) /\ Len(Home[s]) < Len(p) =>
            IsPrefix(Home[s], Parent(p))
      BY PrefixToParent
    <3>4. s # Root => Home[s] \in Path
      BY DirPaths, MountSentinels DEF Target
    <3> QED BY <3>2, <3>3, <3>4 DEF Owns
  <2>3. Below(Parent(p), b) = Below(q, b)
    BY <1>5, <1>10, <2>2 DEF InDir
  <2> QED BY <1>2, <1>5, <1>10, <2>1, <2>2, <2>3, SameBelow
<1>11. ASSUME NEW v, op[c] \in {"put", "del"}, Put(node[c], g, v)
       PROVE  dirs' = dirs /\ values'[s][x] = values[s][x]
  <2>1. ~(s = node[c] /\ g = x)
    BY <1>7, <1>11 DEF Touches
  <2> QED BY <1>1, <1>2, <1>4, <1>11, <2>1 DEF Put, DbTypeOK
<1>12. CASE UNCHANGED db
  BY <1>12 DEF db
<1>13. CASE op[c] = "put" /\ \E v \in Value : DbSet(node[c], Goal(c), v)
  BY <1>11, <1>13 DEF DbSet
<1>14. CASE op[c] = "put" /\ \E e, v \in Value \union {Absent} : DbExchange(node[c], Goal(c), e, v)
  BY <1>11, <1>12, <1>14 DEF DbExchange
<1>15. CASE op[c] = "mkdir" /\ DbMkdir(node[c], Goal(c))
  BY <1>1, <1>2, <1>15 DEF DbMkdir, DbTypeOK
<1>16. CASE op[c] = "del" /\ DbDel(node[c], Goal(c))
  BY <1>11, <1>16 DEF DbDel
<1>17. CASE op[c] = "clear" /\ DbClear(node[c], Goal(c))
  <2>1. ~(s = node[c] /\ InDir(x, g))
    BY <1>10, <1>17 DEF Touches
  <2> QED BY <1>1, <1>2, <1>4, <1>17, <2>1 DEF DbClear, DbTypeOK
<1>18. CASE op[c] = "rmdir" /\ DbRmdir(node[c], Goal(c))
  <2>1. ~(s = node[c] /\ IsStrictPrefix(h, x))
    BY <1>9, <1>18 DEF Touches
  <2>2. values'[s][x] = values[s][x]
    BY <1>1, <1>2, <1>4, <1>18, <2>1 DEF DbRmdir, DbTypeOK
  <2>3. ASSUME NEW n \in b + 1..Len(p) - 1, SubSeq(p, b + 1, n) \in dirs[s]
        PROVE  SubSeq(p, b + 1, n) \in dirs'[s]
    <3>1. ~(s = node[c] /\ IsPrefix(h, SubSeq(p, b + 1, n)))
      BY <1>8, <1>18, <2>3 DEF Touches
    <3> QED BY <1>1, <1>2, <1>18, <2>3, <3>1 DEF DbRmdir, DbTypeOK
  <2> QED BY <2>2, <2>3
<1> QED BY <1>12, <1>13, <1>14, <1>15, <1>16, <1>17, <1>18, ActCases DEF ActsBy

-------------------------------------------------------------------------------
\* What others do

\* A step of c leaves the way to p, and what is stored for it, unless its call touches p.
Keeps(c) == \A p \in Path : p # <<>> /\ ~Touches(op[c], path[c], p) =>
    /\ ChildPath(p) \notin Mounted => ChildPath(p) \notin Mounted'
    /\ \A s, b : Route(Parent(p), s, b) => Route(Parent(p), s, b)'
    /\ \A s \in Store : \A b : Owns(s, b, p) /\ b < Len(p) =>
         /\ \A n \in b + 1..Len(p) - 1 :
              SubSeq(p, b + 1, n) \in dirs[s] => SubSeq(p, b + 1, n) \in dirs'[s]
         /\ values'[s][Below(p, b)] = values[s][Below(p, b)]

\* It ends the call of c.
Ended(c) ==
    /\ ~Running(c)' /\ op'[c] = "get" /\ path'[c] = <<>>
    /\ ~due'[c] /\ sure'[c] = NoWord /\ node'[c] = Root /\ base'[c] = 0

\* It is a step of no other call, and begins none.
Frame(c) ==
    /\ Running(c)
    /\ \A d \in Caller \ {c} :
         /\ pc'[d] = pc[d] /\ op'[d] = op[d] /\ path'[d] = path[d]
         /\ due'[d] = due[d] /\ sure'[d] = sure[d]
         /\ node'[d] = node[d] /\ base'[d] = base[d] /\ depth'[d] = depth[d]
    /\ \/ Ended(c)
       \/ /\ Running(c)' /\ op'[c] = op[c] /\ path'[c] = path[c]
          /\ due'[c] = due[c] /\ sure'[c] = sure[c]

LEMMA OwnsFromParent ==
    ASSUME NEW p \in Path, p # <<>>, NEW s \in Store, NEW b, Owns(s, b, Parent(p))
    PROVE  Owns(s, b, p) /\ b < Len(p) /\ b \in 0..Len(p)
<1>1. Parent(p) \in Path /\ Len(Parent(p)) = Len(p) - 1 /\ Len(p) \in Nat
  BY PathParts
<1>2. b \in 0..(Len(p) - 1)
  BY <1>1, PlaceOfOwner
<1>3. s # Root => Home[s] \in Path
  BY DirPaths, MountSentinels DEF Target
<1>4. s # Root => IsPrefix(Home[s], p)
  BY <1>3, PrefixOfParent DEF Owns
<1> QED BY <1>1, <1>2, <1>4 DEF Owns

\* Where a get of p goes.
LEMMA RouteTo ==
    ASSUME Typed, Homed, NEW p \in Path, p # <<>>, NEW s, NEW b, Route(Parent(p), s, b)
    PROVE  s \in Store /\ Owns(s, b, p) /\ b < Len(p) /\ b \in 0..Len(p)
<1>1. Parent(p) \in Path
  BY PathParts
<1>2. s \in Store /\ Owns(s, b, Parent(p))
  BY <1>1, RouteOwns
<1> QED BY <1>2, OwnsFromParent

LEMMA FoundKept ==
    ASSUME Typed, Homed, NEW c \in Caller, Keeps(c), NEW p \in Path, NEW w, Found(p, w),
           ~Touches(op[c], path[c], p)
    PROVE  Found(p, w)'
<1>1. p # <<>> /\ ChildPath(p) \notin Mounted'
  BY DEF Found, Keeps
<1>2. PICK s \in Store, b \in 0..Len(p) :
         /\ Route(Parent(p), s, b) /\ Reach(p, s, b, Len(p) - 1)
         /\ values[s][Below(p, b)] = w
  BY DEF Found
<1>3. Owns(s, b, p) /\ b < Len(p)
  BY <1>1, <1>2, RouteTo
<1>4. Route(Parent(p), s, b)'
  BY <1>1, <1>2 DEF Keeps
<1>5. /\ \A n \in b + 1..Len(p) - 1 :
           SubSeq(p, b + 1, n) \in dirs[s] => SubSeq(p, b + 1, n) \in dirs'[s]
      /\ values'[s][Below(p, b)] = values[s][Below(p, b)]
  BY <1>1, <1>3 DEF Keeps
<1>6. Reach(p, s, b, Len(p) - 1)'
  BY <1>2, <1>5 DEF Reach
<1> QED BY <1>1, <1>2, <1>4, <1>5, <1>6 DEF Found

LEMMA QuietKept ==
    ASSUME NEW c \in Caller, Frame(c), NEW p, Quiet(p)
    PROVE  Quiet(p)'
<1>1. \A e \in Caller : Running(e)' => Running(e) /\ op'[e] = op[e] /\ path'[e] = path[e]
  BY DEF Frame, Ended, Running
<1> QED BY <1>1 DEF Quiet, Touches

LEMMA AloneKept ==
    ASSUME Alone, NEW c \in Caller, Frame(c)
    PROVE  Alone'
<1>1. \A e \in Caller : Running(e)' => Running(e) /\ op'[e] = op[e] /\ path'[e] = path[e]
  BY DEF Frame, Ended, Running
<1>2. \A d \in Caller : due'[d] => /\ due[d] /\ op'[d] = op[d] /\ path'[d] = path[d]
                                   /\ Running(d) => Running(d)'
  BY DEF Frame, Ended, Running
<1> QED BY <1>1, <1>2 DEF Alone, Disturbs, MakesWay, Touches

\* The end of a writer's walk is the directory of its name.
LEMMA WriterPath ==
    ASSUME TInv, NEW d \in Caller, op[d] \in {"put", "del", "get"}, Running(d)
    PROVE  /\ path[d] \in Path /\ path[d] # <<>> /\ Handle(d) = Parent(path[d])
           /\ Len(path[d]) \in Nat /\ Len(Handle(d)) = Len(path[d]) - 1
           /\ pc[d] = "walk" => /\ base[d] \in Nat /\ depth[d] \in Nat /\ base[d] <= depth[d]
                                /\ depth[d] <= Len(path[d]) - 1 /\ base[d] < Len(path[d])
<1>1. Typed /\ Bounded(d) /\ op[d] \notin OnHandle
  BY DEF TInv, OnHandle
<1>2. path[d] \in Path /\ path[d] # <<>> /\ Handle(d) = Parent(path[d])
  BY <1>1, HandleIsPath DEF Typed, Handle
<1>3. Len(path[d]) \in Nat /\ Len(Handle(d)) = Len(path[d]) - 1
  BY <1>2, PathParts
<1>4. base[d] \in Nat /\ depth[d] \in Nat
  BY <1>1 DEF Typed
<1> QED BY <1>1, <1>2, <1>3, <1>4 DEF Bounded

LEMMA OthersKept ==
    ASSUME RInv, NEW c \in Caller, Frame(c), Keeps(c), NEW d \in Caller \ {c}
    PROVE  Duty(d)' /\ Reads(d)'
<1>1. TInv /\ Typed /\ Homed /\ Duty(d) /\ Reads(d) /\ Owns(node[d], base[d], path[d])
  BY DEF RInv, SInv, TInv, Located
<1>2. /\ pc'[d] = pc[d] /\ op'[d] = op[d] /\ path'[d] = path[d]
      /\ due'[d] = due[d] /\ sure'[d] = sure[d]
      /\ node'[d] = node[d] /\ base'[d] = base[d] /\ depth'[d] = depth[d]
  BY DEF Frame
<1>3. ASSUME NEW p \in Path, p # <<>>, ~Touches(op[c], path[c], p), p = path[d], OnRoute(d)
      PROVE  OnRoute(d)'
  BY <1>2, <1>3 DEF OnRoute, Keeps
<1>4. Reads(d)'
  <2>1. SUFFICES ASSUME sure[d] # NoWord PROVE Reads(d)'
    BY <1>2 DEF Reads
  <2>2. /\ op[d] = "get" /\ pc[d] \in {"resolve", "walk"} /\ OnRoute(d)
        /\ Found(path[d], sure[d]) /\ Quiet(path[d])
    BY <1>1, <2>1 DEF Reads
  <2>3. PICK p, w : p \in Path /\ p = path[d] /\ w = sure[d]
    BY <1>1 DEF Typed
  <2>4. p # <<>> /\ Found(p, w) /\ Quiet(p)
    BY <2>2, <2>3 DEF Found
  <2>5. ~Touches(op[c], path[c], p)
    BY <2>4 DEF Quiet, Frame
  <2>6. Found(p, w)' /\ Quiet(p)'
    BY <1>1, <2>3, <2>4, <2>5, FoundKept, QuietKept
  <2>7. OnRoute(d)'
    BY <1>3, <2>2, <2>3, <2>4, <2>5
  <2>8. p = path'[d] /\ w = sure'[d]
    BY <1>2, <2>3
  <2>9. Found(path[d], sure[d])' /\ Quiet(path[d])'
    BY <2>6, <2>8 DEF Found, Quiet
  <2> QED BY <1>2, <2>2, <2>7, <2>9 DEF Reads
<1>5. Duty(d)'
  <2>1. SUFFICES ASSUME due[d], op[d] \in {"put", "del"} PROVE Duty(d)'
    BY <1>2 DEF Duty
  <2>2. Running(d) /\ ~Disturbs(op[c], path[c], op[d], path[d])
    BY <2>1 DEF RInv, Alone, Frame
  <2>3. ~Touches(op[c], path[c], path[d]) /\ path[d] \in Path /\ path[d] # <<>>
    BY <1>1, <2>1, <2>2, WriterPath DEF Disturbs
  <2>4. ChildPath(path[d]) \notin Mounted /\ OnRoute(d)
    BY <1>1, <2>1 DEF Duty
  <2>5. OnRoute(d)' /\ ChildPath(path[d]) \notin Mounted'
    BY <1>3, <2>3, <2>4 DEF Keeps
  <2>6. ASSUME pc[d] = "walk" PROVE Reach(path[d], node[d], base[d], depth[d])'
    <3>1. /\ base[d] \in Nat /\ depth[d] \in Nat /\ depth[d] <= Len(path[d]) - 1
          /\ base[d] < Len(path[d]) /\ Len(path[d]) \in Nat /\ node[d] \in Store
      BY <1>1, <2>1, <2>2, <2>6, WriterPath DEF Typed
    <3>2. \A n \in base[d] + 1..Len(path[d]) - 1 :
             SubSeq(path[d], base[d] + 1, n) \in dirs[node[d]] =>
             SubSeq(path[d], base[d] + 1, n) \in dirs'[node[d]]
      BY <1>1, <2>3, <3>1 DEF Keeps
    <3>3. \A n \in base[d] + 1..depth[d] : /\ n \in base[d] + 1..Len(path[d]) - 1
                                           /\ SubSeq(path[d], base[d] + 1, n) \in dirs[node[d]]
      BY <1>1, <2>1, <2>6, <3>1 DEF Duty, Reach
    <3> QED BY <1>2, <3>2, <3>3 DEF Reach
  <2> QED BY <1>2, <2>5, <2>6 DEF Duty, Mounted
<1> QED BY <1>4, <1>5

\* A step keeps the invariant if it does for its own call, and keeps what was promised.
LEMMA StepKept ==
    ASSUME RInv, SInv', NEW c \in Caller, Frame(c), Keeps(c), Homed',
           Owns(node[c], base[c], path[c])', Duty(c)', Reads(c)', misread' = {},
           \A p \in Path : word'[p] = word[p] \/ (Found(p, word[p])' /\ Quiet(p)')
    PROVE  RInv'
<1>1. Typed /\ Homed /\ Located /\ Alone /\ Promised
  BY DEF RInv, SInv, TInv
<1>2. Alone'
  BY <1>1, AloneKept
<1>3. \A d \in Caller : Duty(d)' /\ Reads(d)'
  BY OthersKept
<1>4. Located'
  BY <1>1 DEF Located, Frame, Owns
<1>5. ASSUME NEW p \in Path, word'[p] # NoWord PROVE Found(p, word[p])' /\ Quiet(p)'
  <2>1. SUFFICES ASSUME word'[p] = word[p] PROVE Found(p, word[p])' /\ Quiet(p)'
    OBVIOUS
  <2>2. PICK w : w = word[p]
    OBVIOUS
  <2>3. Found(p, w) /\ Quiet(p)
    BY <1>1, <1>5, <2>1, <2>2 DEF Promised
  <2>4. ~Touches(op[c], path[c], p)
    BY <2>3 DEF Quiet, Frame
  <2>5. Found(p, w)' /\ Quiet(p)'
    BY <1>1, <2>3, <2>4, FoundKept, QuietKept
  <2> QED BY <2>1, <2>2, <2>5 DEF Found
<1>6. Promised'
  BY <1>5 DEF Promised
<1> QED BY <1>2, <1>3, <1>4, <1>6 DEF RInv

\* A step that leaves the stores and the registry keeps everything.
LEMMA SameKeeps ==
    ASSUME NEW c \in Caller, UNCHANGED <<db, mounts>>
    PROVE  Keeps(c) /\ (Homed => Homed')
<1>1. UNCHANGED <<values, dirs, mounts>>
  BY DEF db
<1>2. \A q, s, b : Route(q, s, b) => Route(q, s, b)'
  BY <1>1 DEF Route, MountsAbove, IsLongest, Mounted
<1> QED BY <1>1, <1>2 DEF Keeps, Homed, Mounted

\* A call that returns leaves nothing behind, and does not misread.
LEMMA ReturnFrame ==
    ASSUME RInv, NEW c \in Caller, Running(c), NEW outcome \in Outcomes, NEW r,
           Return(c, outcome, r), sure[c] \in {NoWord, r}
    PROVE  /\ Frame(c) /\ Ended(c) /\ misread' = {}
           /\ Owns(node[c], base[c], path[c])' /\ Duty(c)' /\ Reads(c)'
<1>1. Typed /\ misread = {}
  BY DEF RInv, SInv, TInv
<1>2. Ended(c)
  BY <1>1 DEF Return, Goto, Ended, Running, Typed
<1>3. \A d \in Caller \ {c} :
         /\ pc'[d] = pc[d] /\ op'[d] = op[d] /\ path'[d] = path[d]
         /\ due'[d] = due[d] /\ sure'[d] = sure[d]
         /\ node'[d] = node[d] /\ base'[d] = base[d] /\ depth'[d] = depth[d]
  BY <1>1 DEF Return, Goto, Typed
<1>4. misread' = {}
  BY <1>1 DEF Return
<1> QED BY <1>2, <1>3, <1>4 DEF Frame, Ended, Owns, Duty, Reads

\* Only a get that walks or is going to has anything to find.
LEMMA OthersFindNothing ==
    ASSUME RInv, NEW c \in Caller, op[c] # "get" \/ pc[c] \notin {"resolve", "walk"}
    PROVE  sure[c] = NoWord
BY DEF RInv, Reads

LEMMA ReturnKept ==
    ASSUME RInv, SInv', NEW c \in Caller, Running(c), NEW outcome \in Outcomes, NEW r,
           Return(c, outcome, r), sure[c] \in {NoWord, r}, Keeps(c), Homed',
           \A p \in Path : word'[p] = word[p] \/ (Found(p, word[p])' /\ Quiet(p)')
    PROVE  RInv'
BY ReturnFrame, StepKept

LEMMA EndsKept ==
    ASSUME RInv, SInv', NEW c \in Caller, Running(c), NEW outcome \in Outcomes,
           Ends(c, outcome), sure[c] = NoWord, Keeps(c)
    PROVE  RInv'
<1>1. Return(c, outcome, NoWord) /\ UNCHANGED <<mounts, word>>
  BY DEF Ends, kept
<1>2. Homed'
  BY <1>1 DEF RInv, Homed, Mounted
<1> QED BY <1>1, <1>2, ReturnKept

LEMMA ContinueFrame ==
    ASSUME RInv, NEW c \in Caller, Running(c), NEW step, step \notin Outcomes, Continue(c, step),
           \A d \in Caller \ {c} : node'[d] = node[d] /\ base'[d] = base[d] /\ depth'[d] = depth[d]
    PROVE  /\ Frame(c) /\ pc'[c] = step /\ misread' = {} /\ word' = word
           /\ op' = op /\ path' = path /\ due' = due /\ sure' = sure
<1>1. Typed /\ misread = {}
  BY DEF RInv, SInv, TInv
<1>2. /\ UNCHANGED <<op, path, due, sure, misread, word>>
      /\ pc'[c] = step /\ \A d \in Caller \ {c} : pc'[d] = pc[d]
  BY <1>1 DEF Continue, Goto, Typed, call, kept
<1> QED BY <1>1, <1>2 DEF Frame, Running

\* A call that goes on where it is, and no longer walks.
LEMMA StaysKept ==
    ASSUME RInv, SInv', NEW c \in Caller, Running(c), NEW step \in {"has", "insert", "list"},
           Continue(c, step), op[c] \in {"mount", "entries"}, UNCHANGED <<db, mounts, spot>>
    PROVE  RInv'
<1>1. step \notin Outcomes /\ step # "walk"
  BY DEF Outcomes
<1>2. UNCHANGED <<node, base, depth>>
  BY DEF spot
<1>3. /\ Frame(c) /\ pc'[c] = step /\ misread' = {} /\ word' = word
      /\ op' = op /\ path' = path /\ due' = due /\ sure' = sure
  BY <1>1, <1>2, ContinueFrame
<1>4. sure[c] = NoWord
  BY OthersFindNothing
<1>5. Duty(c)' /\ Reads(c)'
  BY <1>3, <1>4 DEF Duty, Reads
<1>6. Owns(node[c], base[c], path[c])'
  BY <1>2, <1>3 DEF RInv, Located, Owns
<1>7. Keeps(c) /\ Homed'
  BY SameKeeps DEF RInv
<1> QED BY <1>3, <1>5, <1>6, <1>7, StepKept

-------------------------------------------------------------------------------
\* The steps of a call

LEMMA ResolveReads ==
    ASSUME RInv, NEW c \in Caller, Resolve(c)
    PROVE  RInv'
<1>1. TInv /\ Typed /\ Placed(c) /\ Homed /\ Duty(c) /\ Reads(c) /\ SInv /\ Bounded(c)
  BY DEF RInv, SInv, TInv
<1>2. SInv'
  BY <1>1, ResolveTyped
<1>3. pc[c] = "resolve" /\ Running(c) /\ "walk" \notin Outcomes /\ "idle" \in Outcomes
  BY DEF Resolve, Running, Outcomes
<1>4. node[c] = Root /\ base[c] = 0 /\ depth[c] = 0
  BY <1>1, <1>3 DEF Placed, Bounded, Typed
<1>5. /\ Handle(c) \in Path
      /\ op[c] \in {"put", "del", "get"} => Handle(c) = Parent(path[c]) /\ path[c] # <<>>
  <2>1. Handle(c) \in Path
    BY <1>1, <1>3, HandleIsPath
  <2> QED BY <1>1, <1>3, <2>1, WriterPath
\* The walk begins where the registry says.
<1>6. ASSUME Continue(c, "walk"), UNCHANGED mounts,
             Owns(node'[c], base'[c], Handle(c)),
             op[c] \in {"put", "del", "get"} => Route(Handle(c), node'[c], base'[c]),
             depth'[c] = base'[c],
             \A d \in Caller \ {c} : node'[d] = node[d] /\ base'[d] = base[d] /\ depth'[d] = depth[d]
      PROVE  RInv'
  <2>1. /\ Frame(c) /\ pc'[c] = "walk" /\ misread' = {} /\ word' = word
        /\ op' = op /\ path' = path /\ due' = due /\ sure' = sure
    BY <1>3, <1>6, ContinueFrame
  <2>2. UNCHANGED <<db, mounts>> /\ UNCHANGED <<values, dirs>>
    BY <1>6 DEF Resolve, db
  <2>3. Keeps(c) /\ Homed'
    BY <1>1, <2>2, SameKeeps
  <2>4. Owns(node[c], base[c], path[c])'
    <3>1. node'[c] \in Store /\ path[c] \in Path
      BY <1>1, <1>2 DEF SInv, TInv, Typed
    <3>2. CASE op[c] \in OnHandle
      BY <1>6, <2>1, <3>2 DEF Handle, Owns
    <3>3. CASE op[c] \notin OnHandle
      <4>1. path[c] # <<>> /\ Handle(c) = Parent(path[c])
        BY <1>1, <1>3, <3>3, HandleIsPath DEF Handle
      <4>2. Owns(node'[c], base'[c], path[c])
        BY <1>6, <3>1, <4>1, OwnsFromParent
      <4> QED BY <2>1, <4>2 DEF Owns
    <3> QED BY <3>2, <3>3
  <2>5. OnRoute(c)' \/ op[c] \notin {"put", "del", "get"}
    <3>1. \A q, s, b : Route(q, s, b) => Route(q, s, b)'
      BY <2>2 DEF Route, MountsAbove, IsLongest, Mounted
    <3>2. SUFFICES ASSUME op[c] \in {"put", "del", "get"} PROVE OnRoute(c)'
      OBVIOUS
    <3>3. PICK q, s, b : q = Parent(path[c]) /\ s = node'[c] /\ b = base'[c]
      OBVIOUS
    <3>4. Route(q, s, b)'
      BY <1>5, <1>6, <3>1, <3>2, <3>3
    <3> QED BY <2>1, <3>3, <3>4 DEF OnRoute, Route
  <2>6. Duty(c)'
    <3>1. \A n : n \in base'[c] + 1..depth'[c] => FALSE
      <4>1. base'[c] \in Nat
        BY <1>2 DEF SInv, TInv, Typed
      <4> QED BY <1>6, <4>1
    <3> QED BY <1>1, <2>1, <2>2, <2>5, <3>1 DEF Duty, Reach, Mounted
  <2>7. Reads(c)'
    <3>1. SUFFICES ASSUME sure[c] # NoWord PROVE Reads(c)'
      BY <2>1 DEF Reads
    <3>2. op[c] = "get" /\ Found(path[c], sure[c]) /\ Quiet(path[c])
      BY <1>1, <3>1 DEF Reads
    <3>3. PICK p, w : p \in Path /\ p = path[c] /\ w = sure[c]
      BY <1>1 DEF Typed
    <3>4. Found(p, w)' /\ Quiet(p)'
      <4>1. ~Touches(op[c], path[c], p)
        BY <3>2 DEF Touches
      <4> QED BY <1>1, <2>1, <2>3, <3>2, <3>3, <4>1, FoundKept, QuietKept
    <3>5. Found(path[c], sure[c])' /\ Quiet(path[c])'
      BY <2>1, <3>3, <3>4 DEF Found, Quiet
    <3> QED BY <2>1, <2>5, <3>2, <3>5 DEF Reads
  <2> QED BY <1>2, <2>1, <2>3, <2>4, <2>6, <2>7, StepKept
<1>7. CASE /\ MountsAbove(Handle(c)) = {}
           /\ Continue(c, "walk") /\ UNCHANGED <<mounts, listing, node, base, depth>>
  <2>1. Route(Handle(c), node'[c], base'[c]) /\ Owns(node'[c], base'[c], Handle(c))
    BY <1>4, <1>7 DEF Route, Owns
  <2> QED BY <1>4, <1>6, <1>7, <2>1
<1>8. ASSUME NEW m \in MountsAbove(Handle(c)), IsLongest(m, Handle(c)),
             ~(mounts[m].kind = "table" /\ m # Handle(c)),
             node' = [node EXCEPT ![c] = mounts[m].store], base' = [base EXCEPT ![c] = Len(m)],
             depth' = [depth EXCEPT ![c] = Len(m)], Continue(c, "walk"), UNCHANGED mounts
      PROVE  RInv'
  <2>1. /\ node'[c] = mounts[m].store /\ base'[c] = Len(m) /\ depth'[c] = Len(m)
        /\ \A d \in Caller \ {c} : node'[d] = node[d] /\ base'[d] = base[d] /\ depth'[d] = depth[d]
    BY <1>1, <1>8 DEF Typed
  <2>2. Route(Handle(c), node'[c], base'[c])
    BY <1>8, <2>1 DEF Route
  <2>3. Owns(node'[c], base'[c], Handle(c))
    BY <1>1, <1>5, <2>2, RouteOwns
  <2> QED BY <1>6, <1>8, <2>1, <2>2, <2>3
\* No get that was promised anything comes to a table on its way.
<1>9. ASSUME NEW m \in MountsAbove(Handle(c)), IsLongest(m, Handle(c)),
             mounts[m].kind = "table", m # Handle(c), Ends(c, "idle")
      PROVE  RInv'
  <2>1. sure[c] = NoWord
    <3>1. SUFFICES ASSUME sure[c] # NoWord PROVE FALSE
      OBVIOUS
    <3>2. op[c] = "get" /\ Found(path[c], sure[c]) /\ Handle(c) = Parent(path[c])
      BY <1>1, <1>5, <3>1 DEF Reads
    <3>3. PICK s, b : Route(Handle(c), s, b)
      BY <3>2 DEF Found
    <3>4. PICK n \in MountsAbove(Handle(c)) :
             IsLongest(n, Handle(c)) /\ (mounts[n].kind # "table" \/ n = Handle(c))
      BY <3>3 DEF Route
    <3>5. m \in Path /\ n \in Path /\ IsPrefix(m, Handle(c)) /\ IsPrefix(n, Handle(c))
      BY DirPaths DEF MountsAbove, Mounted
    <3>6. Len(m) = Len(n)
      <4>1. Len(m) \in Nat /\ Len(n) \in Nat /\ Len(m) <= Len(n) /\ Len(n) <= Len(m)
        BY <1>9, <3>4, <3>5, PathParts DEF IsLongest
      <4> QED BY <4>1
    <3>7. m = n
      BY <1>5, <3>5, <3>6, PrefixesOfOne
    <3> QED BY <1>9, <3>4, <3>7
  <2>2. Keeps(c)
    BY <1>9, SameKeeps DEF Resolve, Ends
  <2> QED BY <1>2, <1>3, <1>9, <2>1, <2>2, EndsKept
<1> QED BY <1>7, <1>8, <1>9 DEF Resolve

\* A get that must find something finds every directory on its way, and then its value.
LEMMA GetFinds ==
    ASSUME RInv, NEW c \in Caller, pc[c] = "walk", sure[c] # NoWord
    PROVE  /\ op[c] = "get" /\ Handle(c) = Parent(path[c])
           /\ Walks(c) => Reached(c, depth[c] + 1) \in dirs[node[c]]
           /\ values[node[c]][Goal(c)] = sure[c]
<1>1. TInv /\ Reads(c) /\ Running(c)
  BY DEF RInv, SInv, Running, Outcomes
<1>2. op[c] = "get" /\ Route(Parent(path[c]), node[c], base[c]) /\ Found(path[c], sure[c])
  BY <1>1 DEF Reads, OnRoute
<1>3. /\ path[c] \in Path /\ path[c] # <<>> /\ Handle(c) = Parent(path[c])
      /\ Len(path[c]) \in Nat /\ Len(Handle(c)) = Len(path[c]) - 1
      /\ base[c] \in Nat /\ depth[c] \in Nat /\ base[c] <= depth[c]
  BY <1>1, <1>2, WriterPath
<1>4. PICK s \in Store, b \in 0..Len(path[c]) :
         /\ Route(Parent(path[c]), s, b) /\ Reach(path[c], s, b, Len(path[c]) - 1)
         /\ values[s][Below(path[c], b)] = sure[c]
  BY <1>2 DEF Found
<1>5. s = node[c] /\ b = base[c]
  <2>1. Parent(path[c]) \in Path
    BY <1>3, PathParts
  <2> QED BY <1>2, <1>4, <2>1, RouteIsOne
<1>6. ASSUME Walks(c) PROVE Reached(c, depth[c] + 1) \in dirs[node[c]]
  <2>1. depth[c] + 1 \in base[c] + 1..Len(path[c]) - 1
    BY <1>3, <1>6 DEF Walks
  <2> QED BY <1>4, <1>5, <2>1 DEF Reach, Reached
<1> QED BY <1>2, <1>3, <1>4, <1>5, <1>6 DEF Goal

\* With the same registry a route is what it was.
LEMMA SameRoutes ==
    ASSUME UNCHANGED mounts
    PROVE  \A q, s, b : Route(q, s, b) => Route(q, s, b)'
BY DEF Route, MountsAbove, IsLongest, Mounted

LEMMA WalkReads ==
    ASSUME RInv, NEW c \in Caller, Walk(c)
    PROVE  RInv'
<1>1. TInv /\ Typed /\ Homed /\ Duty(c) /\ Reads(c) /\ SInv
  BY DEF RInv, SInv, TInv
<1>2. SInv' /\ UNCHANGED db /\ UNCHANGED <<values, dirs>>
  BY <1>1, WalkTyped DEF Walk, db
<1>3. pc[c] = "walk" /\ Walks(c) /\ Running(c) /\ "idle" \in Outcomes
  BY DEF Walk, Running, Outcomes
<1>4. CASE /\ Reached(c, depth[c] + 1) \in dirs[node[c]]
           /\ depth' = [depth EXCEPT ![c] = @ + 1]
           /\ UNCHANGED <<mounts, pc, call, node, base, virt, listing, misread, kept>>
  <2>1. /\ UNCHANGED <<mounts, pc, op, path, due, sure, node, base, misread, word>>
        /\ depth'[c] = depth[c] + 1 /\ \A d \in Caller \ {c} : depth'[d] = depth[d]
    BY <1>1, <1>4 DEF call, kept, Typed
  <2>2. Frame(c)
    BY <1>3, <2>1 DEF Frame, Running
  <2>3. Keeps(c) /\ Homed' /\ Owns(node[c], base[c], path[c])'
    BY <1>2, <2>1, SameKeeps DEF RInv, Located, Owns
  <2>4. OnRoute(c) => OnRoute(c)'
    <3>1. PICK q, s, b : q = Parent(path[c]) /\ s = node[c] /\ b = base[c]
      OBVIOUS
    <3>2. Route(q, s, b) => Route(q, s, b)'
      BY <2>1, SameRoutes
    <3> QED BY <2>1, <3>1, <3>2 DEF OnRoute, Route
  <2>5. Duty(c)'
    <3>1. SUFFICES ASSUME due[c], op[c] \in {"put", "del"} PROVE Duty(c)'
      BY <2>1 DEF Duty
    <3>2. ChildPath(path[c]) \notin Mounted /\ OnRoute(c) /\ Reach(path[c], node[c], base[c], depth[c])
      BY <1>1, <1>3, <3>1 DEF Duty
    <3>3. base[c] \in Nat /\ depth[c] \in Nat
      BY <1>1 DEF Typed
    <3>4. ASSUME NEW n \in base[c] + 1..depth[c] + 1
          PROVE  SubSeq(path[c], base[c] + 1, n) \in dirs[node[c]]
      <4>1. CASE n = depth[c] + 1
        BY <1>4, <4>1 DEF Reached
      <4>2. CASE n # depth[c] + 1
        <5>1. n \in base[c] + 1..depth[c]
          BY <3>3, <4>2
        <5> QED BY <3>2, <5>1 DEF Reach
      <4> QED BY <4>1, <4>2
    <3> QED BY <1>2, <2>1, <2>4, <3>2, <3>4 DEF Duty, Reach, Mounted
  <2>6. Reads(c)'
    <3>1. SUFFICES ASSUME sure[c] # NoWord PROVE Reads(c)'
      BY <2>1 DEF Reads
    <3>2. op[c] = "get" /\ Found(path[c], sure[c]) /\ Quiet(path[c]) /\ OnRoute(c)
      BY <1>1, <3>1 DEF Reads
    <3>3. PICK p, w : p \in Path /\ p = path[c] /\ w = sure[c]
      BY <1>1 DEF Typed
    <3>4. Found(p, w)' /\ Quiet(p)'
      <4>1. ~Touches(op[c], path[c], p)
        BY <3>2 DEF Touches
      <4> QED BY <1>1, <2>2, <2>3, <3>2, <3>3, <4>1, FoundKept, QuietKept
    <3>5. Found(path[c], sure[c])' /\ Quiet(path[c])'
      BY <2>1, <3>3, <3>4 DEF Found, Quiet
    <3> QED BY <1>3, <2>1, <2>4, <3>2, <3>5 DEF Reads
  <2> QED BY <1>2, <2>1, <2>2, <2>3, <2>5, <2>6, StepKept DEF RInv
<1>5. CASE Reached(c, depth[c] + 1) \notin dirs[node[c]]
  <2>1. sure[c] = NoWord
    BY <1>3, <1>5, GetFinds
  <2>2. ASSUME NEW r, Return(c, "idle", r), UNCHANGED <<mounts, kept>> PROVE RInv'
    <3>1. Keeps(c) /\ Homed' /\ word' = word
      BY <1>1, <1>2, <2>2, SameKeeps DEF kept
    <3> QED BY <1>2, <1>3, <2>1, <2>2, <3>1, ReturnKept
  <2>3. ASSUME NEW step \in {"insert", "list"}, op[c] \in {"mount", "entries"},
               Continue(c, step), UNCHANGED <<mounts, spot, listing>>
        PROVE  RInv'
    BY <1>2, <1>3, <2>3, StaysKept
  <2>4. \/ \E r : Return(c, "idle", r) /\ UNCHANGED <<mounts, kept>>
        \/ \E step \in {"insert", "list"} :
              /\ op[c] \in {"mount", "entries"} /\ Continue(c, step)
              /\ UNCHANGED <<mounts, spot, listing>>
    BY <1>5 DEF Walk, Misses, Ends
  <2> QED BY <2>2, <2>3, <2>4
<1> QED BY <1>4, <1>5 DEF Walk

\* A writer that was alone may promise what it has left.
LEMMA WritesPromise ==
    ASSUME RInv, SInv', NEW c \in Caller, Arrived(c), op[c] \in {"put", "del"}, Writes(c),
           UNCHANGED dirs, NEW p \in Path
    PROVE  word'[p] = word[p] \/ (Found(p, word[p])' /\ Quiet(p)')
<1>1. TInv /\ Typed /\ Duty(c) /\ pc[c] = "walk" /\ Running(c) /\ UNCHANGED mounts
  BY DEF RInv, SInv, TInv, Arrived, Running, Outcomes, Writes
<1>2. SUFFICES ASSUME due[c], p = path[c] PROVE Found(p, word[p])' /\ Quiet(p)'
  BY <1>1 DEF Writes, Typed
<1>3. word'[p] = values'[node[c]][Goal(c)]
  BY <1>1, <1>2 DEF Writes, Typed
<1>4. /\ path[c] # <<>> /\ Handle(c) = Parent(path[c])
      /\ Len(path[c]) \in Nat /\ Len(Handle(c)) = Len(path[c]) - 1
      /\ base[c] \in Nat /\ base[c] < Len(path[c])
  BY <1>1, WriterPath
<1>5. /\ ChildPath(p) \notin Mounted /\ Route(Parent(p), node[c], base[c])
      /\ Reach(p, node[c], base[c], Len(p) - 1)
  BY <1>1, <1>2, <1>4 DEF Duty, OnRoute, Arrived
<1>6. PICK s \in Store, b \in 0..Len(p) : s = node[c] /\ b = base[c]
  <2>1. base[c] \in 0..Len(p) /\ node[c] \in Store
    BY <1>1, <1>2, <1>4 DEF Typed
  <2> QED BY <2>1
<1>7. Route(Parent(p), s, b)' /\ Reach(p, s, b, Len(p) - 1)' /\ ChildPath(p) \notin Mounted'
  BY <1>1, <1>5, <1>6, SameRoutes DEF Reach, Mounted
<1>8. values'[s][Below(p, b)] = word'[p]
  BY <1>2, <1>3, <1>6 DEF Goal
<1>9. Found(p, word[p])'
  BY <1>2, <1>4, <1>7, <1>8 DEF Found
<1>10. Quiet(p)'
  <2>1. Return(c, "idle", NoWord)
    BY DEF Writes
  <2>2. /\ Frame(c) /\ Ended(c)
    BY <1>1, <2>1, ReturnFrame, OthersFindNothing DEF Outcomes
  <2>3. \A e \in Caller \ {c} : Running(e) => ~Touches(op[e], path[e], p)
    BY <1>2 DEF RInv, Alone, Disturbs
  <2> QED BY <2>2, <2>3 DEF Quiet, Frame, Ended, Running, Touches
<1> QED BY <1>9, <1>10

LEMMA ActReads ==
    ASSUME RInv, NEW c \in Caller, Act(c)
    PROVE  RInv'
<1>1. TInv /\ Typed /\ Homed /\ SInv /\ Owns(node[c], base[c], path[c])
  BY DEF RInv, SInv, TInv, Located
<1>2. SInv'
  BY <1>1, ActTyped
<1>3. pc[c] = "walk" /\ Running(c) /\ Arrived(c) /\ "idle" \in Outcomes /\ UNCHANGED mounts
  <2>1. UNCHANGED mounts
    BY ActCases DEF Writes, Ends
  <2> QED BY <2>1 DEF Act, Arrived, Running, Outcomes
<1>4. Keeps(c) /\ Homed'
  <2>1. \A q, s, b : Route(q, s, b) => Route(q, s, b)'
    BY <1>3, SameRoutes
  <2>2. \A p \in Path : ChildPath(p) \notin Mounted => ChildPath(p) \notin Mounted'
    BY <1>3 DEF Mounted
  <2> QED BY <1>1, <1>3, <2>1, <2>2, ActKeeps DEF Keeps, Homed, Mounted
<1>5. ASSUME op[c] = "get", Return(c, "idle", DbGet(node[c], Goal(c))), UNCHANGED kept
      PROVE  RInv'
  <2>1. sure[c] \in {NoWord, DbGet(node[c], Goal(c))}
    BY <1>3, GetFinds DEF DbGet
  <2> QED BY <1>2, <1>3, <1>4, <1>5, <2>1, ReturnKept DEF kept
<1>6. ASSUME op[c] \in {"put", "del"}, Writes(c), UNCHANGED dirs PROVE RInv'
  <2>1. \A p \in Path : word'[p] = word[p] \/ (Found(p, word[p])' /\ Quiet(p)')
    BY <1>2, <1>3, <1>6, WritesPromise
  <2>2. Return(c, "idle", NoWord) /\ sure[c] = NoWord
    BY <1>6, OthersFindNothing DEF Writes
  <2> QED BY <1>2, <1>3, <1>4, <2>1, <2>2, ReturnKept
<1>7. ASSUME op[c] # "get", Ends(c, "idle") PROVE RInv'
  BY <1>2, <1>3, <1>4, <1>7, OthersFindNothing, EndsKept
<1>8. CASE ActValue(c)
  <2>1. CASE op[c] = "get" /\ Return(c, "idle", DbGet(node[c], Goal(c))) /\ UNCHANGED <<db, mounts, kept>>
    BY <1>5, <2>1
  <2>2. CASE op[c] = "del" /\ DbDel(node[c], Goal(c)) /\ Writes(c)
    BY <1>6, <2>2 DEF DbDel, Put
  <2>3. CASE /\ op[c] = "put"
             /\ \/ \E v \in Value : DbSet(node[c], Goal(c), v)
                \/ \E e, v \in Value \union {Absent} : DbExchange(node[c], Goal(c), e, v)
             /\ Writes(c)
    BY <1>6, <2>3 DEF DbSet, DbExchange, Put, db
  <2>4. CASE op[c] = "put" /\ ~NoDir(node[c], Goal(c)) /\ Ends(c, "idle") /\ UNCHANGED db
    BY <1>7, <2>4
  <2> QED BY <1>8, <2>1, <2>2, <2>3, <2>4 DEF ActValue
<1>9. CASE ActDir(c)
  BY <1>7, <1>9 DEF ActDir
<1>10. ASSUME NEW step \in {"has", "list"}, Continue(c, step), op[c] \in {"mount", "entries"},
              UNCHANGED <<db, mounts, spot>>
       PROVE  RInv'
  BY <1>2, <1>3, <1>10, StaysKept
<1>11. CASE ActEntries(c)
  BY <1>7, <1>10, <1>11 DEF ActEntries
<1>12. CASE AskIsDir(c)
  BY <1>7, <1>10, <1>12 DEF AskIsDir
<1> QED BY <1>8, <1>9, <1>11, <1>12 DEF Act

LEMMA InsertReads ==
    ASSUME RInv, NEW c \in Caller, Insert(c)
    PROVE  RInv'
<1>1. TInv /\ Typed /\ Homed /\ SInv /\ Placed(c)
  BY DEF RInv, SInv, TInv
<1>2. SInv' /\ UNCHANGED db /\ UNCHANGED <<values, dirs>>
  BY <1>1, RestTyped DEF Insert, db
<1>3. pc[c] = "insert" /\ Running(c) /\ "idle" \in Outcomes /\ op[c] = "mount"
  BY <1>1 DEF Insert, Running, Outcomes, Placed
<1>4. sure[c] = NoWord
  BY <1>3, OthersFindNothing
<1>5. ASSUME NEW kind \in Kind, NEW t \in Target, Home[t] = path[c],
             mounts' = [mounts EXCEPT ![path[c]] = [kind |-> kind, store |-> t]],
             Return(c, "idle", NoWord), UNCHANGED word
      PROVE  RInv'
  <2>1. path[c] \in Path
    BY <1>1 DEF Typed
  <2>2. Keeps(c)
    <3>1. ASSUME NEW p \in Path, p # <<>>, ~Touches(op[c], path[c], p)
          PROVE  /\ ChildPath(p) \notin Mounted => ChildPath(p) \notin Mounted'
                 /\ \A s, b : Route(Parent(p), s, b) => Route(Parent(p), s, b)'
      <4>1. ~IsPrefix(path[c], ChildPath(p))
        BY <1>3, <3>1 DEF Touches
      <4>2. \A m \in DirPath : IsPrefix(m, ChildPath(p)) => mounts'[m] = mounts[m]
        BY <1>1, <1>5, <4>1 DEF Typed
      <4> QED BY <3>1, <4>2, RouteKept
    <3> QED BY <1>2, <3>1 DEF Keeps
  <2>3. Homed'
    BY <1>1, <1>5, <2>1 DEF Homed, Mounted, Typed
  <2> QED BY <1>2, <1>3, <1>4, <1>5, <2>2, <2>3, ReturnKept
<1>6. ASSUME Ends(c, "idle") PROVE RInv'
  <2>1. Keeps(c)
    BY <1>2, <1>6, SameKeeps DEF Ends
  <2> QED BY <1>2, <1>3, <1>4, <1>6, <2>1, EndsKept
<1> QED BY <1>5, <1>6 DEF Insert

LEMMA RestReads ==
    ASSUME RInv, NEW c \in Caller, List(c) \/ AskHas(c)
    PROVE  RInv'
<1>1. TInv /\ Typed /\ SInv /\ Placed(c) /\ Homed
  BY DEF RInv, SInv, TInv
<1>2. SInv' /\ UNCHANGED db /\ pc[c] \in {"list", "has"} /\ Running(c)
  BY <1>1, RestTyped DEF List, AskHas, Running, Outcomes
<1>3. sure[c] = NoWord
  BY <1>2, OthersFindNothing
<1>4. ASSUME NEW outcome \in Outcomes, Ends(c, outcome) PROVE RInv'
  <2>1. Keeps(c)
    BY <1>2, <1>4, SameKeeps DEF Ends
  <2> QED BY <1>2, <1>3, <1>4, <2>1, EndsKept
<1>5. "idle" \in Outcomes /\ "panicked" \in Outcomes
  BY DEF Outcomes
<1>6. CASE AskHas(c)
  <2>1. op[c] = "mount"
    BY <1>1, <1>6 DEF AskHas, Placed
  <2>2. ASSUME Continue(c, "insert"), UNCHANGED <<mounts, spot, listing>> PROVE RInv'
    BY <1>2, <2>1, <2>2, StaysKept
  <2> QED BY <1>4, <1>5, <1>6, <2>2 DEF AskHas
<1>7. CASE List(c)
  <2>1. ASSUME UNCHANGED <<mounts, pc, call, spot, kids, misread, kept>> PROVE RInv'
    <3>1. /\ UNCHANGED <<mounts, pc, op, path, due, sure, node, base, depth, misread, word>>
          /\ pc[c] = "list"
      BY <1>7, <2>1 DEF call, spot, kept, List
    <3>2. Frame(c) /\ Keeps(c) /\ Homed'
      BY <1>1, <1>2, <3>1, SameKeeps DEF Frame, Running
    <3>3. Owns(node[c], base[c], path[c])'
      BY <3>1 DEF RInv, Located, Owns
    <3>4. Duty(c)' /\ Reads(c)'
      <4>1. pc'[c] # "walk" /\ (due[c] /\ op[c] \in {"put", "del"} => ChildPath(path[c]) \notin Mounted)
        BY <3>1 DEF RInv, Duty
      <4> QED BY <1>3, <3>1, <4>1 DEF Duty, Reads, OnRoute, Mounted
    <3> QED BY <1>2, <3>1, <3>2, <3>3, <3>4, StepKept DEF RInv
  <2> QED BY <1>4, <1>5, <1>7, <2>1 DEF List
<1> QED BY <1>6, <1>7

-------------------------------------------------------------------------------
\* Calls that begin, and unmounts

\* What is found with the stores and the registry as they are.
LEMMA SameFound ==
    ASSUME UNCHANGED <<db, mounts>>, NEW p, NEW w, Found(p, w)
    PROVE  Found(p, w)'
<1>1. UNCHANGED <<values, dirs, mounts>>
  BY DEF db
<1>2. PICK s \in Store, b \in 0..Len(p) :
         /\ Route(Parent(p), s, b) /\ Reach(p, s, b, Len(p) - 1)
         /\ values[s][Below(p, b)] = w
  BY DEF Found
<1>3. Route(Parent(p), s, b)'
  BY <1>1, <1>2, SameRoutes
<1> QED BY <1>1, <1>2, <1>3 DEF Found, Reach, Mounted

LEMMA BeginReads ==
    ASSUME RInv, SInv', NEW c \in Caller, NEW o \in Ops, NEW p \in Path,
           NEW step \in {"walk", "resolve"}, Begin(c, o, p, step),
           o \in {"put", "del"} => ~ChildHasMount(p),
           o \in {"put", "del", "get"} => step = "resolve"
    PROVE  RInv'
<1>1. /\ TInv /\ Typed /\ Homed /\ Alone /\ Promised /\ misread = {} /\ Placed(c) /\ Bounded(c)
      /\ \A d \in Caller : Duty(d) /\ Reads(d) /\ Owns(node[d], base[d], path[d])
  BY DEF RInv, SInv, TInv, Located
<1>2. /\ ~Running(c) /\ UNCHANGED <<db, mounts, values, dirs, node, base, depth, misread>>
      /\ pc'[c] = step /\ op'[c] = o /\ path'[c] = p
      /\ \A d \in Caller \ {c} : pc'[d] = pc[d] /\ op'[d] = op[d] /\ path'[d] = path[d]
  BY <1>1 DEF Begin, Goto, Typed, db, spot
<1>3. /\ due'[c] => \A e \in Caller \ {c} : Running(e) => ~Disturbs(op[e], path[e], o, p)
      /\ \A d \in Caller \ {c} : due'[d] = (due[d] /\ ~Disturbs(o, p, op[d], path[d]))
  BY DEF Begin
<1>4. /\ \A q \in Path : word'[q] = IF Touches(o, p, q) THEN NoWord ELSE word[q]
      /\ sure'[c] = IF o = "get" THEN word[p] ELSE NoWord
      /\ \A d \in Caller \ {c} : sure'[d] = IF Touches(o, p, path[d]) THEN NoWord ELSE sure[d]
  BY DEF Begin, Voids
<1>5. Running(c)' /\ \A d \in Caller \ {c} : Running(d)' <=> Running(d)
  BY <1>2 DEF Running, Outcomes
<1>6. Homed'
  BY <1>1, <1>2 DEF Homed, Mounted
<1>7. Located'
  <2>1. node[c] = Root /\ base[c] = 0
    BY <1>1, <1>2 DEF Placed, Bounded, Running, Typed
  <2> QED BY <1>1, <1>2, <2>1 DEF Located, Owns
<1>8. Alone'
  <2>1. ASSUME NEW d \in Caller, due'[d], NEW e \in Caller \ {d}, Running(e)'
        PROVE  ~Disturbs(op'[e], path'[e], op'[d], path'[d])
    <3>1. CASE d = c
      BY <1>2, <1>3, <1>5, <2>1, <3>1
    <3>2. CASE d # c /\ e = c
      BY <1>2, <1>3, <2>1, <3>2
    <3>3. CASE d # c /\ e # c
      BY <1>1, <1>2, <1>3, <1>5, <2>1, <3>3 DEF Alone
    <3> QED BY <3>1, <3>2, <3>3
  <2>2. ASSUME NEW d \in Caller, due'[d] PROVE Running(d)'
    BY <1>1, <1>3, <1>5, <2>2 DEF Alone
  <2> QED BY <2>1, <2>2 DEF Alone, Disturbs, MakesWay, Touches
<1>9. ASSUME NEW q, Quiet(q), ~Touches(o, p, q) PROVE Quiet(q)'
  BY <1>2, <1>5, <1>9 DEF Quiet, Touches
<1>10. Promised'
  <2>1. ASSUME NEW q \in Path, word'[q] # NoWord PROVE Found(q, word[q])' /\ Quiet(q)'
    <3>1. ~Touches(o, p, q) /\ word'[q] = word[q] /\ Found(q, word[q]) /\ Quiet(q)
      BY <1>1, <1>4, <2>1 DEF Promised
    <3>2. PICK w : w = word[q]
      OBVIOUS
    <3>3. Found(q, w)'
      BY <1>2, <3>1, <3>2, SameFound
    <3> QED BY <1>9, <3>1, <3>2, <3>3 DEF Found
  <2> QED BY <2>1 DEF Promised
<1>11. ASSUME NEW d \in Caller, sure'[d] # NoWord PROVE Reads(d)'
  <2>1. CASE d = c
    <3>1. o = "get" /\ sure'[c] = word[p] /\ word[p] # NoWord /\ step = "resolve"
      BY <1>4, <1>11, <2>1
    <3>2. Found(p, word[p]) /\ Quiet(p) /\ ~Touches(o, p, p)
      BY <1>1, <3>1 DEF Promised, Touches
    <3>3. PICK w : w = word[p]
      OBVIOUS
    <3>4. Found(p, w)' /\ Quiet(p)'
      BY <1>2, <1>9, <3>2, <3>3, SameFound
    <3>5. Found(path[c], sure[c])' /\ Quiet(path[c])'
      BY <1>2, <3>1, <3>3, <3>4 DEF Found, Quiet
    <3> QED BY <1>2, <2>1, <3>1, <3>5 DEF Reads, OnRoute
  <2>2. CASE d # c
    <3>1. ~Touches(o, p, path[d]) /\ sure'[d] = sure[d] /\ sure[d] # NoWord
      BY <1>4, <1>11, <2>2
    <3>2. /\ op[d] = "get" /\ pc[d] \in {"resolve", "walk"} /\ OnRoute(d)
          /\ Found(path[d], sure[d]) /\ Quiet(path[d])
      BY <1>1, <3>1 DEF Reads
    <3>3. PICK q, w : q = path[d] /\ w = sure[d]
      OBVIOUS
    <3>4. Found(q, w)' /\ Quiet(q)'
      BY <1>2, <1>9, <3>1, <3>2, <3>3, SameFound
    <3>5. Found(path[d], sure[d])' /\ Quiet(path[d])'
      BY <1>2, <2>2, <3>1, <3>3, <3>4 DEF Found, Quiet
    <3>6. OnRoute(d)'
      BY <1>2, <2>2, <3>2 DEF OnRoute, Route, MountsAbove, IsLongest, Mounted
    <3> QED BY <1>2, <2>2, <3>2, <3>5, <3>6 DEF Reads
  <2> QED BY <2>1, <2>2
<1>12. ASSUME NEW d \in Caller PROVE Duty(d)'
  <2>1. CASE d = c
    <3>1. o \in {"put", "del"} => ChildPath(p) \notin Mounted
      <4>1. IsPrefix(ChildPath(p), ChildPath(p))
        BY ChildParts, PathParts, PrefixReflexive
      <4> QED BY <4>1 DEF ChildHasMount
    <3> QED BY <1>2, <2>1, <3>1 DEF Duty, OnRoute, Mounted
  <2>2. CASE d # c
    <3>1. due'[d] => due[d]
      BY <1>3, <2>2
    <3> QED BY <1>1, <1>2, <2>2, <3>1 DEF Duty, OnRoute, Route, Reach, MountsAbove, IsLongest,
                                         Mounted
  <2> QED BY <2>1, <2>2
<1>13. \A d \in Caller : Reads(d)'
  BY <1>11 DEF Reads
<1> QED BY <1>1, <1>2, <1>6, <1>7, <1>8, <1>10, <1>12, <1>13 DEF RInv

LEMMA StutterReads ==
    ASSUME RInv, SInv', UNCHANGED <<db, mounts, op, path, due, sure, node, base, depth, misread, word>>,
           \A d \in Caller : /\ Running(d)' <=> Running(d)
                             /\ Running(d) => pc'[d] = pc[d]
    PROVE  RInv'
<1>1. UNCHANGED <<values, dirs, mounts>>
  BY DEF db
<1>3. ASSUME NEW p, NEW w, Found(p, w) PROVE Found(p, w)'
  BY <1>3, SameFound
<1>4. \A p : Quiet(p)' <=> Quiet(p)
  BY DEF Quiet, Touches
<1>5. \A d \in Caller : pc'[d] = "walk" => pc[d] = "walk"
  BY DEF Running, Outcomes
<1>6. Homed' /\ Located' /\ Alone'
  <2>1. Homed' /\ Located'
    BY <1>1 DEF RInv, Homed, Located, Owns, Mounted
  <2>2. Alone'
    BY DEF RInv, Alone, Disturbs, MakesWay, Touches
  <2> QED BY <2>1, <2>2
<1>7. Promised'
  <2>1. ASSUME NEW p \in Path, word[p] # NoWord PROVE Found(p, word[p])' /\ Quiet(p)'
    <3>1. PICK w : w = word[p]
      OBVIOUS
    <3>2. Found(p, w)' /\ Quiet(p)'
      BY <1>3, <1>4, <2>1, <3>1 DEF RInv, Promised
    <3> QED BY <3>1, <3>2 DEF Found
  <2> QED BY <2>1 DEF Promised
<1>8. ASSUME NEW d \in Caller PROVE Duty(d)' /\ Reads(d)'
  <2>1. Duty(d) /\ Reads(d)
    BY DEF RInv
  <2>2. OnRoute(d) => OnRoute(d)'
    BY <1>1, <1>5 DEF OnRoute, Route, MountsAbove, IsLongest, Mounted
  <2>3. Duty(d)'
    BY <1>1, <1>5, <2>1, <2>2 DEF Duty, Reach, Mounted
  <2>4. Reads(d)'
    <3>1. SUFFICES ASSUME sure[d] # NoWord PROVE Reads(d)'
      BY DEF Reads
    <3>2. Found(path[d], sure[d])' /\ Quiet(path[d])'
      <4>1. PICK p, w : p = path[d] /\ w = sure[d]
        OBVIOUS
      <4>2. Found(p, w)' /\ Quiet(p)'
        BY <1>3, <1>4, <2>1, <3>1, <4>1 DEF Reads
      <4> QED BY <4>1, <4>2 DEF Found, Quiet
    <3>3. pc'[d] = pc[d]
      BY <2>1, <3>1 DEF Reads, Running, Outcomes
    <3> QED BY <2>1, <2>2, <3>1, <3>2, <3>3 DEF Reads
  <2> QED BY <2>3, <2>4
<1> QED BY <1>6, <1>7, <1>8 DEF RInv

LEMMA StartReads ==
    ASSUME RInv, NEW c \in Caller, NEW p \in Path,
           \/ StartGet(c, p) \/ StartEntries(c, p) \/ StartClear(c, p) \/ StartMount(c, p)
           \/ \E o \in GuardedOps : StartWrite(c, o, p)
    PROVE  RInv'
<1>1. SInv' /\ TInv /\ Typed
  BY StartTyped DEF RInv, SInv, TInv
<1>2. {"get", "entries", "clear", "mount"} \subseteq Ops /\ GuardedOps \subseteq Ops
  BY DEF Ops, OnHandle, GuardedOps
<1>3. CASE StartGet(c, p)
  <2>1. CASE ChildPath(p) \notin Mounted
    BY <1>1, <1>2, <1>3, <2>1, BeginReads DEF StartGet
  <2>2. CASE ChildPath(p) \in Mounted
    <3>1. /\ ~Running(c) /\ pc' = [pc EXCEPT ![c] = "idle"]
          /\ UNCHANGED <<db, mounts, op, path, due, sure, node, base, depth, word>>
      BY <1>3, <2>2 DEF StartGet, Goto, call, spot, kept
    <3>2. misread' = misread
      BY <1>3, <2>2 DEF StartGet, RInv, Promised, Found
    <3>3. \A d \in Caller : /\ Running(d)' <=> Running(d)
                            /\ Running(d) => pc'[d] = pc[d]
      BY <1>1, <3>1 DEF Running, Outcomes, Typed
    <3> QED BY <1>1, <3>1, <3>2, <3>3, StutterReads
  <2> QED BY <2>1, <2>2
<1>4. CASE StartEntries(c, p)
  BY <1>1, <1>2, <1>4, BeginReads DEF StartEntries
<1>5. CASE StartClear(c, p)
  BY <1>1, <1>2, <1>5, BeginReads DEF StartClear
<1>6. CASE StartMount(c, p)
  BY <1>1, <1>2, <1>6, BeginReads DEF StartMount
<1>7. ASSUME NEW o \in GuardedOps, StartWrite(c, o, p) PROVE RInv'
  BY <1>1, <1>2, <1>7, BeginReads DEF StartWrite
<1> QED BY <1>3, <1>4, <1>5, <1>6, <1>7

\* An unmount takes back what was promised below it, and leaves every other route.
LEMMA UnmountReads ==
    ASSUME RInv, NEW m \in DirPath, Unmount(m)
    PROVE  RInv'
<1>1. /\ SInv' /\ TInv /\ Typed /\ Homed /\ Alone /\ Promised /\ misread = {}
      /\ \A d \in Caller : Duty(d) /\ Reads(d)
  BY UnmountTyped DEF RInv, SInv, TInv
<1>2. UNCHANGED <<values, dirs, pc, op, path, node, base, depth, misread>>
  BY DEF Unmount, db, spot
<1>3. /\ mounts' = [mounts EXCEPT ![m] = NoMount]
      /\ \A p \in Path : word'[p] = IF IsPrefix(m, ChildPath(p)) THEN NoWord ELSE word[p]
      /\ \A d \in Caller : /\ sure'[d] = IF IsPrefix(m, ChildPath(path[d])) THEN NoWord ELSE sure[d]
                           /\ due'[d] = (due[d] /\ ~IsPrefix(m, ChildPath(path[d])))
  BY DEF Unmount
<1>4. ASSUME NEW p \in Path, p # <<>>, ~IsPrefix(m, ChildPath(p))
      PROVE  /\ ChildPath(p) \notin Mounted => ChildPath(p) \notin Mounted'
             /\ \A s, b : Route(Parent(p), s, b) => Route(Parent(p), s, b)'
  <2>1. \A n \in DirPath : IsPrefix(n, ChildPath(p)) => mounts'[n] = mounts[n]
    BY <1>1, <1>3, <1>4 DEF Typed
  <2> QED BY <1>4, <2>1, RouteKept
<1>5. ASSUME NEW p \in Path, NEW w, Found(p, w), ~IsPrefix(m, ChildPath(p)) PROVE Found(p, w)'
  <2>1. p # <<>> /\ ChildPath(p) \notin Mounted'
    BY <1>4, <1>5 DEF Found
  <2>2. PICK s \in Store, b \in 0..Len(p) :
           /\ Route(Parent(p), s, b) /\ Reach(p, s, b, Len(p) - 1)
           /\ values[s][Below(p, b)] = w
    BY <1>5 DEF Found
  <2>3. Route(Parent(p), s, b)'
    BY <1>4, <1>5, <2>1, <2>2
  <2> QED BY <1>2, <2>1, <2>2, <2>3 DEF Found, Reach
<1>6. \A p : Quiet(p) => Quiet(p)'
  BY <1>2 DEF Quiet, Running, Touches
<1>7. Homed' /\ Located' /\ Alone'
  <2>1. Homed'
    BY <1>1, <1>3 DEF Homed, Mounted, Typed
  <2>2. Located'
    BY <1>2 DEF RInv, Located, Owns
  <2>3. Alone'
    BY <1>1, <1>2, <1>3 DEF Alone, Running, Disturbs, MakesWay, Touches
  <2> QED BY <2>1, <2>2, <2>3
<1>8. Promised'
  <2>1. ASSUME NEW p \in Path, word'[p] # NoWord PROVE Found(p, word[p])' /\ Quiet(p)'
    <3>1. ~IsPrefix(m, ChildPath(p)) /\ word'[p] = word[p]
      BY <1>3, <2>1
    <3>2. PICK w : w = word[p]
      OBVIOUS
    <3>3. Found(p, w)' /\ Quiet(p)'
      BY <1>1, <1>5, <1>6, <2>1, <3>1, <3>2 DEF Promised
    <3> QED BY <3>1, <3>2, <3>3 DEF Found
  <2> QED BY <2>1 DEF Promised
<1>9. ASSUME NEW d \in Caller, ~IsPrefix(m, ChildPath(path[d])), path[d] # <<>>, OnRoute(d)
      PROVE  OnRoute(d)'
  <2>1. PICK p, s, b : p \in Path /\ p = path[d] /\ s = node[d] /\ b = base[d]
    BY <1>1 DEF Typed
  <2>2. Route(Parent(p), s, b) => Route(Parent(p), s, b)'
    BY <1>4, <1>9, <2>1
  <2> QED BY <1>2, <1>9, <2>1, <2>2 DEF OnRoute, Route
<1>10. ASSUME NEW d \in Caller PROVE Reads(d)'
  <2>1. SUFFICES ASSUME sure'[d] # NoWord PROVE Reads(d)'
    BY DEF Reads
  <2>2. ~IsPrefix(m, ChildPath(path[d])) /\ sure'[d] = sure[d] /\ sure[d] # NoWord
    BY <1>3, <2>1
  <2>3. /\ op[d] = "get" /\ pc[d] \in {"resolve", "walk"} /\ OnRoute(d)
        /\ Found(path[d], sure[d]) /\ Quiet(path[d])
    BY <1>1, <2>2 DEF Reads
  <2>4. PICK p, w : p \in Path /\ p = path[d] /\ w = sure[d]
    BY <1>1 DEF Typed
  <2>5. Found(p, w)' /\ Quiet(p)'
    BY <1>5, <1>6, <2>2, <2>3, <2>4
  <2>6. Found(path[d], sure[d])' /\ Quiet(path[d])'
    BY <1>2, <2>2, <2>4, <2>5 DEF Found, Quiet
  <2>7. path[d] # <<>>
    BY <2>3 DEF Found
  <2> QED BY <1>2, <1>9, <2>2, <2>3, <2>6, <2>7 DEF Reads
<1>11. ASSUME NEW d \in Caller PROVE Duty(d)'
  <2>1. SUFFICES ASSUME due'[d], op[d] \in {"put", "del"} PROVE Duty(d)'
    BY <1>2 DEF Duty
  <2>2. due[d] /\ ~IsPrefix(m, ChildPath(path[d]))
    BY <1>3, <2>1
  <2>3. Running(d) /\ path[d] \in Path /\ path[d] # <<>>
    BY <1>1, <2>1, <2>2, WriterPath DEF Alone
  <2>4. /\ ChildPath(path[d]) \notin Mounted /\ OnRoute(d)
        /\ pc[d] = "walk" => Reach(path[d], node[d], base[d], depth[d])
    BY <1>1, <2>1, <2>2 DEF Duty
  <2>5. OnRoute(d)' /\ ChildPath(path[d]) \notin Mounted'
    BY <1>4, <1>9, <2>2, <2>3, <2>4
  <2> QED BY <1>2, <2>4, <2>5 DEF Duty, Reach, Mounted
<1> QED BY <1>1, <1>2, <1>7, <1>8, <1>10, <1>11 DEF RInv

LEMMA ReadsKept == Spec => []RInv
<1>1. Init => RInv
  <2> SUFFICES ASSUME Init PROVE RInv
    OBVIOUS
  <2>1. SInv
    <3>1. MadeIsNoValue
      BY PathsAreClosed DEF Init, DbInit, MadeIsNoValue
    <3> QED BY <3>1, InitTyped DEF SInv
  <2>2. Mounted = {} /\ misread = {} /\ \A p \in Path : word[p] = NoWord
    BY DEF Init, Mounted
  <2>3. \A c \in Caller : /\ due[c] = FALSE /\ sure[c] = NoWord
                          /\ node[c] = Root /\ base[c] = 0
    BY DEF Init
  <2> QED BY <2>1, <2>2, <2>3 DEF RInv, Homed, Located, Owns, Alone, Promised, Duty, Reads
<1>2. RInv /\ [Next]_vars => RInv'
  <2> SUFFICES ASSUME RInv, [Next]_vars PROVE RInv'
    OBVIOUS
  <2>1. ASSUME NEW c \in Caller, CallStep(c) PROVE RInv'
    BY <2>1, StartReads, ResolveReads, WalkReads, ActReads, RestReads, InsertReads DEF CallStep
  <2>2. CASE UNCHANGED vars
    <3>1. SInv'
      BY <2>2, StutterTyped DEF RInv
    <3>2. /\ UNCHANGED <<db, mounts, op, path, due, sure, node, base, depth, misread, word>>
          /\ UNCHANGED pc
      BY <2>2 DEF vars, call, spot, kept
    <3> QED BY <3>1, <3>2, StutterReads DEF Running
  <2> QED BY <2>1, <2>2, UnmountReads DEF Next
<1> QED BY <1>1, <1>2, PTL DEF Spec

\* mount_dir.rs:301-367: a get finds what the last set, compare_exchange or del of its name
\* left, by whichever mounts the two were routed and whatever happened to other names in
\* between.
THEOREM GetsFindWhatWasPut == Spec => []ReadYourWrites
<1>1. RInv => ReadYourWrites
  BY DEF RInv, ReadYourWrites
<1> QED BY <1>1, ReadsKept, PTL
================================================================================
