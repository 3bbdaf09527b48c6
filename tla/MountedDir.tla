------------------------------- MODULE MountedDir -------------------------------
(***************************************************************************)
(* MountedDir: one namespace made of a root DbDir and of targets mounted   *)
(* at paths of it.  The registry of mounts has a lock of its own.  A call  *)
(* looks into the registry, lets go of it, walks down the store that owns  *)
(* its path one opendir at a time, and acts there: between any two of      *)
(* these steps other calls change the registry and the stores.             *)
(*                                                                         *)
(* The stores are reached through the namespace alone: nobody writes the   *)
(* root or a target by a handle of its own, and a target has one mount     *)
(* point.  A handle is a path and may exist for every path, also one that  *)
(* is no directory any more: so has, is_dir, opendir, keys, len and        *)
(* inspect, which read what get and entries read, change nothing here.     *)
(*                                                                         *)
(* The registry and walks go by the local parts of names; the stores are   *)
(* asked for the symbol, except by a mount, which has none.                *)
(***************************************************************************)
EXTENDS DbDir

CONSTANTS Caller,
          Root,               \* the store of the root
          Home,               \* where each target may be mounted
          Watched,            \* paths whose writers are remembered, by the history only
          NoMount,            \* nothing is mounted
          NoWord              \* nothing is promised, or returned

Target == Store \ {Root}
Kind == {"table", "dir"}
Mount == [kind : Kind, store : Target]

ASSUME MountSentinels ==
    /\ Root \in Store /\ Home \in [Target -> DirPath \ {<<>>}]
    /\ Watched \subseteq Path
    /\ NoMount \notin Mount /\ NoWord \notin Value \union {Absent}

VARIABLES
    mounts,       \* the registry: [DirPath -> Mount or NoMount]
    pc, op, path, \* a caller's step or how its call ended, its method, what it is about
    node, base, depth,   \* the store a walk is in, and how many names of the path lead to
                         \* it and have been walked
    virt,         \* resolve_current: mounts were below, so a missing directory is virtual
    kids, leaves, \* entries: the mounts it saw below, and those it will read again
    word, due, sure,   \* history: what writers that returned have promised of each path;
                       \* who will promise; what a get must find if nobody touches its path
    misread, clean     \* history: callers whose get returned something else; mounts that
                       \* nobody wrote at while they were made

spot == <<node, base, depth, virt>>
listing == <<kids, leaves>>
call == <<op, path, due, sure>>
kept == <<word, clean>>
vars == <<db, mounts, pc, call, spot, listing, misread, kept>>

Outcomes == {"idle", "panicked"}
OnHandle == {"entries", "clear"}
\* put is set or compare_exchange, which differ in their last step only.
GuardedOps == {"put", "del", "mkdir", "rmdir"}
Ops == GuardedOps \union OnHandle \union {"get", "mount"}
Steps == Outcomes \union {"resolve", "walk", "has", "insert", "list"}

\* The directory a call is about, or in.
Handle(c) == IF op[c] \in OnHandle THEN path[c] ELSE Parent(path[c])

TypeOK ==
    /\ DbTypeOK
    /\ mounts \in [DirPath -> Mount \union {NoMount}]
    /\ pc \in [Caller -> Steps] /\ op \in [Caller -> Ops] /\ path \in [Caller -> Path]
    /\ node \in [Caller -> Store] /\ base \in [Caller -> Nat] /\ depth \in [Caller -> Nat]
    /\ virt \in [Caller -> BOOLEAN]
    /\ kids \in [Caller -> SUBSET Path] /\ leaves \in [Caller -> SUBSET Path]
    /\ word \in [Path -> Value \union {Absent, NoWord}] /\ due \in [Caller -> BOOLEAN]
    /\ sure \in [Caller -> Value \union {Absent, NoWord}]
    /\ misread \subseteq Caller /\ clean \subseteq DirPath
    /\ \A c \in Caller : /\ base[c] <= depth[c]
                         /\ pc[c] = "walk" => depth[c] <= Len(Handle(c))
                         /\ op[c] \notin OnHandle /\ pc[c] \notin Outcomes => path[c] # <<>>

Init ==
    /\ DbInit
    /\ mounts = [p \in DirPath |-> NoMount]
    /\ pc = [c \in Caller |-> "idle"] /\ op = [c \in Caller |-> "get"]
    /\ path = [c \in Caller |-> <<>>]
    /\ node = [c \in Caller |-> Root] /\ base = [c \in Caller |-> 0] /\ depth = base
    /\ virt = [c \in Caller |-> FALSE]
    /\ kids = [c \in Caller |-> {}] /\ leaves = kids
    /\ word = [p \in Path |-> NoWord] /\ clean = {} /\ misread = {}
    /\ due = virt /\ sure = [c \in Caller |-> NoWord]

-------------------------------------------------------------------------------
\* The registry

Mounted == {p \in DirPath : mounts[p] # NoMount}

Children(p) == {m \in Mounted : IsStrictPrefix(p, m)}

MountBelow(p) == Children(p) # {}

ChildHasMount(p) == \E m \in Mounted : IsPrefix(ChildPath(p), m)

MountsAbove(p) == {m \in Mounted : IsPrefix(m, p)}

\* The longest mount that leads to p.
IsLongest(m, p) == m \in MountsAbove(p) /\ \A n \in MountsAbove(p) : Len(n) <= Len(m)

\* Alone it would let a table be mounted above what is mounted.
NothingAbove(p, kind) ==
    \A m \in Mounted : IsStrictPrefix(m, p) => mounts[m].kind = "dir"

FitsRegistry(p, kind) ==
    /\ NothingAbove(p, kind)
    /\ kind = "table" => ~MountBelow(p)

-------------------------------------------------------------------------------
\* Calls

Goto(c, step) == pc' = [pc EXCEPT ![c] = step]

\* The next step, of a call that goes on.
Continue(c, step) == Goto(c, step) /\ UNCHANGED <<call, misread, kept>>

\* A call of method o at q changes what a get of p finds; mkdir never does.
Touches(o, q, p) ==
    \/ o \in {"put", "del"} /\ q = p
    \/ o = "clear" /\ p # <<>> /\ Parent(p) = q
    \/ o = "rmdir" /\ IsStrictPrefix(ChildPath(q), p)
    \/ o = "mount" /\ IsPrefix(q, ChildPath(p))

\* It makes p by some spelling, or a directory that leads there.
MakesWay(o, q, p) ==
    \/ o = "put" /\ ChildPath(q) = p
    \/ o = "mkdir" /\ IsPrefix(ChildPath(q), p)

\* It disturbs a call of method e at p.
Disturbs(o, q, e, p) == IF e = "mount" THEN MakesWay(o, q, p) ELSE Touches(o, q, p)

\* It may promise something when it returns.
Promises(o, p) == o = "mount" \/ (o \in {"put", "del"} /\ p \in Watched)

Running(d) == pc[d] \notin Outcomes

\* What a touch leaves of promises.
Voids(c, o, q) ==
    /\ word' = [p \in Path |-> IF Touches(o, q, p) THEN NoWord ELSE word[p]]
    /\ sure' = [d \in Caller |-> IF d = c THEN IF o = "get" THEN word[q] ELSE NoWord
                                 ELSE IF Touches(o, q, path[d]) THEN NoWord ELSE sure[d]]

\* A call is counted from the end of its first step.  One that ends there is left out,
\* unless it is a get or changes something.
Begin(c, o, p, step) ==
    /\ ~Running(c)
    /\ Goto(c, step)
    /\ op' = [op EXCEPT ![c] = o] /\ path' = [path EXCEPT ![c] = p]
    /\ due' = [d \in Caller |->
                 IF d = c THEN /\ Promises(o, p)
                               /\ \A e \in Caller \ {c} :
                                     Running(e) => ~Disturbs(op[e], path[e], o, p)
                          ELSE due[d] /\ ~Disturbs(o, p, op[d], path[d])]
    /\ Voids(c, o, p)
    /\ UNCHANGED <<db, mounts, spot, misread, clean>>

\* The call ends, with r the answer of a get.
Return(c, outcome, r) ==
    /\ Goto(c, outcome)
    /\ misread' = IF sure[c] \in {NoWord, r} THEN misread ELSE misread \union {c}
    /\ sure' = [sure EXCEPT ![c] = NoWord]
    /\ op' = [op EXCEPT ![c] = "get"] /\ path' = [path EXCEPT ![c] = <<>>]
    /\ due' = [due EXCEPT ![c] = FALSE] /\ node' = [node EXCEPT ![c] = Root]
    /\ base' = [base EXCEPT ![c] = 0] /\ depth' = [depth EXCEPT ![c] = 0]
    /\ virt' = [virt EXCEPT ![c] = FALSE]
    /\ kids' = [kids EXCEPT ![c] = {}] /\ leaves' = [leaves EXCEPT ![c] = {}]

Ends(c, outcome) == Return(c, outcome, NoWord) /\ UNCHANGED <<mounts, kept>>

-------------------------------------------------------------------------------
\* First the registry

StartGet(c, p) ==
    /\ p # <<>>
    /\ IF ChildPath(p) \notin Mounted THEN Begin(c, "get", p, "resolve") /\ UNCHANGED listing
       ELSE /\ ~Running(c) /\ Goto(c, "idle")
            /\ misread' = IF word[p] = NoWord THEN misread ELSE misread \union {c}
            /\ UNCHANGED <<db, mounts, call, spot, listing, kept>>

StartWrite(c, o, p) ==
    /\ o \in GuardedOps /\ p # <<>> /\ ~ChildHasMount(p)
    /\ Begin(c, o, p, "resolve") /\ UNCHANGED listing

StartClear(c, h) ==
    /\ h \in DirPath /\ ~MountBelow(h)
    /\ Begin(c, "clear", h, "resolve") /\ UNCHANGED listing

\* The names that are mounts or lead to some, and those that are tables.
StartEntries(c, h) ==
    /\ h \in DirPath
    /\ kids' = [kids EXCEPT ![c] = {SubSeq(m, 1, Len(h) + 1) : m \in Children(h)}]
    /\ leaves' = [leaves EXCEPT ![c] =
                    {m \in Children(h) : Parent(m) = h /\ mounts[m].kind = "table"}]
    /\ Begin(c, "entries", h, "resolve")

\* resolve_current: the store of the longest mount, or the root.
Resolve(c) ==
    /\ pc[c] = "resolve"
    /\ \/ /\ MountsAbove(Handle(c)) = {}
          /\ virt' = [virt EXCEPT ![c] = MountBelow(Handle(c))]
          /\ Continue(c, "walk") /\ UNCHANGED <<mounts, listing, node, base, depth>>
       \/ \E m \in MountsAbove(Handle(c)) :
             /\ IsLongest(m, Handle(c))
             /\ IF mounts[m].kind = "table" /\ m # Handle(c) THEN Ends(c, "idle")
                ELSE /\ node' = [node EXCEPT ![c] = mounts[m].store]
                     /\ base' = [base EXCEPT ![c] = Len(m)]
                     /\ depth' = [depth EXCEPT ![c] = Len(m)]
                     /\ Continue(c, "walk") /\ UNCHANGED <<mounts, listing, virt>>
    /\ UNCHANGED db

-------------------------------------------------------------------------------
\* Then the store

\* Where a walk is, and what it is about, in the store.
Reached(c, n) == SubSeq(path[c], base[c] + 1, n)
Goal(c) == Below(path[c], base[c])
Arrived(c) == pc[c] = "walk" /\ depth[c] = Len(Handle(c))

Walks(c) == depth[c] < Len(Handle(c))

\* A directory that is missing: of a mount it is an error, of the root it may be virtual.
Misses(c) ==
    IF op[c] = "mount" THEN Continue(c, "insert") /\ UNCHANGED <<mounts, spot, listing>>
    ELSE IF ~virt[c] \/ op[c] \in {"put", "mkdir"} THEN Ends(c, "idle")
    ELSE IF op[c] = "entries" THEN Continue(c, "list") /\ UNCHANGED <<mounts, spot, listing>>
    ELSE Return(c, "idle", IF op[c] = "get" THEN Absent ELSE NoWord) /\ UNCHANGED <<mounts, kept>>

\* One opendir.
Walk(c) ==
    /\ pc[c] = "walk" /\ Walks(c)
    /\ LET next == Reached(c, depth[c] + 1)
       IN  IF next \in dirs[node[c]]
           THEN /\ depth' = [depth EXCEPT ![c] = @ + 1]
                /\ UNCHANGED <<mounts, pc, call, node, base, virt, listing, misread, kept>>
           ELSE IF values[node[c]][next] # Absent THEN Ends(c, "idle") ELSE Misses(c)
    /\ UNCHANGED db

\* A writer returns and promises what it left at its path.
Writes(c) ==
    /\ word' = IF due[c] THEN [word EXCEPT ![path[c]] = values'[node[c]][Goal(c)]] ELSE word
    /\ Return(c, "idle", NoWord)
    /\ UNCHANGED <<mounts, clean>>

ActValue(c) ==
    \/ /\ op[c] = "get"
       /\ Return(c, "idle", DbGet(node[c], Goal(c))) /\ UNCHANGED <<db, mounts, kept>>
    \/ op[c] = "del" /\ DbDel(node[c], Goal(c)) /\ Writes(c)
    \/ /\ op[c] = "put"
       /\ \/ \E v \in Value : DbSet(node[c], Goal(c), v)
          \/ \E e, v \in Value \union {Absent} : DbExchange(node[c], Goal(c), e, v)
       /\ Writes(c)
    \/ op[c] = "put" /\ ~NoDir(node[c], Goal(c)) /\ Ends(c, "idle") /\ UNCHANGED db

ActDir(c) ==
    \/ op[c] = "mkdir" /\ DbMkdir(node[c], Goal(c)) /\ Ends(c, "idle")
    \/ op[c] = "rmdir" /\ DbRmdir(node[c], Goal(c)) /\ Ends(c, "idle")
    \/ op[c] = "clear" /\ DbClear(node[c], Goal(c)) /\ Ends(c, "idle")
    \/ /\ \/ op[c] = "mkdir" /\ values[node[c]][Goal(c)] # Absent
          \/ op[c] = "rmdir" /\ NoDir(node[c], Goal(c))
       /\ Ends(c, "idle") /\ UNCHANGED db

\* entries of the store: a name that is a mount too is an error.
ActEntries(c) ==
    /\ op[c] = "entries"
    /\ IF \E k \in kids[c] : Below(k, base[c]) \in DbEntries(node[c], Goal(c))
       THEN Ends(c, "idle")
       ELSE Continue(c, "list") /\ UNCHANGED <<mounts, spot, listing>>
    /\ UNCHANGED db

\* A table mount that entries saw is read again, and expected.
List(c) ==
    /\ pc[c] = "list"
    /\ \/ leaves[c] = {} /\ Ends(c, "idle")
       \/ \E m \in leaves[c] :
             IF m \notin Mounted THEN Ends(c, "panicked")
             ELSE /\ leaves' = [leaves EXCEPT ![c] = @ \ {m}]
                  /\ UNCHANGED <<mounts, pc, call, spot, kids, misread, kept>>
    /\ UNCHANGED db

-------------------------------------------------------------------------------
\* Mounts

StartMount(c, p) ==
    /\ \E t \in Target : Home[t] = p
    /\ Begin(c, "mount", p, "walk") /\ UNCHANGED listing

\* root_exact_kind asks is_dir, then has, for the symbol that has no namespace.
AskIsDir(c) ==
    /\ op[c] = "mount"
    /\ IF path[c] \in dirs[Root] THEN Ends(c, "idle")
       ELSE Continue(c, "has") /\ UNCHANGED <<mounts, spot, listing>>
    /\ UNCHANGED db

\* Alone it would not ask for what is stored there.
HasDir(p) == p \in dirs[Root]

Has(p) == HasDir(p) \/ values[Root][p] # Absent

AskHas(c) ==
    /\ pc[c] = "has"
    /\ IF Has(path[c]) THEN Ends(c, "idle")
       ELSE Continue(c, "insert") /\ UNCHANGED <<mounts, spot, listing>>
    /\ UNCHANGED db

\* The registry is locked after the root was asked.
Insert(c) ==
    /\ pc[c] = "insert"
    /\ \E kind \in Kind, t \in Target :
          /\ Home[t] = path[c]
          /\ IF path[c] \notin Mounted /\ FitsRegistry(path[c], kind)
             THEN /\ mounts' = [mounts EXCEPT ![path[c]] = [kind |-> kind, store |-> t]]
                  /\ clean' = IF due[c] THEN clean \union {path[c]} ELSE clean
                  /\ Return(c, "idle", NoWord)
                  /\ UNCHANGED word
             ELSE Ends(c, "idle")
    /\ UNCHANGED db

\* unmount is one look into the registry.
Unmount(m) ==
    /\ m \in Mounted
    /\ mounts' = [mounts EXCEPT ![m] = NoMount]
    /\ word' = [p \in Path |-> IF IsPrefix(m, ChildPath(p)) THEN NoWord ELSE word[p]]
    /\ sure' = [d \in Caller |-> IF IsPrefix(m, ChildPath(path[d])) THEN NoWord ELSE sure[d]]
    /\ due' = [d \in Caller |-> due[d] /\ ~IsPrefix(m, ChildPath(path[d]))]
    /\ clean' = clean \ {m}
    /\ UNCHANGED <<db, pc, op, path, spot, listing, misread>>

-------------------------------------------------------------------------------
Act(c) == Arrived(c) /\ (ActValue(c) \/ ActDir(c) \/ ActEntries(c) \/ AskIsDir(c))

CallStep(c) ==
    \/ ~Running(c) /\ \E p \in Path : \/ StartGet(c, p) \/ StartEntries(c, p)
                                      \/ StartClear(c, p) \/ StartMount(c, p)
                                      \/ \E o \in GuardedOps : StartWrite(c, o, p)
    \/ Resolve(c) \/ Walk(c) \/ Act(c) \/ List(c)
    \/ AskHas(c) \/ Insert(c)

Next == \/ \E c \in Caller : CallStep(c)
        \/ \E m \in DirPath : Unmount(m)

Spec == Init /\ [][Next]_vars

-------------------------------------------------------------------------------
\* Properties

\* mount_dir.rs:145-163: nothing is mounted below a table, in whichever order mounts race.
TablesAreLeaves ==
    \A m, n \in Mounted : IsStrictPrefix(m, n) => mounts[m].kind = "dir"

\* The root has a node of the name p that can be reached.
RootHas(p) ==
    /\ \A n \in 0..(Len(p) - 1) : SubSeq(p, 1, n) \in dirs[Root]
    /\ p \in dirs[Root] \/ values[Root][p] # Absent

\* mount_dir.rs:136-141: a mount shadows no directory of the root and no value stored under
\* the plain symbol of its name, neither when it is made nor by what is made or written
\* later, through whichever spelling.  A set of that name, or a mkdir of it or of what leads
\* to it, that overlaps the mount can pass its own check first: of such a mount nothing is
\* claimed, and nothing of a value under another symbol of that local part, which the mount
\* does not ask for and hides.
MountsShadowNothing == \A m \in clean : ~RootHas(m)

\* mount_dir.rs:301-367: a get finds what the last set, compare_exchange or delete of its
\* symbol left, by whichever mounts the two were routed, if no call that touches the path and
\* no unmount on the way to it came in between; neither mkdir nor what happens to other
\* symbols, also of the same local part, matters.  It is asked of the Watched paths.
ReadYourWrites == misread = {}

\* mount_dir.rs:427: "mount child collected from registry" is expected to be there.
EntriesNeverPanics == \A c \in Caller : pc[c] # "panicked"
==============================================================================
