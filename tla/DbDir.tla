--------------------------------- MODULE DbDir ---------------------------------
(***************************************************************************)
(* DbDir: a tree of directories and values in one store behind a mutex.  A *)
(* DbDir is a handle on a path of it and stays one when the directory is   *)
(* removed: every method looks at the maps only, never whether its own     *)
(* path is a directory.                                                    *)
(*                                                                         *)
(* A name is a symbol and may have a namespace.  A value is stored under   *)
(* the symbol, and a directory under its local part: symbols that differ   *)
(* in their namespace are names of different values and of one directory.  *)
(*                                                                         *)
(* One operator per method, for a store s and the full path p of the name  *)
(* it is about.  Local parts are legal segments and callers have every     *)
(* capability: a call that is refused changes nothing.                     *)
(***************************************************************************)
EXTENDS Integers, SequencesExt

CONSTANTS Name, Local,    \* symbols, and each without its namespace
          Path,           \* the paths in use: a symbol, in directories
          Store, Value, Absent

\* The paths that lead to p, the path below the first n names, and what p is in.
Below(p, n) == SubSeq(p, n + 1, Len(p))
Parent(p) == SubSeq(p, 1, Len(p) - 1)

\* The path of the directory that p names.
ChildPath(p) == [i \in 1..Len(p) |-> Local[p[i]]]

\* The paths of directories.
DirPath == {p \in Path : ChildPath(p) = p}

ASSUME LocalIsLocal ==
    Local \in [Name -> Name] /\ \A n \in Name : Local[Local[n]] = Local[n]

ASSUME PathsAreClosed ==
    /\ Path \subseteq Seq(Name) /\ <<>> \in Path
    /\ \A p \in Path : /\ \A i, j \in 0..Len(p) : SubSeq(p, i + 1, j) \in Path
                       /\ ChildPath(p) \in Path
                       /\ p # <<>> => Parent(p) \in DirPath

ASSUME AbsentIsNoValue == Absent \notin Value

VARIABLES
    values,     \* [Store -> [Path -> Value or Absent]]
    dirs,       \* [Store -> SUBSET DirPath]
    made        \* history: by which names the directories that are there were made

db == <<values, dirs, made>>

DbTypeOK ==
    /\ values \in [Store -> [Path -> Value \union {Absent}]]
    /\ dirs \in [Store -> SUBSET DirPath]
    /\ made \in [Store -> SUBSET Path]

DbInit ==
    /\ values = [s \in Store |-> [p \in Path |-> Absent]]
    /\ dirs = [s \in Store |-> {<<>>}]
    /\ made = [s \in Store |-> {}]

Put(s, p, v) == values' = [values EXCEPT ![s][p] = v] /\ UNCHANGED <<dirs, made>>

\* Mutated form: the directories are not looked at.
WhateverIsThere(s, p) == TRUE

NoDir(s, p) == ChildPath(p) \notin dirs[s]

DbSet(s, p, v) == NoDir(s, p) /\ Put(s, p, v)

DbGet(s, p) == values[s][p]

DbDel(s, p) == Put(s, p, Absent)

\* compare_exchange: nothing changes unless the value is the expected one.
DbExchange(s, p, expected, v) ==
    NoDir(s, p) /\ IF values[s][p] = expected THEN Put(s, p, v) ELSE UNCHANGED db

\* Mutated form: what is in directories of h counts as in h.
IsUnder(p, h) == IsStrictPrefix(h, p)

InDir(p, h) == p # <<>> /\ Parent(p) = h

\* The names of values; directories are among keys, and not among entries.
DbEntries(s, h) == {p \in Path : InDir(p, h) /\ values[s][p] # Absent}

DbClear(s, h) ==
    /\ values' = [values EXCEPT ![s] = [p \in Path |-> IF InDir(p, h) THEN Absent ELSE @[p]]]
    /\ UNCHANGED <<dirs, made>>

\* Only a value of the same symbol is in the way.
DbMkdir(s, p) ==
    /\ values[s][p] = Absent
    /\ dirs' = [dirs EXCEPT ![s] = @ \union {ChildPath(p)}]
    /\ made' = [made EXCEPT ![s] = @ \union {p}]
    /\ UNCHANGED values

DbRmdir(s, p) ==
    /\ ChildPath(p) \in dirs[s]
    /\ values' = [values EXCEPT ![s] =
                    [q \in Path |-> IF IsStrictPrefix(ChildPath(p), q) THEN Absent ELSE @[q]]]
    /\ dirs' = [dirs EXCEPT ![s] = {q \in @ : ~IsPrefix(ChildPath(p), q)}]
    /\ made' = [made EXCEPT ![s] = {q \in @ : ~IsPrefix(ChildPath(p), ChildPath(q))}]

-------------------------------------------------------------------------------
\* Properties

\* db_dir.rs:224, 303, 334: a symbol by which a directory was made is no value for as long
\* as the directory is there, whatever stale handles write into or make below directories
\* that are gone.  Another symbol of the same local part may be a value beside it.
MadeIsNoValue ==
    \A s \in Store : \A p \in made[s] : ChildPath(p) \in dirs[s] /\ values[s][p] = Absent
==============================================================================
