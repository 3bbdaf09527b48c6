------------------------------- MODULE LazyTable -------------------------------
(***************************************************************************)
(* LazyTable: entries whose value a loader computes when it is first asked *)
(* for.  The map is behind a reader-writer lock.  get keeps it for reading *)
(* and del for writing while the loader runs, because the guard of         *)
(* `match self.read()?...` lives as long as the match; entries lets go of  *)
(* it first.  What a loader answers is cached in the entry itself, so it   *)
(* is kept for callers that still hold an entry the map has lost.          *)
(*                                                                         *)
(* This module has the table's state and its methods, one operator per     *)
(* critical section; OverrideTable has the callers.  A loader is external: *)
(* it may answer anything, an error included, or panic, and it does not    *)
(* use its own table.                                                      *)
(***************************************************************************)
EXTENDS Integers, FiniteSets

CONSTANTS Caller, Key,
          Value,                 \* values, and entries made by set
          Loader,                \* entries made by put_lazy: each is made once
          Absent, Error,         \* no entry; a loader's error
          Unmade, Unforced,      \* an entry not put yet; one no loader has answered for
          NoLoad                 \* the caller runs no loader

\* The entry whose loader a caller runs, and how it holds the lock meanwhile.
Frames == [entry : Loader, lock : {"read", "write", "none"}]

ASSUME TableSentinels ==
    /\ Value \intersect Loader = {}
    /\ {Absent, Error, Unmade, Unforced} \intersect (Value \union Loader) = {}
    /\ Absent \notin {Error, Unmade, Unforced} /\ Error \notin {Unmade, Unforced}
    /\ Unmade # Unforced
    /\ NoLoad \notin Frames

Entry == Value \union Loader
Answer == Value \union {Error}

VARIABLES
    front,      \* the map: [Key -> Entry or Absent]
    cache,      \* the cache of every entry that has a loader
    poisoned,   \* a panic while the map was locked for writing
    load,       \* the loader each caller runs
    answers,    \* history: what callers were given for each entry
    raced       \* history: entries whose loader two callers ran at a time

lazy == <<front, cache, poisoned, load, answers, raced>>

LazyTypeOK ==
    /\ front \in [Key -> Entry \union {Absent}]
    /\ cache \in [Loader -> Answer \union {Unmade, Unforced}]
    /\ poisoned \in BOOLEAN
    /\ load \in [Caller -> {NoLoad} \union Frames]
    /\ answers \in [Loader -> SUBSET Answer]
    /\ raced \subseteq Loader
    /\ \A k \in Key : front[k] \in Loader => cache[front[k]] # Unmade

LazyInit ==
    /\ front = [k \in Key |-> Absent]
    /\ cache = [l \in Loader |-> Unmade]
    /\ poisoned = FALSE
    /\ load = [c \in Caller |-> NoLoad]
    /\ answers = [l \in Loader |-> {}]
    /\ raced = {}

Holds(lock) == \E c \in Caller : load[c] # NoLoad /\ load[c].lock = lock

Readable == ~Holds("write")

Writable == ~Holds("write") /\ ~Holds("read")

\* What is known of an entry without running its loader.
Known(e) == IF e \in Loader THEN cache[e] ELSE e

\* The caller runs the loader of e.
Enter(c, e, lock) ==
    /\ load' = [load EXCEPT ![c] = [entry |-> e, lock |-> lock]]
    /\ raced' = IF \E d \in Caller : load[d] # NoLoad /\ load[d].entry = e
                THEN raced \union {e} ELSE raced

\* The caller is given answer r for e.
Hear(e, r) == answers' = IF e \in Loader THEN [answers EXCEPT ![e] = @ \union {r}]
                                         ELSE answers

\* Mutated form: only values are kept.
KeepsValues(e, r) ==
    cache' = IF cache[e] = Unforced /\ r # Error THEN [cache EXCEPT ![e] = r] ELSE cache

\* OnceLock::set: the first answer is kept.
Keeps(e, r) ==
    cache' = IF cache[e] = Unforced THEN [cache EXCEPT ![e] = r] ELSE cache

Releases(c) == load' = [load EXCEPT ![c] = NoLoad]

\* force, when the loader answers r: the caller returns r, kept or not.
Answers(c, r) ==
    /\ load[c] # NoLoad
    /\ Keeps(load[c].entry, r)
    /\ Hear(load[c].entry, r)
    /\ Releases(c)
    /\ UNCHANGED <<front, poisoned, raced>>

\* The loader panics: a lock held for writing is poisoned.
Panics(c) ==
    /\ poisoned' = (poisoned \/ load[c].lock = "write")
    /\ Releases(c)
    /\ UNCHANGED <<front, cache, answers, raced>>

\* force, when it needs no loader: the caller returns what is kept.
Recalls(e) == Known(e) # Unforced /\ Hear(e, Known(e)) /\ UNCHANGED <<load, raced>>

\* force, when it needs the loader.
Runs(c, e, lock) == Known(e) = Unforced /\ Enter(c, e, lock) /\ UNCHANGED answers

\* put_lazy works on a poisoned table too.
PutLazy(k, l) ==
    /\ Writable /\ cache[l] = Unmade
    /\ cache' = [cache EXCEPT ![l] = Unforced]
    /\ front' = [front EXCEPT ![k] = l]
    /\ UNCHANGED <<poisoned, load, answers, raced>>

\* Every other method fails on a poisoned table.
LazySet(k, v) ==
    /\ Writable /\ ~poisoned
    /\ front' = [front EXCEPT ![k] = v]
    /\ UNCHANGED <<cache, poisoned, load, answers, raced>>

LazyClear ==
    /\ Writable /\ ~poisoned
    /\ front' = [k \in Key |-> Absent]
    /\ UNCHANGED <<cache, poisoned, load, answers, raced>>

-------------------------------------------------------------------------------
\* Properties

\* lazy.rs:35-42: whoever asks for an entry is given the same answer, an error included,
\* unless two callers ran its loader at a time: the one that comes second returns its
\* own answer although the first one's is kept.
OneAnswer == \A l \in Loader \ raced : Cardinality(answers[l]) <= 1
==============================================================================
