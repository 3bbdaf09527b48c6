----------------------------- MODULE ObjectStore -----------------------------
(***************************************************************************)
(* The semantic object files of a host journal, and PersistentObjectStore  *)
(* over them: one directory per meaning, and in it one immutable file      *)
(* named by the id of its bytes.  An object is encoded in one way, so a    *)
(* meaning has one file.  Publications of journal entries put their        *)
(* objects with the same two port calls.                                   *)
(*                                                                         *)
(* One action is one port call; find_object, whose listing and read meet   *)
(* files that never change, is one action.                                 *)
(***************************************************************************)
EXTENDS Naturals, FiniteSets

CONSTANTS Client,        \* threads and processes over one host directory
          Object,        \* semantic objects, by their meaning
          RebuildBound   \* work_bound: objects a rebuild will read

ASSUME RebuildBoundIsNat == RebuildBound \in Nat
ASSUME ObjectsAreFinite == IsFiniteSet(Object)

VARIABLES
    dirs,     \* meanings with a directory under objects-v2
    files,    \* meanings whose directory has its file
    at,       \* where a caller is, or how its last call ended
    arg,      \* the object of its call, or the one its rebuild missed
    todo,     \* directories its rebuild has listed and not visited
    index,    \* `rebuilt`: objects its rebuild has found
    answered, \* history: objects whose put returned Ok
    due       \* history: what was answered when the caller's call began

storeVars == <<dirs, files, at, arg, todo, index, answered, due>>

\* A call that ended: put, get or rebuild Ok; MissingSemanticObject; NotFound of the
\* port; WorkBoundExceeded; or it died or met a port error.
Ends == {"stored", "found", "rebuilt", "missing", "absent", "bound", "stopped"}

Inside == {"create", "publish", "visit"}

Free(c) == at[c] \in Ends

Moves(c, step) == at' = [at EXCEPT ![c] = step]

Begin(c) == Free(c) /\ due' = [due EXCEPT ![c] = answered]

StoreInit ==
    /\ dirs = {} /\ files = {}
    /\ at = [c \in Client |-> "stopped"]
    /\ arg \in [Client -> Object]
    /\ todo = [c \in Client |-> {}]
    /\ index = [c \in Client |-> {}]
    /\ answered = {}
    /\ due = [c \in Client |-> {}]

-------------------------------------------------------------------------------
Put(c, item) ==
    /\ Begin(c)
    /\ arg' = [arg EXCEPT ![c] = item]
    /\ Moves(c, "create")
    /\ UNCHANGED <<dirs, files, todo, index, answered>>

\* Mutated form: the put is answered with its directory.
CreateDirAcks(c) ==
    /\ at[c] = "create"
    /\ dirs' = dirs \union {arg[c]}
    /\ answered' = answered \union {arg[c]}
    /\ Moves(c, "stored")
    /\ UNCHANGED <<files, arg, todo, index, due>>

\* create_dir: a directory that exists is accepted.
CreateDir(c) ==
    /\ at[c] = "create"
    /\ dirs' = dirs \union {arg[c]}
    /\ Moves(c, "publish")
    /\ UNCHANGED <<files, arg, todo, index, answered, due>>

\* put_immutable: the file is exchanged for nothing, or is there with these bytes.
PublishFile(c) ==
    /\ at[c] = "publish"
    /\ files' = files \union {arg[c]}
    /\ answered' = answered \union {arg[c]}
    /\ Moves(c, "stored")
    /\ UNCHANGED <<dirs, arg, todo, index, due>>

\* find_object for get: the listing of the directory, and the one file in it.
Get(c, item) ==
    /\ Begin(c)
    /\ arg' = [arg EXCEPT ![c] = item]
    /\ Moves(c, CASE item \in files -> "found"
                  [] item \in dirs \ files -> "missing"
                  [] OTHER -> "absent")
    /\ UNCHANGED <<dirs, files, todo, index, answered>>

\* rebuild_datum_index, at open and on request, lists the directories first.
List(c) ==
    /\ Begin(c)
    /\ todo' = [todo EXCEPT ![c] = dirs]
    /\ index' = [index EXCEPT ![c] = {}]
    /\ Moves(c, IF dirs = {} THEN "rebuilt" ELSE "visit")
    /\ UNCHANGED <<dirs, files, arg, answered>>

\* Mutated form: the boundary is taken one object too early.
BoundEarly(c) == Cardinality(index[c]) + 1 >= RebuildBound

BoundReached(c) == Cardinality(index[c]) >= RebuildBound

\* Mutated form: at the bound the rebuild returns what it has.
VisitTruncates(c, item) ==
    /\ at[c] = "visit"
    /\ item \in todo[c] /\ item \in files
    /\ index' = [index EXCEPT ![c] = @ \union {item}]
    /\ todo' = [todo EXCEPT ![c] = @ \ {item}]
    /\ Moves(c, IF todo'[c] = {} \/ Cardinality(index'[c]) >= RebuildBound
                THEN "rebuilt" ELSE "visit")
    /\ UNCHANGED <<dirs, files, arg, answered, due>>

\* Then it visits them one by one, in the order of names that are hashes.
Visit(c, item) ==
    /\ at[c] = "visit"
    /\ item \in todo[c]
    /\ IF BoundReached(c) \/ item \notin files
       THEN /\ Moves(c, IF BoundReached(c) THEN "bound" ELSE "missing")
            /\ arg' = [arg EXCEPT ![c] = item]
            /\ UNCHANGED <<todo, index>>
       ELSE /\ index' = [index EXCEPT ![c] = @ \union {item}]
            /\ todo' = [todo EXCEPT ![c] = @ \ {item}]
            /\ Moves(c, IF todo'[c] = {} THEN "rebuilt" ELSE "visit")
            /\ UNCHANGED arg
    /\ UNCHANGED <<dirs, files, answered, due>>

\* The process dies, or the port reports an error, between two port calls.
Dies(c) ==
    /\ ~Free(c)
    /\ Moves(c, "stopped")
    /\ UNCHANGED <<dirs, files, arg, todo, index, answered, due>>

StoreNext == \E c \in Client : \/ CreateDir(c) \/ PublishFile(c) \/ List(c) \/ Dies(c)
                               \/ \E item \in Object : Put(c, item) \/ Get(c, item) \/ Visit(c, item)

StoreSpec == StoreInit /\ [][StoreNext]_storeVars

-------------------------------------------------------------------------------
\* Properties

\* Every variable stays in its type; a rebuild holds RebuildBound objects at most.
StoreTypeOK ==
    /\ dirs \subseteq Object /\ files \subseteq Object
    /\ at \in [Client -> Ends \union Inside]
    /\ arg \in [Client -> Object]
    /\ todo \in [Client -> SUBSET Object]
    /\ index \in [Client -> SUBSET Object]
    /\ \A c \in Client : Cardinality(index[c]) <= RebuildBound
    /\ answered \subseteq Object
    /\ due \in [Client -> SUBSET Object]

\* README.md:20: an index that was rebuilt is the correspondence: it has every object
\* whose put was answered before the rebuild began, and only objects that are stored,
\* whatever was put while it ran.
IndexComplete ==
    \A c \in Client : at[c] = "rebuilt" => due[c] \subseteq index[c] /\ index[c] \subseteq files

\* backend.rs:83-86: an object whose put was answered is never missing to a get or a
\* rebuild that begins later, by whichever process.
AckedIsFound == \A c \in Client : at[c] \in {"missing", "absent"} => arg[c] \notin due[c]

\* host.rs:530: a rebuild gives up for its bound only when there is more than the
\* bound to visit.
BoundIsHonest == \A c \in Client : at[c] = "bound" => Cardinality(dirs) > RebuildBound
==============================================================================
