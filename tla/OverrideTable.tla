----------------------------- MODULE OverrideTable -----------------------------
(***************************************************************************)
(* OverrideTable: layers looked up front to back, and a mask of names that *)
(* were deleted.  Writes go to the front layer; del and clear also mask.   *)
(* Layers and mask have their own locks: every method takes several steps, *)
(* and other callers, and the owners of the layers, come in between.       *)
(*                                                                         *)
(* The front layer is a LazyTable, the one behind it a table whose methods *)
(* are atomic (HashTable).  has, keys and len read what get and entries    *)
(* read, and force nothing; keys is the listing that clear begins with.    *)
(***************************************************************************)
EXTENDS LazyTable

CONSTANT NoWord

ASSUME NoWordIsNoEntry == NoWord \notin Value \union Loader \union {Absent}

VARIABLES
    back,         \* the layer behind
    masked,       \* names that are hidden until set
    pc, on,       \* a caller's step, or how its call ended, and the keys it is about
    hid,          \* entries, clear: the mask as it was when the listing began
    found, todo,  \* the entries a lookup or listing has read, or the one a set writes;
                  \* the keys whose entries are yet to be forced
    word, due,    \* history: what writers that returned have promised of each key, and
                  \* the keys a writer will give its word for
    saw           \* history: what each lookup could rightly answer so far

over == <<back, masked>>
local == <<on, hid, found, todo>>
promises == <<word, due>>
vars == <<lazy, over, pc, local, promises, saw>>

Outcomes == {"read", "written", "failed"}
Reads == {"check", "look", "fetch", "getload", "lookback", "fetchback",
          "entries", "force", "entload", "entriesback"}
Clears == {"clear", "clearback", "clearfront", "maskall"}
\* The steps of a writer that has changed the front layer and not yet the mask.
Windows == {"unmask", "delload", "giveup", "mask", "maskall"}

Nothing == [k \in Key |-> Absent]

TypeOK ==
    /\ LazyTypeOK
    /\ back \in [Key -> Value \union {Absent}]
    /\ masked \subseteq Key
    /\ pc \in [Caller -> Outcomes \union Reads \union Clears \union Windows]
    /\ on \in [Caller -> SUBSET Key]
    /\ hid \in [Caller -> SUBSET Key]
    /\ found \in [Caller -> [Key -> Entry \union {Absent}]]
    /\ todo \in [Caller -> SUBSET Key]
    /\ word \in [Key -> Value \union {Absent, NoWord}]
    /\ due \in [Caller -> SUBSET Key]
    /\ saw \in [Caller -> [Key -> SUBSET (Entry \union {Absent})]]
    /\ \A c \in Caller : load[c] # NoLoad <=> pc[c] \in {"getload", "delload", "entload"}

Init ==
    /\ LazyInit
    /\ back = Nothing /\ masked = {}
    /\ pc = [c \in Caller |-> "failed"]
    /\ on = [c \in Caller |-> {}] /\ hid = on /\ todo = on /\ due = on
    /\ found = [c \in Caller |-> Nothing]
    /\ word = [k \in Key |-> NoWord]
    /\ saw = [c \in Caller |-> [k \in Key |-> {}]]

\* What the layers have for k, and what a lookup with nobody else about would find.
Beneath(k) == IF front[k] # Absent THEN front[k] ELSE back[k]
Visible(k) == IF k \in masked THEN Absent ELSE Beneath(k)

-------------------------------------------------------------------------------
\* Calls

Goto(c, step) == pc' = [pc EXCEPT ![c] = step]

Continue(c, step) == Goto(c, step) /\ UNCHANGED <<local, over, promises>>

Begin(c, step, keys, entries, hidden) ==
    /\ pc[c] \in Outcomes
    /\ Goto(c, step)
    /\ on' = [on EXCEPT ![c] = keys]
    /\ hid' = [hid EXCEPT ![c] = hidden]
    /\ found' = [found EXCEPT ![c] = entries]
    /\ UNCHANGED <<todo, over>>

\* A writer that begins ends what was promised of its keys, and what others would
\* promise; it will promise nothing of a key that another writer is at.
BeginWrite(c, keys, promised) ==
    /\ LET others == {d \in Caller \ {c} : pc[d] \in Clears \union Windows}
       IN  due' = [d \in Caller |-> IF d = c THEN promised \ UNION {on[o] : o \in others}
                                             ELSE due[d] \ keys]
    /\ word' = [k \in Key |-> IF k \in keys THEN NoWord ELSE word[k]]

\* The call returns; a lookup keeps the keys it was about, with the entries it found.
Return(c, outcome, entries) ==
    /\ Goto(c, outcome)
    /\ on' = [on EXCEPT ![c] = IF outcome = "read" THEN @ ELSE {}]
    /\ hid' = [hid EXCEPT ![c] = {}]
    /\ found' = [found EXCEPT ![c] = entries]
    /\ todo' = [todo EXCEPT ![c] = {}]

ReturnEntry(c, k, e) ==
    Return(c, "read", [Nothing EXCEPT ![k] = e]) /\ UNCHANGED <<over, promises>>

Fail(c) == /\ Return(c, "failed", Nothing)
           /\ due' = [due EXCEPT ![c] = {}]
           /\ UNCHANGED <<over, word>>

\* What the writer gave its word for holds from now on.
Promise(c) ==
    /\ word' = [k \in Key |-> IF k \notin due[c] THEN word[k]
                              ELSE IF pc[c] = "unmask" THEN found[c][k] ELSE Absent]
    /\ due' = [due EXCEPT ![c] = {}]
    /\ Return(c, "written", Nothing)

\* A method of the front layer fails on a poisoned lock.  A call that fails in its first
\* step changes nothing and is left out.
FrontFails(c) ==
    /\ pc[c] \in {"look", "fetch", "entries", "clear", "clearfront"}
    /\ Readable /\ poisoned
    /\ Fail(c)
    /\ UNCHANGED lazy

-------------------------------------------------------------------------------
\* get and entries

StartGet(c, k) == Begin(c, "check", {k}, Nothing, {}) /\ UNCHANGED <<lazy, promises>>

\* The mask is asked, then has of the front layer, which runs no loader.
Check(c, k) ==
    /\ pc[c] = "check"
    /\ IF k \in masked THEN ReturnEntry(c, k, Absent) ELSE Continue(c, "look")
    /\ UNCHANGED lazy

Look(c, k) ==
    /\ pc[c] = "look" /\ Readable /\ ~poisoned
    /\ Continue(c, IF front[k] # Absent THEN "fetch" ELSE "lookback")
    /\ UNCHANGED lazy

\* get of the front layer: the entry may be another by now, or gone.  If its loader
\* answers with an error so does get.
Fetch(c, k) ==
    /\ pc[c] = "fetch" /\ Readable /\ ~poisoned
    /\ \/ Recalls(front[k]) /\ ReturnEntry(c, k, front[k])
       \/ /\ Runs(c, front[k], "read")
          /\ Goto(c, "getload")
          /\ found' = [found EXCEPT ![c][k] = front[k]]
          /\ UNCHANGED <<on, hid, todo, over, promises>>
    /\ UNCHANGED <<front, cache, poisoned>>

\* has of the layer behind, then its get.
Behind(c, k) ==
    /\ \/ pc[c] = "lookback" /\ IF back[k] # Absent THEN Continue(c, "fetchback")
                                                    ELSE ReturnEntry(c, k, Absent)
       \/ pc[c] = "fetchback" /\ ReturnEntry(c, k, back[k])
    /\ UNCHANGED lazy

\* The mask is copied, then the front layer, whose entries are forced one by one.
StartEntries(c) == Begin(c, "entries", Key, Nothing, masked) /\ UNCHANGED <<lazy, promises>>

ListFront(c) ==
    /\ pc[c] \in {"entries", "clear"} /\ Readable /\ ~poisoned
    /\ Goto(c, IF pc[c] = "entries" THEN "force" ELSE "clearback")
    /\ found' = [found EXCEPT ![c] = front]
    /\ todo' = [todo EXCEPT ![c] = {k \in Key : pc[c] = "entries" /\ front[k] # Absent}]
    /\ UNCHANGED <<lazy, over, on, hid, promises>>

\* The first error is that of the listing.
ForceEntry(c) ==
    /\ pc[c] = "force"
    /\ \/ todo[c] = {} /\ Continue(c, "entriesback") /\ UNCHANGED lazy
       \/ \E k \in todo[c] :
             /\ \/ Recalls(found[c][k]) /\ Known(found[c][k]) = Error /\ Fail(c)
                \/ /\ \/ Recalls(found[c][k]) /\ Known(found[c][k]) # Error /\ UNCHANGED pc
                      \/ Runs(c, found[c][k], "none") /\ Goto(c, "entload")
                   /\ todo' = [todo EXCEPT ![c] = @ \ {k}]
                   /\ UNCHANGED <<on, hid, found, over, promises>>
             /\ UNCHANGED <<front, cache, poisoned>>

\* Mutated form: the mask is read when the listing ends.
HiddenAtLast(c) == masked

Hidden(c) == hid[c]

\* The layer behind is listed last: the first layer that has a name decides.
Overlaid(c) == [k \in Key |-> IF k \in Hidden(c) THEN Absent
                              ELSE IF found[c][k] # Absent THEN found[c][k] ELSE back[k]]

ListBack(c) ==
    /\ \/ pc[c] = "entriesback" /\ Return(c, "read", Overlaid(c))
       \/ /\ pc[c] = "clearback" /\ Goto(c, "clearfront")
          /\ found' = [found EXCEPT ![c] = Overlaid(c)]
          /\ UNCHANGED <<on, hid, todo>>
    /\ UNCHANGED <<lazy, over, promises>>

-------------------------------------------------------------------------------
\* set, del and clear

StartSet(c, k, v) ==
    /\ Begin(c, "unmask", {k}, [Nothing EXCEPT ![k] = v], {})
    /\ BeginWrite(c, {k}, {k})
    /\ LazySet(k, v)

\* del of the front layer removes the entry and forces it to return it: an error of the
\* loader, kept or new, ends the call before it masks.
StartDel(c, k) ==
    /\ Writable /\ ~poisoned
    /\ \/ /\ Recalls(front[k])
          /\ Begin(c, IF Known(front[k]) = Error THEN "giveup" ELSE "mask", {k}, Nothing, {})
       \/ Runs(c, front[k], "write") /\ Begin(c, "delload", {k}, Nothing, {})
    /\ BeginWrite(c, {k}, {k})
    /\ front' = [front EXCEPT ![k] = Absent]
    /\ UNCHANGED <<cache, poisoned>>

GiveUp(c) == pc[c] = "giveup" /\ Fail(c) /\ UNCHANGED lazy

\* clear masks what a listing has found, once the front layer is empty.
StartClear(c) ==
    /\ Begin(c, "clear", Key, Nothing, masked)
    /\ BeginWrite(c, Key, {k \in Key : Visible(k) # Absent})
    /\ UNCHANGED lazy

ClearFront(c) == pc[c] = "clearfront" /\ LazyClear /\ Continue(c, "maskall")

\* Mutated form: clear masks nothing.
MasksOfDel(c) == {k \in on[c] : pc[c] = "mask"}

\* What del and clear hide.
Masks(c) == {k \in on[c] : pc[c] = "mask" \/ found[c][k] # Absent}

\* The second half of set, del and clear.
ChangeMask(c) ==
    /\ \/ pc[c] = "unmask" /\ masked' = masked \ on[c]
       \/ pc[c] \in {"mask", "maskall"} /\ masked' = masked \union Masks(c)
    /\ Promise(c)
    /\ UNCHANGED <<lazy, back>>

-------------------------------------------------------------------------------
\* Loaders, and the owners of the layers

Load(c) ==
    \E r \in Answer :
       /\ Answers(c, r)
       /\ \/ /\ pc[c] = "getload"
             /\ Return(c, "read", found[c])
             /\ UNCHANGED <<over, promises>>
          \/ pc[c] = "delload" /\ Continue(c, IF r = Error THEN "giveup" ELSE "mask")
          \/ pc[c] = "entload" /\ IF r = Error THEN Fail(c) ELSE Continue(c, "force")

LoaderPanics(c) == load[c] # NoLoad /\ Panics(c) /\ Fail(c)

\* The owner of a layer writes k.  Of the front layer, that ends a promise that is no
\* mask; of the one behind, only what a clear that is listing would promise.
OwnerPutsLazy(k, l) ==
    /\ PutLazy(k, l)
    /\ word' = [word EXCEPT ![k] = IF @ = Absent THEN @ ELSE NoWord]
    /\ due' = [d \in Caller |-> due[d] \ {k}]
    /\ UNCHANGED <<over, pc, local>>

OwnerWritesBack(k, v) ==
    /\ back[k] # v
    /\ back' = [back EXCEPT ![k] = v]
    /\ due' = [d \in Caller |-> IF pc[d] \in Clears THEN due[d] \ {k} ELSE due[d]]
    /\ UNCHANGED <<lazy, masked, pc, local, word>>

-------------------------------------------------------------------------------
CallStep(c) ==
    \/ \E k \in Key : StartGet(c, k) \/ StartDel(c, k) \/ \E v \in Value : StartSet(c, k, v)
    \/ StartEntries(c) \/ StartClear(c)
    \/ \E k \in on[c] : Check(c, k) \/ Look(c, k) \/ Fetch(c, k) \/ Behind(c, k)
    \/ ListFront(c) \/ ForceEntry(c) \/ ListBack(c)
    \/ ClearFront(c) \/ ChangeMask(c) \/ GiveUp(c)
    \/ Load(c) \/ LoaderPanics(c) \/ FrontFails(c)

OwnerStep(k) == \/ \E l \in Loader : OwnerPutsLazy(k, l)
                \/ \E v \in Value \union {Absent} : OwnerWritesBack(k, v)

\* What a lookup of k may answer in this state: what is visible; or, while a writer is
\* between layer and mask, what the layers have or nothing.
Possible(k) ==
    {Visible(k)} \union
    (IF \E c \in Caller : pc[c] \in Windows /\ k \in on[c] THEN {Beneath(k), Absent} ELSE {})

\* Each lookup under way gathers what it may answer; after a write of the owner that is
\* anything.
Watches(c, k, owned) ==
    IF pc'[c] \notin Reads \union {"read"} \/ k \notin on'[c] THEN {}
    ELSE IF pc[c] \in Outcomes
         THEN IF pc'[c] = "read" THEN saw[c][k] ELSE Possible(k)'
         ELSE IF k \in owned THEN Entry \union {Absent} ELSE saw[c][k] \union Possible(k)'

Watch(owned) == saw' = [c \in Caller |-> [k \in Key |-> Watches(c, k, owned)]]

Next == \/ \E c \in Caller : CallStep(c) /\ Watch({})
        \/ \E k \in Key : OwnerStep(k) /\ Watch({k})

Spec == Init /\ [][Next]_vars

-------------------------------------------------------------------------------
\* Properties

\* override_table.rs:18-22: a set that returned is seen, and what del or clear hid stays
\* hidden, until the next writer of the key begins, whatever callers of other keys and
\* the owners of the layers do.  Writers of a key that overlap promise nothing: a set
\* between the two steps of a del, or a del between those of a set, can leave the key
\* unmasked and the front layer without it.  Neither does a writer that failed.
WordIsKept == \A k \in Key : word[k] # NoWord => Visible(k) = word[k]

\* override_table.rs:161-236: a get or entries that runs beside writers finds each key as
\* it was at some moment of the call, or as a writer was making it.  A lower layer's
\* value that stayed shadowed or masked throughout is never found.
ReadsAreOfTheCall ==
    \A c \in Caller : pc[c] = "read" => \A k \in on[c] : found[c][k] \in saw[c][k]
==============================================================================
