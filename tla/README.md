# sim-storage in TLA+

Models of the storage backends of `sim-storage`, the runs that check them with
TLC, and theorems about them that TLAPS proves. Paths are relative to `src/`;
`crates/` is left out of crate names where no confusion is possible.

`PROJECT.json` is the index: components, runs, hazards with the line where each
bites, findings, theorems, the mutants that show each property can fail, and
for every definition the source lines it stands for.

    tlc -workers 2 -config HostJournal_publish.cfg MCHostJournal
    tlapm HostJournalProofs.tla

## 1. The system

`sim-storage` is a workspace of libraries that a runtime loads. Each satisfies a
contract of the kernel (`sim-kernel`, outside the repository): `ListBackend`,
`Table`, `Dir`. The kernel passes a context `Cx` into every call, and a backend
may call back into it (force a thunk, ask a value for its expression), which is
how one backend gets to call another. Backends are shared as `Arc`s; their state
is behind mutexes or in a store they do not own. There is no scheduler, timer or
background thread in the repository: concurrency is that of the callers, threads
of one process, or processes over one directory.

### Components

| Component (crate) | State | Operations | What is hard | What makes it correct |
|---|---|---|---|---|
| Journal, host backend (`sim-lib-journal`: `host.rs`, `host/admission.rs`, `lib.rs`) | leaves of a host directory: one mutable `state` leaf (format, fence, namespace, v1 prefix, head, locator), immutable entry leaves, objects, prefix descriptors, format markers | `acquire_lease`, `publish`, `publish_then`, `put_datum`, reads | processes interleave at every port call; crash at any of them; lost acknowledgements and redelivery; migration of a v1 journal while a v1 writer still runs; two-step verify then exchange | the head on disk always names a complete closure; one log that only grows, only under the newest lease; what was acknowledged stays; a post-commit action runs at most once per commit, in order, and alone |
| Journal, memory backend (`memory.rs`) | `Inner` under a mutex, an admission mutex | the same trait | an action runs under one mutex, beside the other; a panic poisons it | the same log; nobody hangs |
| Semantic object store (`object.rs`, `persistent.rs`, `host.rs:160-260,500-560`) | directories and files under `objects-v2`, a derived index | put, get, rebuild at open and on request | a rebuild runs beside puts; put is two port calls | acknowledged objects are found; the index is exactly the correspondence; the bound refuses only what exceeds it |
| Replay, snapshot, projection, codec (`replay.rs`, `snapshot.rs`, `projection.rs`, `native_codec.rs`) | none: functions of a state that was read | | boundaries of decoding | replay of a prefix then a suffix is replay of the whole |
| Storage port (`sim-storage-port`) | none here: a trait and an observation wrapper | compare-exchange, guarded exchange, create, rename, remove | its contract is what every host backend relies on | |
| Sealed generations (`sim-table-sealed/src/generation.rs`, `destroy.rs`) | staged records, complete manifests and the selected head of a lane in a store; key of each generation in a provider; the rotation guard | `rotate`, `recover`, `destroy_generation` | three multi-step protocols of which one takes the guard; refusals, panics, restarts between steps | the head only advances; evidence of destruction is never false; recovery reports consistently |
| Sealed backups (`backup.rs`) | envelopes tracked by the provider | `backup`, `restore` | backup beside destruction | evidence accounts for every copy |
| Sealed table (`table.rs`) | a backing `Dir`, a set of used nonces | `Table` and `Dir` | the set is shared by clones and children; calls of the backend and requests for the key interleave with everybody else's; the owner of the backend moves what is stored | a nonce is never used twice; nothing is given out for a place it was not sealed for; answers and failures are those of the call |
| Override table (`sim-table-override`) | layers, a mask | `Table`, copy-up, masking | front layer and mask change in separate steps | a deleted key stays hidden, a written key visible |
| Lazy table (`sim-table-lazy`) | a loader or cached value per key | `Table`, `put_lazy` | the loader of `get` runs with the map locked for reading, that of `del` for writing, that of `entries` unlocked | one answer per entry is given to all |
| Lazy lists (`sim-list-lazy`) | cells with two `OnceLock`s; a shared buffer, its base, a census of views, a driver | `car`, `cdr`, `len_cmp`, `get`, `for_each`, `clone`, `drop` | the driver is called with the mutex held and may force cells others are forcing; views come and go while the buffer is filled; errors and panics in the middle | the buffer is what a view can reach; a cell gives one answer; answers are true of the whole list; nobody waits in a circle |
| Db directory (`sim-table-db`) | values by path and symbol, and directories by path, under one lock | `Table`, `Dir`, compare-exchange | handles outlive their directory; directories go by the local part of a symbol, values by the whole | a symbol that made a directory is no value while the directory is there |
| Mounted directory (`sim-table-mount`) | a root `Dir` and a registry of mounts | routing, mount, unmount | check of the root and insertion of the mount are apart; mounts and walks go by local parts | reads follow writes; a mount shadows nothing it asked for; tables stay leaves |
| Relation directory (`sim-table-relation`) | rows, a next id and a generation under a mutex, a head slot in another table | `Table` and `Dir`; a planned change of a copy, installed after the exchange of the slot | handles are paths, and may be stale; two stores change one after the other; handles without the head | the rows are one tree; slot and state agree; a listing is of its call |
| Hash table (`sim-table-hash`) | one map under a lock | `Table`, compare-exchange | stored values are asked under the lock | |
| Mutual-projection porch (`sim-mutual-projection`) | offers, acceptances, receipts under a mutex, a clock | offer, accept, deliver, read, close | one operation reads the clock more than once | nothing is delivered outside the offer |
| Relation site (`sim-relation-site`) | limits, a provider | one checked request at a time | limits looked at after the effect | |
| Artifact facets (`sim-artifact-facet`) | none: checked images and a three-way merge | facet, images, `merge_facet` | alignment of repeated lines, insertions beside replacements, a last line without an end, a host that asks again | both edits are in the merge; the sides are alike; asking again adds nothing |
| Cons list, HTTP directory, relation CLI, build tasks | none shared | | | |

### Interactions

`Journal<B>` holds no state: it verifies a snapshot and a batch and hands an
`Admission` to the backend. The host backend talks to a `HostDir` port and to
nothing else; `PersistentObjectStore` and the journal write the same object files.
`SealedDir`, `MountedDir`, `OverrideTable` and `RelationDir` are built over other
tables and call them while holding none, or only some, of their own locks.
`GenerationManager` talks to a key provider and a generation store.

### Hard behaviours

`PROJECT.json` lists forty of them with lines. Most are of five kinds: a state
leaf or lock that is read, released and then acted on (journal admission, mount,
override, sealed `del`); two stores changed one after the other (generation store
and provider, head slot and relation state, object directory and file);
redelivery after a lost answer; callbacks under a lock (lazy list, db, hash,
post-commit actions); and bounds (fence, work bound, nonce budget).

## 2. Modules

| Module | Models | State ↔ code |
|---|---|---|
| `JournalLog` | the abstract journal: what `lib.rs` and the trait of `backend.rs` promise whatever the backend | `log`, `fence`, `lease`, `calls`, `acked` |
| `HostJournal` | host backend under `Journal<B>` over the port | `state` is the `state` leaf, compared as a whole; `objects`, `leaves`, `descriptors`, `reserved` the immutable files; `guard` the guarded exchange; `old` what a v1 writer captured; per caller `pc`, `lease` and its stack (`adm`, `seen`, `draft`, `done`) |
| `MemoryJournal` | memory backend under `Journal<B>` | `log`, `objects`, `fence` are `Inner`; `admission`, `poisoned` the outer mutex |
| `ObjectStore` | object files, `PersistentObjectStore`, the index | `dirs`, `files`; per caller `todo`, `index` of its rebuild |
| `GenerationManager` | rotate, recover, destroy over store and provider | `staged`, `complete`, `selected` of the store; `live` keys; `rotating`, `poisoned` the guard |
| `LazyTable` | the lazy table: its map, lock and entries, one operator per critical section | `front` the map; `cache` the `OnceLock` of every entry with a loader; `load` the loader each caller runs and how it holds the lock meanwhile; `poisoned` |
| `OverrideTable` | two layers and the mask, with their callers; the front layer is a `LazyTable` | `back` the layer behind, a table whose calls are atomic; `masked`; per caller `pc` and its locals `on`, `hid`, `found`, `todo` |
| `DbDir` | the store of db directories, one operator per method | `values`, `dirs` are the two maps of `Store`: a value goes by its directory and symbol, a directory by local parts (`ChildPath`, `DirPath`); `made` by which symbols directories were made |
| `MountedDir` | a mounted namespace over db directories, with its callers | `mounts` the registry; per caller `pc`, the call (`op`, `path`), the walk (`node`, `base`, `depth`, `virt`) and what `entries` collected (`kids`, `leaves`) |
| `HashTable` | one map under one lock, one operator per method | `map` |
| `RelationDir` | relation directories over one head slot, whose table is a `HashTable` | `nodes`, `nextId`, `generation` are `State`; `map` the table of the slot; `opened` the paths handles were given for; `listing` one call of `entries` between two locks |
| `SealedTable` | sealed tables, their clones and children, over one backing directory | `store` the backend; `grant` what the host gives for the key; `spent` the nonces of each family; `call` the call of each caller, at `step` |
| `LazyLists` | a list with its views, and the cells that may feed it | `next`, `made` the driver; `buffer`, `base`, `live`, `done` are `IterState`; `holder`, `poisoned` its mutex; `cache` the `OnceLock`s, with who is forcing; `view`, `call` |
| `ArtifactMerge` | a facet, its three images and the law, with a host that asks | `facet`, `base`, `observed`, `intended`, `outcome` |
| `HostJournalProofs`, `MemoryJournalProofs`, `GenerationManagerProofs`, `OverrideTableProofs`, `RelationDirProofs`, `MountedDirProofs`, `SealedTableProofs`, `LazyListsProofs` | theorems | |
| `MC…` | bounds and symmetry for TLC | |

Conventions. One action is one call of the thing outside the lock: a port call, a
store or provider call, a critical section. A method of several such calls is
several actions of one caller, whose position is `pc[c]`; between any two the
others run, the call may fail or the process die. A variable marked *history*
(`calls`, `acked`, `answered`, `due`, `sealed`, `overlap`,
`word`, `saw`, `answers`, `raced`, `made`, `sure`, `misread`, `clean`, `strayed`, `lost`, `bypassed`,
`seals`, `written`, `heard`, `ended`, `failed`, `former`) is written and never read by a
guard. A definition marked *Mutated form* is not used by the specification: it is
the plausible mistake that a listed mutant puts in the place of a definition, to
show which property notices it.

**Heads are chains.** The canonical id of an entry hashes its sequence number, its
predecessor's id, its kind and its payload ids, so an id stands for the chain of
entries that ends there. The models let a head *be* that chain, a sequence of
items, and `IsPrefix` is "is reachable from". This assumes that the hash has no
collisions, as the code does. An object is named by its item, which assumes one
encoding per object.

**HostJournal** follows `acquire_lease` (read and verify the leaf; for a first
lease write the prefix descriptor, reserve a namespace by creating its marker,
draft the envelope; exchange, and retry on a mismatch), `publish`/`publish_then`
(verify against a snapshot; read the leaf again and check fence and head; for an
exact redelivery confirm by exchanging the leaf for itself; otherwise put the
objects, put the entry leaves, exchange the leaf, and with an action run it inside
the guarded exchange), and `put_datum`. `Crash` is a death, a refused port call or
a failpoint of `host/failpoint.rs` at any step. Files that are immutable and
content addressed are read in the step that uses them: they cannot change.

**MemoryJournal** has the same calls with one critical section for a commit.
`admission` is held from the commit to the end of the action, which may panic.

**ObjectStore** separates `create_dir` from the exchange of the file and the listing
of directories from each visit.

**GenerationManager** has one action per call of store or provider, refusal of each,
a panicking build closure, and a restart that loses the guard. `overlap` records
whether the callers have let a recovery, or a destruction of the same generation,
run beside a rotation; the code neither forbids nor documents it. A destruction may be begun
of any id, as `destroy_generation` looks nothing up: again after it was refused half way, or
of what was never completed.

**OverrideTable** has one action per lock that a method takes. `get` asks the mask, then
`has` of the front layer, then its `get` (which may find the entry changed or gone), then
the same two calls of the layer behind; `entries` copies the mask, copies the front
map, forces the copied entries one by one and lists the layer behind; `set` and `del`
write the front layer and then the mask; `clear` lists, empties the front layer and
masks what it listed. Forcing an entry whose cache is empty is two steps, `Runs` and
`Load`, because the loader runs in between. It keeps the lock it was called under: the
guard of `match self.read()?...` lives as long as the match. The owner of a layer writes
it behind the override's back (`OwnerStep`). A loader is external: it answers anything,
an error included, or panics; it does not use its own table, which would wait for
ever. `has`, `keys` and `len` read what `get` and `entries` read and force nothing.

**DbDir** keeps the difference that `child_path` (`db_dir.rs:72-82`) makes. A name is a
symbol, which may have a namespace. A value is stored under the symbol; a directory, its
path and the path of every handle are made of local parts. So `set` is refused by a
directory of the local part, by whichever symbol it was made (`NoDir`), `mkdir` only by a
value of the very symbol, and `x` and `ns/x` are two values but one directory. `Local` takes
the namespace away.

**MountedDir** has one action per lock: a method looks into the registry (once for its own
refusal, once in `resolve_current`), walks down the owning store one `opendir` at a time,
and then calls one method of the directory it reached. That directory is a handle and may be
gone: the methods of `DbDir` look at the path they are given only. So a `mkdir` or a `set`
that races an `rmdir` leaves orphans, which a later `mkdir` of the parent shows again; the
model has them. Every mount goes through `root_exact_kind` (walk, `is_dir`, `has`) and then
the registry. A path can be a directory, be opened, and be removed again, so a handle may
exist for every path and the model does not record which were opened. Mounts are at local
parts and are looked up by them (`ChildHasMount`, `StartGet`), walks and mounts ask a store
for plain symbols (`Walk`, `Has`), and the calls of `Table` and `Dir` pass the symbol on.
Left out: handles on the backing stores themselves, which bypass the mounts (the caller of
`new` and of `mount_dir` has them, and the namespace's `mkdir` returns one), and one target
mounted at two places. A mount is checked against the root only: one below a mounted
directory can shadow a name of that directory's store.

**RelationDir.** A mutation holds the mutex from the first look to the last and is one
action: resolve the path, check the plan, exchange the slot if the handle has the head,
install. `LoseAnswer` is the exchange that was made and answered with an error, after
which the slot is one ahead (`lost`). `entries` takes the lock for the keys and again for
each value. Names keep the symbol and its local part, because the walk compares local
parts and `child` compares symbols: two symbols can spell one part of a path, and the
walk then finds the first of them. A handle may be stale, its directory be gone or be a
value by now. `Meddle` is anybody else who writes the slot.

**SealedTable** has one action per call of the backend or request for the key. The cipher
and the blinding are external: a stored object is what it was sealed with (`Binding`,
`Encoded`), and it opens under exactly that. The backend is a `DbDir` or one like it:
directories are among its keys and `get` answers nil for them, so that `keys`, `entries`,
`len` and `has` answer an authentication failure where the backing directory holds a
subdirectory, or where an entry is deleted between the two calls (`Explains`). The
host replaces or revokes the key at any time; the owner of the backend puts stored objects
back, also under other names, lanes and generations. Nonces are compared within a family
(`new`, its clones and children), as `child` shares the set; two tables made by separate
`new`s share nothing, which is the callers' business.

**LazyLists** models elements by their position. A fill holds the mutex while the driver
runs; the driver is an iterator, which answers or panics, or the cursor of a list made by
`prepend`, which takes its node before it reads it and forces cells that others may be
forcing. `get` and `for_each` are several calls, each with the mutex for itself, which keep
a view of the tail meanwhile. Thunks and iterators are external, come back, and do not use
the list they feed: one that does waits for itself (`iter.rs:107`). A clone of a cell made
before its thunk has run forces again; it is not modelled.

**ArtifactMerge** is the law as operators, in the order of its checks, with the comparison
table as a recursive function and the alignment read off it as the code does. A text is
the sequence of its lines, of which some have no end of line. The host asks once, and then
once more: with the sides swapped, or after it has written the postimage. Paths, ids and
disclosure are left out.

Compositions: `MountedDir` acts on its stores by the operators of `DbDir` (EXTENDS);
`OverrideTable` is composed with `LazyTable` (EXTENDS: its calls are
steps of the layer's methods); `RelationDir` exchanges its slot in a `HashTable` (INSTANCE); `HostJournal` and `MemoryJournal` each implement `JournalLog`
(refinement mapping: `log <- state.head, fence <- state.fence`, and the identity).

## 3. Runs

| Run | Asks | Bounds and why they are enough |
|---|---|---|
| `publish` | safety of the host backend and that it implements `JournalLog`, with migration of a v1 journal | 2 callers, 2 items, fences to 2, 2 namespaces, batches of one, chains of two, v1 prefix of at most one. Two callers are both sides of every race, and two of them can take the two leases, share one, and both upgrade; two namespaces let both reserve; an item put by `put_datum` and never published appears as the other item. The expected head of at most one entry makes an exact redelivery, a stale one and a fresh batch all possible. |
| `returns` | batches of two entries (the locator chain inside a batch, redelivery of a prefix of the log), both kinds of publication, logs past `work_bound`; every call returns | 1 item, no v1 prefix, otherwise as above; the log can reach three entries with a work bound of two |
| `memory` | memory backend: safety, refinement and that calls return, with panics | 2 threads, 2 items, batches to two; `MaxLog` stops new calls, not running ones |
| `objects_index` | rebuild beside puts, deaths and the bound | 2 processes, 3 objects, work bound 2: one object more than the bound |
| `generation_lifecycle` | head, evidence and report beside failures and restarts | 2 threads, ids 1 and 2: an older and a newer generation; each may be rotated to again after a failure or a destruction |
| `overlay` | lookups, listings and writers of an override table beside each other, the owners of its layers, and loaders that fail or panic | 2 callers, 1 key, 2 values, 1 loader. Every step treats each key by itself, except that an error on one key ends a listing of all, so one key shows what a key can suffer; two values tell a shadowed value from the one above it; every key can have the loader, a value, or nothing, in front |
| `namespace` | two relations over one slot, mutated through handles with and without the head, beside a listing, a lost answer and others who write the slot | one path part, spelt by two symbols, and the root's illegal name; paths of one part, so a row is in the root or one below; four mutations of one relation (make, remove, make again, fill) and one of the relation that comes second to the slot. `r2` is there to be refused; more mutations of it repeat what the first did |
| `sealed` | calls of two callers beside a host that changes the key and an owner who restores objects | a table, its child at the one name, and a second table on the first one's lane with the next generation and nonces of its own: every way two tables can differ (lane, generation, family). Two keys, three nonces and a budget of two, so that a family can exhaust it and a nonce can come twice; three calls and one restoration, which reach every pair of overlapping calls with a third that has prepared the state |
| `lists` | views and cells used by two threads while sources fail and panic | two cells, an iterator of two elements, two views given out (a third is the temporary one of a walk), three calls, positions to two: a list that ends inside, at, or behind what is asked |
| `merge` | every base, observation and proposal of up to three lines | three lines and one without an end, so that a base can have a line before, at and after a change; facets with a whole path, two regions, a work bound that is exceeded and the policy that merges nothing; three that are refused. Modes vary with texts of up to one line, as the law looks at them apart |
| `route` | one namespace used by callers beside mounts and unmounts | 2 callers; a plain symbol and one of the same local part with a namespace; paths of at most two plain symbols, and the other symbol in the top directory, where it meets values, directories and a mount of that part; 1 value; one target that can be mounted at `/a` and one at `/a/a`, below it. A race has two sides here, and a third actor is there for free: `Unmount` is one step of anybody. A store has a parent and a child, which is what prefixes distinguish; local parts next to each other share nothing. One mount point can be a table, a directory, above or below the other, or virtual parent of it. One value tells written from deleted, which shows a wrong turn of a reader, as either can be in either store. Writers are remembered (`Watched`) of the path that mounts can route to two stores and of the one with a namespace |
| `mount_entries` | *finding*: `entries` panics beside an unmount | as `route`, with two values and without the second symbol |

Symmetry in callers and items is used only in runs without liveness properties.
`lists` and `merge` set CHECK_DEADLOCK FALSE: the number of calls, and of
questions a host asks, is bounded. The other `pass` runs have no deadlock: a caller between calls can always begin one
(host, objects, generations) or a datum can be put (memory), so the absence of
deadlock says little there; that no *call* is stuck is what `CallsReturn` says.

Bounds in guards, which the code does not have: `MaxNamespaces` stands for the
attempts of `reserve_namespace`, `MaxLog` stops new publications of the memory
model, `FirstPrefixes` bounds the v1 writer, `MaxGeneration` and `MaxDepth` bound the
relations, `MaxCalls`, `MaxRestores`, `Length` and `Deepest` the calls of sealed tables and
lists. `MaxFence` is `u64::MAX` and
`WorkBound` and `RebuildBound` are `work_bound`, all of the code, at small values.

### Properties

*Host journal.* `CommittedClosure`: whatever step a crash falls on, the leaf on disk
names a prefix, namespace, entry leaves and objects that exist. `AckedSurvives`: an
acknowledged chain stays a prefix of the log. `ActionsInOrder`: post-commit actions
run at most once per commit, in log order. `ActionUnderExclusion`: while one runs,
head and fence are those of its commit. `EnvelopeAdvances`: format, namespace and
prefix are selected once, fence and head never fall. `ImplementsLog`. `CallsReturn`.
The logs of `publish` stay within `work_bound`; past it `returns` asks only that calls come
back, and that the log stays whole there is left to the theorems, for logs of any length.

*Memory journal.* `StateVerifies`: every payload of the log is stored although a
batch was checked against an older snapshot; `ImplementsLog`, `CallsReturn` as above.
`ImplementsLog` of both backends includes the bound of the fence: `JournalLog` has no
`Acquire` at `MaxFence`.

*Object store.* `IndexComplete`: a finished rebuild has what was acknowledged before it
began, and only what is stored. `AckedIsFound`. `BoundIsHonest`: the bound is
reported only over a store that exceeds it.

*Generations.* `HeadOnlyAdvances` and `ReportIsConsistent` hold as long as callers keep
recoveries (and, for the first, destructions of the same generation) apart from
rotations; the condition is the history variable `overlap`, so that every such
interleaving is still explored and `EvidenceHolds` is checked over all of them.

*Override table.* `WordIsKept`: what a set, del or clear promised when it returned is
what a lookup finds (a lookup with nobody else about, `Visible`) until the next writer of
the key begins. `word` holds the promises and `due` those a running writer will make; a
writer drops from `due` the keys another writer is at. The condition is needed: layer
and mask change in two steps, and the second half of a set that a del overlaps unmasks a
key whose front entry is gone, so that the value of the layer behind appears. A del that
fails in the loader has taken the entry out and not masked it; it promises nothing. The
owner of the front layer may overwrite a value, never undo a mask. `ReadsAreOfTheCall`
relates what a `get` or `entries` returns to all that was visible, or was
being made, in the course of the call: although it reads mask and layers at different
times, it never finds a value that stayed hidden throughout. `OneAnswer`: callers agree
on what an entry is, unless its loader ran twice at a time.

*Mounted directory.* `ReadYourWrites`: a `get` that no call touches while it runs finds what
the last writer of the name left, although writer and reader each resolve the mounts and
walk by themselves, also through directories that come and go. `word` holds what a writer
left, `due` which running writers will promise it, `sure` what a running `get` must find.
`Watched` says of which paths; the theorem is about any set of them, so also about all.
`Touches` is as narrow as the code allows: `mkdir`, a `set` or `clear` elsewhere, and other
mounts must not change what is found, nor what is done to another symbol of the same local
part, unless it is an `rmdir` above the path. `MountsShadowNothing`: a mount that no `set`
of its name and no `mkdir` on the way to its point overlapped, by whichever symbol, shadows
no directory of the root and no value of the plain symbol, however long it stays; of one
that was overlapped the code does not hold it, because each side looks before the other acts
(`mount_dir.rs:136-143`; no document says that mounts and writes exclude each other). That
it shadows no value of *another* symbol of that local part does not hold, see 4.
`MadeIsNoValue`: the symbol by which a directory was made is no value while the directory is
there, whatever handles on removed directories do; another symbol of that local part can be
one, as `mkdir` looks for its own symbol only. `TablesAreLeaves`.

*Relation directory.* `NamespaceIsTree`: every row hangs below an older directory row,
unless a stale handle put it below a value, which `resolve_id` does not look at
(`strayed`). `IdsAreNotReused`. `OneLineage`: while every write goes through the head and
nobody else touches the slot, the slot follows the one relation that was ever written, and
is one ahead exactly after a lost answer. `EntriesAreOfTheCall`: each pair that `entries`
returns was there during the call, and what stayed is returned.

*Sealed table.* `NonceIsUsedOnce`, over a family and within its budget, also when two
seals overlap or fail after the nonce was spent. `GivesOutWhatWasSealed`: whatever is
restored where, an answer was sealed for the lane, generation and name it is given out
for. `AnswersAreOfTheCall`: a value was in its place during the call, nil means that there
was nothing for a time, and an authentication failure has one of the reasons above.
`DelRemoves`: unless it was given another key the second time, a `del` that returns has not
left its entry there throughout.

*Lazy lists.* `ViewsAreCovered`: the census is the views there are, the temporary ones of
`get` and `for_each` included, and the buffer is exactly what they reach.
`CellAnswersOnce`. `EndIsTrue`: a list ends only where its source said so, or where a call
has failed while it read: after an error of the cursor the list looks exhausted and is
silently shorter, though `fill_to`'s comment (`iter.rs:102-104`) knows only "available or
the source is exhausted". `AnswersAreTrue`: each answer is true of the whole list, by a
definition that knows nothing of buffers. `NoCircle`: waiting for the mutex and for each
other's thunks, callers never wait in a circle.

*Artifact merge.* `EditsOfBothAreMade` compares the merged text with a reference that
knows no table: for some longest common subsequences of base and sides, what a side wrote is
in the merge, in its order, and what a side removed is not. `LinesStayWhole`: a line
without an end is never followed by another. `SidesAreAlike`: swapping observation and
proposal changes neither the merge nor the reason of a conflict. `RetryAddsNothing`: a host
that lands an answer and asks again gets no other, where no text repeats a line.

### Fairness

`FairSpec` of the host journal is weak fairness of `Continue(c)` for each caller: a
caller inside a call takes its next step if it can. That is what a running thread
does; a call that dies is `Crash`, which is not required of anybody. Nobody has to
*begin* a call. `acquire_lease` retries without a bound and is lock-free, not
wait-free: a retry is caused by somebody's success. In the model successes are
bounded (fences by `MaxFence`, publications by the log that the batches can
make), so the loop ends; against an unbounded number of competing successes the
code gives no such promise and the run does not claim one.

`FairSpec` of the memory journal is weak fairness of each thread. A mutex that is
not fair is no obstacle: it is held between steps only across a post-commit
action, which ends or panics, and the commits are bounded as above. A post-commit
action that never returns is excluded: `publish_then` runs it on the caller's
thread and promises nothing of it.

## 4. Findings and known behaviours

`mount_entries`: `MountedDir::entries` looks a collected table mount up again with `expect`
(`sim-table-mount/src/mount_dir.rs:427`) and panics when it was unmounted in between; so
does `len`, which calls it. The run has the shortest trace.

The models also contain the following. No run is kept for them; the properties above are
stated so that they hold beside them.

* An exact redelivery can be told `WrongHead` by the host backend, under a lease that is
  still current, when another holder of the lease changes the leaf between the read and
  the confirming exchange (`host/admission.rs:46-60`) or an identical batch wins the
  commit; `sim-lib-journal/src/lib.rs:75` calls an exact redelivery a no-op. The memory
  backend answers it.
* After a put that stops between `create_dir` and the file, `rebuild_datum_index` and
  `PersistentObjectStore::open` fail until the same value is put again (`host.rs:168`).
* `recover` takes no guard: a rotation that has passed its rollback check can select an
  older generation over the recovered one (`generation.rs:146-172`). `overlap` is the
  condition under which `HeadOnlyAdvances` is stated.
* A mount asks the root for the plain symbol of its point (`mount_dir.rs:213-217`) and from
  then on answers for every symbol of that local part (`mount_dir.rs:249-252`, `322`).
  `set(ns/x, v)` and then a mount at `/x` both succeed, with nobody else about; from then on
  `get(ns/x)` answers the mount, and `v` is out of reach. `BROCHURE.md:15` of the crate says
  that conflicts fail closed instead of silently shadowing data. The model contains it;
  `MountsShadowNothing` speaks of the plain symbol.
* `sim-table-lazy/src/lazy.rs:49` says that a loader runs at most once. Two callers can
  find the cache empty and both run it; the later one returns its own answer (`raced`).
  `OneAnswer` is stated of the other entries, so it does not cover this race.
* A set and a del of one key of an override table that overlap can leave the key unmasked
  with nothing in front; `due` leaves such pairs out of `WordIsKept`.
* A directory `x` and a value `ns/x` can stand side by side in a `DbDir`
  (`db_dir.rs:332-338`): `set(ns/x, v)` and then `mkdir(x)`. From then on `set(ns/x, …)` is
  refused as a directory, and `is_dir(ns/x)` and `get(ns/x)` both find something.
* `SealedConfig::nonce_budget` is documented per decorator instance (`table.rs:77`); it is
  that of a table with its clones and children.
* A merge of texts that repeat a line takes the first match. With base a,a, observation
  b,a and proposal a,a,a the law merges b,a,a and, asked again after that was written,
  b,a,a,a. And a change may be placed outside its region: with region 0..1, base a,a,
  observation a and proposal b,a it merges b, without the a after the region that all
  three have (`merge.rs:298-303`).

## 5. What is proved

For every number of callers, items, fences and bounds, under the assumptions in the
modules (`InputsAreTyped`, `BoundsAreNat`, `NoCallerIsNone`, `RebuildBoundIsNat`,
`ObjectsAreFinite`, `TableSentinels`, `NoWordIsNoEntry`, `LocalIsLocal`, `PathsAreClosed`,
`AbsentIsNoValue`, `MountSentinels`, `NameAssumption`, `HeadAssumption`, `BoundAssumption`,
`TablesAreConsistent`, `OthersAreNoObjects`, `ListBounds`, `ListSentinels`). A theorem rests on those of its own module.

**HostJournalProofs.** `TypeCorrect`, then `Invariance`: `Spec => []IInv`, where
`IInv` is `TypeOK`, `LogInv` (the four state invariants, and that nobody has a lease
before the second format is selected) and `CallerInv` for every caller. None of the
invariants is inductive alone: that a committed leaf is closed rests on what the
committing caller did before its exchange and nobody else saw. `CallerInv(c)` says at
each step what `c` has made sure of: at `select` that the drafted envelope is closed
and differs from what was read by its fence (and format); at `publish` that the
leaf it read is closed and the first `done[c]` entries are on disk, each
linked to the one before; at `confirm` that its batch is in the log it read; at `act`
that the log is its own. The argument has two halves, which the lemmas keep apart. A step of
`c` re-establishes `CallerInv(c)` and `LogInv` (one lemma per action). And nobody
else's knowledge is lost, because files are never removed (`StoreGrows`) and the head
only gains entries (`OthersKeep`, `StepByOne`). From `IInv` follow `ClosureCommitted`,
`AckedIsKept`, `ActionsOnce`, `ActionExcludes`, `EnvelopeOnlyAdvances`, and
`HostImplementsLog`, the refinement: each exchange of the leaf is an `Acquire`,
`Commit` or `LegacyCommit` of `JournalLog`, the end of an action an `Act`, an answer
an `Acknowledge`, and every other step stutters.

The last part of the module is about the object store. `ObjectInv`: during a rebuild,
what was due is listed or already in the index, the index and the rest of the listing are
disjoint, and a bound that was reached is smaller than the number of directories (`FS_`
theorems on cardinality). `IndexIsComplete`, `AckedStaysFound`, `BoundStaysHonest`.

**MemoryJournalProofs.** `Invariance` with `CallerInv`: what was verified against the
snapshot stays true because objects are never removed, and at `act` the caller has the
mutex. `StateAlwaysVerifies`, `ActionExcludes`, `MemoryImplementsLog`.

**GenerationManagerProofs.** `IInv` is `TypeOK` and eight named facts, of which
`EvidenceHolds` is one. `Newer` carries `HeadAlwaysAdvances`: while nobody recovers beside
a rotation, only the caller with the guard selects, so the head it compared its
id with is still the head when it selects. `Largest` carries the same theorem
for recovery: no rotation runs, so nothing becomes complete after the listing and what
the scan keeps is the largest complete generation, which the head cannot exceed
(`StoreWhole`: the head is complete). `StaysIncomplete` carries
`ReportAlwaysConsistent`. Each fact has the condition on `overlap` that it needs and no
stronger one; `EvidenceAlwaysHolds` has none.

**OverrideTableProofs.** `WordAlwaysKept` for any number of callers, keys, values and
loaders. `Promised` says where a promise lives: an absence in the mask, a value in the
front layer and out of the mask, and that no writer is at the key. It is preserved
because of two facts about writers that have not returned: `Alone` (a writer that will
promise a key is the only one at it, from its first step on) and `Prepared` (a set has its
value in front; a clear that listed a key has it in `found`, so that it will be masked).
`Made` (entries a call holds on to were put, so forcing them is defined) is what
`TypeCorrect` needs.

`EveryoneToldTheSame` rests on `Once`: of an entry whose loader no two callers ran at a
time, what callers were told is what the cache has, and whoever runs the loader is alone
and finds the cache empty, so that the answer it stores is the first. `Forces` reduces
every step of the table to the five things it can do to the entries.

`ReadsAnswerTheCall` rests on `Seen`, which says of a lookup at each step what it can still
answer (`Pending`) and that this is among what it has seen. The two layers are read one
after the other with nothing held, so what decides at a step is different each time:
whether the key is masked, then the front layer, then the layer behind, then what was
found. What carries it is that what a lookup would find *now* is seen as well: between two
of its steps a writer may move a value under it, and `ShownWhileWritten` shows that a
caller changes the front layer only as a writer that is between its layer and the mask,
when both values count as seen. The steps of the layers' owners are the others.

**MountedDirProofs.** `SInv` is the typing part: `TypeOK`, `MadeIsNoValue`
(which `DirectoriesAreNoValues` states), and `Placed`, that
a walk in the root is at its own path and that a mount walks in the root only; `GoalIsPath`
turns it into "what is asked of a store is a path". `MInv` adds what `NothingIsShadowed`
needs: `Undisturbed` (while a mount may call itself undisturbed nobody makes a node on the
way to its point), `Unseen` (so what it saw of the root is still true when it is inserted)
and `CleanIsGuarded` (from then on the registry refuses whoever begins). `ActGrowth` is the
fact under them: a call makes in the root its own symbol or its own directory and nothing
else. `ChildPath` of a mount's point is the point itself (`DirPaths`), and what is promised of
mounts is about the plain symbol alone.

`GetsFindWhatWasPut` is about routing: a name is looked for from the deepest mount above
it, and a call walks for several steps with no lock held while mounts come and go.
`RouteIsOne` shows that there is one store and one place in it where a path can be found
now, and `RouteOwns` that two paths with the same place are the same path (`Homed`: a
store is mounted at its home only). `RInv` adds to `SInv`: `Promised`, that what was put
is found by that route and nobody who could change it runs (`Quiet`); `Alone`, that a
writer that will promise is the only one that can disturb its path; `Duty`, that such a
writer walks the way a get would walk now, over directories that are still there; and
`Reads`, that a get which must find something walks that way too. `RouteKept` and
`ActKeeps` are the core: a mount that a walking call does not see, and a step at any path
that does not touch this one, leave both the way and the value. The clause of `Touches`
for `rmdir` is needed there: without it an `rmdir` above a path would take its way.

**RelationDirProofs.** `IInv` is `TypeOK` with `RowsAreKeyed` (ids and sibling names are
unique, the root stays), `Older` (a row is younger than its parent), `NamespaceIsTree`,
`OneLineage` and `Informed`, what a listing knows. A mutation is resolve, plan, exchange,
install; the lemmas follow these, so that each plan shows what it does to the rows, and one
lemma what the exchange does to slot and generation. `TreeStays`, `SlotFollowsOne`,
`ListingsAreTrue`, `FreshIds` and `KeyedRows` follow for any number of relations, names,
values and paths. `Older` is what makes a tree of rows whose parents exist: no row can be
below itself.

**SealedTableProofs.** `NoncesAreSpentOnce` needs the families alone: `Metered` says that
a nonce that sealed is among those spent, and that those are no more than the budget. The
other three are about calls that ask the backend several times while other tables, the
host and the backend's owner change it. `IInv` says what each call knows (`Good`): it has
seen the present state of every entry it is about (`Watched`); what it has collected was
there, and what it no longer has to read was absent for a time (`Answered`); once a `del`
has read its object, that object is there or was gone for a time (`Removing`: a sealed
object never turns into a directory in one step, which `del` of the backend would leave);
what it gives out was sealed (`Sourced`, from `Genuine`: every object in the backend was
sealed, wherever its owner has moved it). `WitnessKeeps` shows once that no step of
another loses any of it, and each step of a call re-establishes it by one lemma.
`OnlyWhatWasSealed`, `CallsAnswerTheCall` and `DelAlwaysRemoves` follow.

**LazyListsProofs.** Three invariants, each of which rests on those before it, for any
number of callers, views, cells and calls, any thunks and iterators, and any bounds.

`LInv` says who holds what: a call of a view that reads the source has the mutex, a
`OnceLock` that is being forced is with the one call that runs its thunk, and what calls were
given is what is kept. `CellsAnswerOnce` is one of its parts. For `NobodyWaitsInACircle` it
shows that who runs a thunk waits for nobody and who has the mutex waits at most for a
thunk, so that every chain of waiting ends after two steps. `EndInv` (where the end of the list comes from) gives `ListsEndTruly`.

`VInv` is about the census, which is kept in a bag and changed after the mutex was let go
of: what a view can reach must not leave the buffer between its making and its
registration. `Census` says that `live` counts at each place the views given out and the
tails that calls keep, in use or about to be dropped (`BagGains`, `BagLoses` and `Groups`
do the counting with cardinalities, so for any finite set of callers); `Room`, that the
element a `cdr` steps over is there, so that the tail starts no later than the buffer ends;
that it starts no earlier either is due to the view `cdr` was called on, which is counted
until it returns; `DropsAlone`, that a view is dropped when nobody uses it, which is what
ownership in the code gives. `Covered` then says that what is in the buffer is what
views can reach, and `EveryViewIsCovered` follows.

`KInv` says what each call knows (`Good`): where it is (`Walk`) and what is true of the
list there (`Knows`). A call of several parts lets go of the mutex between them, while
others fill the list, end it, fail, or reclaim its front. None of that can make untrue what
a call has learned, because a list only grows until it is ended and cells keep their
answers (`Grown`, `KnowsStays`); so a step has to be looked at for its own call only
(`Learns`). `Contents` and `Sourced` say that element *i* stays at place *i* when the front
leaves the buffer (`ReclaimedContents`) and that the driver goes on where the buffer ends.
`AnswersStayTrue` follows: the answers of `len_cmp`, `get` and `for_each`, each put together from
several looks, are true of the list as it is when they are given and from then on.

The facts about `IsPrefix`, `IsStrictPrefix`, concatenation and `SubSeq` that the journals
and the mounts rest on are lemmas at the beginning of their proof modules.

The type invariants (`TypeOK`) are proved and not run: each is a conjunct of the
inductive invariant of its module.

Only model-checked:

* `CallsReturn`, in both journals' models: liveness is outside the prover's reach.
* The four properties of `ArtifactMerge`: they are about what the comparison table of the
  texts computes, a recursion that would need an induction over data.

## 6. Assumptions and what is left out

* The port behaves as `sim-storage-port/src/lib.rs` documents: an exchange is atomic
  and durable, a guarded exchange excludes others until its callback returns, and the
  exclusion of a dead process ends. The port is writable and supports both; a port
  that does not is refused at the start of each call and changes nothing.
* Provider and generation store behave as the ones in
  `sim-table-sealed/src/lifecycle_tests.rs`; each call is atomic. One
  `GenerationManager` per store and lane. A generation has at least one record.
* The paths of a mounted namespace are closed under taking parts of them and under taking
  namespaces away, and lead through directories (`PathsAreClosed`); taking a namespace away
  twice is taking it away once (`LocalIsLocal`); a target may be mounted anywhere but at the root (`MountSentinels`).
* Corrupted bytes are not modelled: every file is what some caller wrote. Decoding
  and verification are modelled by what they establish of such files.
* A relation keeps the codec it was opened with; capabilities are granted. Encryption,
  blinding and hashing are taken at their word.
* Thunks, iterators and loaders come back, and do not use the table or list they feed.

## 7. Not modelled

* **Journal replay, snapshot, projection and the datum codec**: functions of a state that
  was read; they keep nothing between calls. **Storage port**: rename, remove and
  observation, which the modelled backends do not call, and its implementations, outside
  the repository.
* **Sealed backups**: an envelope opens only what the provider still has, which
  `EvidenceHolds` is about; which copies are tracked is the host's. The `Table` of a sealed
  directory is modelled, its limits on sizes are not.
* **Callbacks into values**: `DbDir` and `HashTable` ask a stored value for its expression
  under their lock; values are opaque in the models, so that a value that holds its own
  table, and would wait for ever, is not among them. Likewise loaders, thunks and iterators
  that look back. A model of it would have to invent the values.
* **Views over relation rows** (`backend.rs:470-593`) are read-only snapshots.
* **Mutual-projection porch**: every method runs under one mutex from its first look to its
  last, so callers do not interleave; the clock, which one method reads twice, is in the
  list of hazards. **Relation site**: stateless; the mutation it may report as failed is the
  provider's, outside the repository.
* **Cons list**, **HTTP directory**, **relation command line**, **build tasks**: no shared
  state. Formatting, citizens, `install_*` and class plumbing.

What a further development would take up first: backups in `GenerationManager`.
