-------------------------- MODULE OverrideTableProofs --------------------------
(***************************************************************************)
(* What an override table guarantees for any number of callers, keys and   *)
(* loaders: what a finished writer promises of a key stays true until the  *)
(* next writer of that key begins; a lazy entry tells everyone the same;   *)
(* and a lookup answers what was so during the call, because a writer      *)
(* shows both of its states while it is between layer and mask.            *)
(***************************************************************************)
EXTENDS OverrideTable, FiniteSetTheorems, TLAPS

Steps == Outcomes \union Reads \union Clears \union Windows
Writes(c, k) == pc[c] \in Clears \union Windows /\ k \in on[c]

\* A writer that will give its word for a key is the only one at it.
Alone == \A c \in Caller : \A k \in due[c] :
            Writes(c, k) /\ \A d \in Caller \ {c} : ~Writes(d, k)

\* A set that will promise its value has it in front; a clear that will promise a key to
\* be hidden finds it.
Prepared == \A c \in Caller : \A k \in due[c] :
    /\ pc[c] = "unmask" => front[k] = found[c][k] /\ found[c][k] \in Value
    /\ pc[c] \in {"clear", "clearback"} => k \notin hid[c] /\ Beneath(k) # Absent
    /\ pc[c] = "clearback" => found[c][k] = front[k]
    /\ pc[c] \in {"clearfront", "maskall"} => found[c][k] # Absent

\* A promise is kept by the front layer or by the mask, and nobody writes its key.
Promised == \A k \in Key : word[k] # NoWord =>
    /\ \A c \in Caller : ~Writes(c, k)
    /\ word[k] = Absent => k \in masked
    /\ word[k] # Absent => k \notin masked /\ front[k] = word[k]

\* What a lookup has read was put.
Made == \A c \in Caller : \A k \in Key :
            found[c][k] \in Loader => cache[found[c][k]] # Unmade

\* clear is about every key.
Whole == \A c \in Caller : pc[c] \in Clears => on[c] = Key

IInv == TypeOK /\ Made /\ Whole /\ Alone /\ Prepared /\ Promised

-------------------------------------------------------------------------------
LEMMA Distinct ==
    /\ Absent \notin Entry /\ Error \notin Entry /\ Unforced \notin Entry /\ Unmade \notin Entry
    /\ NoWord \notin Value \union {Absent}
BY TableSentinels, NoWordIsNoEntry DEF Entry

LEMMA StepNames == (Outcomes \union Reads) \intersect (Clears \union Windows) = {}
BY DEF Outcomes, Reads, Clears, Windows

-------------------------------------------------------------------------------
\* Types

LEMMA ReturnTyped ==
    ASSUME TypeOK, NEW c \in Caller, NEW outcome \in Outcomes,
           NEW entries \in [Key -> Entry \union {Absent}], Return(c, outcome, entries)
    PROVE  /\ pc' \in [Caller -> Steps] /\ pc' = [pc EXCEPT ![c] = outcome]
           /\ on' \in [Caller -> SUBSET Key] /\ hid' \in [Caller -> SUBSET Key]
           /\ todo' \in [Caller -> SUBSET Key]
           /\ found' \in [Caller -> [Key -> Entry \union {Absent}]]
BY DEF Return, Goto, TypeOK, Steps

LEMMA WatchTyped ==
    ASSUME TypeOK, NEW owned, Watch(owned),
           front' \in [Key -> Entry \union {Absent}], back' \in [Key -> Value \union {Absent}]
    PROVE  saw' \in [Caller -> [Key -> SUBSET (Entry \union {Absent})]]
<1>1. ASSUME NEW c \in Caller, NEW k \in Key
      PROVE  Watches(c, k, owned) \in SUBSET (Entry \union {Absent})
  <2>1. Possible(k)' \subseteq Entry \union {Absent}
    BY DEF Possible, Visible, Beneath, Entry
  <2> QED BY <2>1 DEF Watches, TypeOK
<1> QED BY <1>1 DEF Watch

\* TypeOK without the history of lookups.
Typed ==
    /\ LazyTypeOK
    /\ back \in [Key -> Value \union {Absent}] /\ masked \subseteq Key
    /\ pc \in [Caller -> Steps]
    /\ on \in [Caller -> SUBSET Key] /\ hid \in [Caller -> SUBSET Key]
    /\ todo \in [Caller -> SUBSET Key] /\ due \in [Caller -> SUBSET Key]
    /\ found \in [Caller -> [Key -> Entry \union {Absent}]]
    /\ word \in [Key -> Value \union {Absent, NoWord}]
    /\ \A c \in Caller : load[c] # NoLoad <=> pc[c] \in {"getload", "delload", "entload"}

\* What a caller that runs a loader, or hears what is kept, does to the types of the table.
LEMMA ForceTyped ==
    ASSUME TypeOK, NEW c \in Caller, NEW e \in Entry \union {Absent},
           NEW lock \in {"read", "write", "none"},
           e \in Loader => cache[e] # Unmade
    PROVE  /\ Recalls(e) => /\ answers' \in [Loader -> SUBSET Answer]
                            /\ UNCHANGED <<load, raced>>
           /\ Runs(c, e, lock) => /\ e \in Loader /\ UNCHANGED answers
                                  /\ raced' \subseteq Loader
                                  /\ load' = [load EXCEPT ![c] = [entry |-> e, lock |-> lock]]
                                  /\ load' \in [Caller -> {NoLoad} \union Frames]
                                  /\ load'[c] # NoLoad
<1>1. ASSUME Recalls(e) PROVE answers' \in [Loader -> SUBSET Answer] /\ UNCHANGED <<load, raced>>
  BY <1>1, TableSentinels DEF Recalls, Hear, Known, TypeOK, LazyTypeOK, Answer
<1>2. ASSUME Runs(c, e, lock)
      PROVE  /\ e \in Loader /\ UNCHANGED answers /\ raced' \subseteq Loader
             /\ load' = [load EXCEPT ![c] = [entry |-> e, lock |-> lock]]
  BY <1>2, TableSentinels DEF Runs, Enter, Known, TypeOK, LazyTypeOK, Entry
<1>3. ASSUME Runs(c, e, lock) PROVE [entry |-> e, lock |-> lock] \in Frames
  BY <1>2, <1>3 DEF Frames
<1>4. ASSUME Runs(c, e, lock) PROVE load' \in [Caller -> {NoLoad} \union Frames] /\ load'[c] # NoLoad
  <2>1. load \in [Caller -> {NoLoad} \union Frames]
    BY DEF TypeOK, LazyTypeOK
  <2> QED BY <2>1, <1>2, <1>3, <1>4, TableSentinels
<1> QED BY <1>1, <1>2, <1>4

LEMMA LoadTyped ==
    ASSUME TypeOK, NEW c \in Caller, NEW r \in Answer, Answers(c, r)
    PROVE  /\ cache' \in [Loader -> Answer \union {Unmade, Unforced}]
           /\ answers' \in [Loader -> SUBSET Answer]
           /\ load' = [load EXCEPT ![c] = NoLoad]
           /\ \A l \in Loader : cache[l] # Unmade => cache'[l] # Unmade
<1>1. load[c].entry \in Loader /\ load[c] # NoLoad
  BY DEF Answers, TypeOK, LazyTypeOK, Frames
<1>2. r # Unmade
  BY Distinct, TableSentinels DEF Answer, Entry
<1> QED BY <1>1, <1>2 DEF Answers, Keeps, Hear, Releases, TypeOK, LazyTypeOK

Loads == {"getload", "delload", "entload"}

LEMMA StepTyped ==
    ASSUME TypeOK, NEW c \in Caller, NEW step \in Steps, Goto(c, step), LazyTypeOK',
           \A d \in Caller \ {c} : load'[d] = load[d],
           load'[c] # NoLoad <=> step \in Loads
    PROVE  /\ pc' \in [Caller -> Steps]
           /\ \A d \in Caller : load'[d] # NoLoad <=> pc'[d] \in Loads
BY DEF Goto, TypeOK, Steps, Loads

\* The three ways a step ends.
LEMMA ContinueTyped ==
    ASSUME TypeOK, NEW c \in Caller, NEW step \in Steps, Continue(c, step), LazyTypeOK',
           \A d \in Caller \ {c} : load'[d] = load[d],
           load'[c] # NoLoad <=> step \in Loads
    PROVE  Typed'
<1>1. Goto(c, step) /\ UNCHANGED <<local, over, promises>>
  BY DEF Continue
<1>2. UNCHANGED <<on, hid, found, todo, back, masked, word, due>>
  BY <1>1 DEF local, over, promises
<1> QED BY <1>1, <1>2, StepTyped DEF Typed, TypeOK, Loads

LEMMA EndTyped ==
    ASSUME TypeOK, NEW c \in Caller, LazyTypeOK',
           \A d \in Caller \ {c} : load'[d] = load[d], load'[c] = NoLoad
    PROVE  /\ Fail(c) => Typed'
           /\ \A k \in Key, e \in Entry \union {Absent} : ReturnEntry(c, k, e) => Typed'
<1>1. {"read", "failed"} \subseteq Outcomes /\ Outcomes \subseteq Steps /\ Outcomes \intersect Loads = {}
  BY DEF Outcomes, Steps, Loads
<1>2. Nothing \in [Key -> Entry \union {Absent}]
  BY DEF Nothing
<1>3. ASSUME Fail(c) PROVE Typed'
  <2>1. /\ Return(c, "failed", Nothing) /\ Goto(c, "failed")
        /\ due' = [due EXCEPT ![c] = {}] /\ UNCHANGED <<back, masked, word>>
    BY <1>3 DEF Fail, Return, over
  <2>2. \A d \in Caller : load'[d] # NoLoad <=> pc'[d] \in Loads
    BY <1>1, <2>1, StepTyped
  <2> QED BY <1>1, <1>2, <2>1, <2>2, ReturnTyped DEF Typed, TypeOK, Loads
<1>4. ASSUME NEW k \in Key, NEW e \in Entry \union {Absent}, ReturnEntry(c, k, e) PROVE Typed'
  <2>1. /\ Return(c, "read", [Nothing EXCEPT ![k] = e]) /\ Goto(c, "read")
        /\ UNCHANGED <<due, back, masked, word>>
    BY <1>4 DEF ReturnEntry, Return, over, promises
  <2>2. \A d \in Caller : load'[d] # NoLoad <=> pc'[d] \in Loads
    BY <1>1, <2>1, StepTyped
  <2>3. [Nothing EXCEPT ![k] = e] \in [Key -> Entry \union {Absent}]
    BY <1>2
  <2> QED BY <1>1, <2>1, <2>2, <2>3, ReturnTyped DEF Typed, TypeOK, Loads
<1> QED BY <1>3, <1>4

LEMMA LazySame ==
    ASSUME TypeOK, UNCHANGED lazy
    PROVE  LazyTypeOK' /\ load' = load
BY DEF TypeOK, LazyTypeOK, lazy

\* A step that leaves the front layer as it is and goes where nothing is loaded.
LEMMA QuietTyped ==
    ASSUME TypeOK, NEW c \in Caller, pc[c] \notin Loads, UNCHANGED lazy
    PROVE  /\ Fail(c) => Typed'
           /\ \A k \in Key, e \in Entry \union {Absent} : ReturnEntry(c, k, e) => Typed'
           /\ \A step \in Steps \ Loads : Continue(c, step) => Typed'
<1>1. LazyTypeOK' /\ load' = load /\ load[c] = NoLoad
  BY LazySame DEF TypeOK, Loads
<1> QED BY <1>1, EndTyped, ContinueTyped

LEMMA BeginTyped ==
    ASSUME TypeOK, NEW c \in Caller, NEW step \in Steps, NEW keys \in SUBSET Key,
           NEW entries \in [Key -> Entry \union {Absent}], NEW hidden \in SUBSET Key,
           Begin(c, step, keys, entries, hidden), LazyTypeOK',
           \A d \in Caller \ {c} : load'[d] = load[d],
           load'[c] # NoLoad <=> step \in Loads,
           \/ UNCHANGED promises
           \/ \E written, promised \in SUBSET Key : BeginWrite(c, written, promised)
    PROVE  Typed'
<1>1. due' \in [Caller -> SUBSET Key] /\ word' \in [Key -> Value \union {Absent, NoWord}]
  <2>0. due \in [Caller -> SUBSET Key] /\ word \in [Key -> Value \union {Absent, NoWord}]
    BY DEF TypeOK
  <2>1. CASE UNCHANGED promises
    BY <2>0, <2>1 DEF promises
  <2>2. ASSUME NEW written \in SUBSET Key, NEW promised \in SUBSET Key,
               BeginWrite(c, written, promised)
        PROVE  due' \in [Caller -> SUBSET Key]
    <3> DEFINE others == {d \in Caller \ {c} : pc[d] \in Clears \union Windows}
               left(d) == IF d = c THEN promised \ UNION {on[o] : o \in others}
                                   ELSE due[d] \ written
    <3>1. due' = [d \in Caller |-> left(d)]
      BY <2>2 DEF BeginWrite
    <3>2. \A d \in Caller : left(d) \in SUBSET Key
      BY <2>0
    <3> HIDE DEF left
    <3> QED BY <3>1, <3>2
  <2>3. ASSUME NEW written \in SUBSET Key, NEW promised \in SUBSET Key,
               BeginWrite(c, written, promised)
        PROVE  word' \in [Key -> Value \union {Absent, NoWord}]
    <3>1. word' = [k \in Key |-> IF k \in written THEN NoWord ELSE word[k]]
      BY <2>3 DEF BeginWrite
    <3> QED BY <2>0, <3>1
  <2> QED BY <2>1, <2>2, <2>3
<1>2. /\ Goto(c, step) /\ UNCHANGED <<back, masked, todo>>
      /\ on' = [on EXCEPT ![c] = keys] /\ hid' = [hid EXCEPT ![c] = hidden]
      /\ found' = [found EXCEPT ![c] = entries]
  BY DEF Begin, over
<1>3. /\ pc' \in [Caller -> Steps]
      /\ \A d \in Caller : load'[d] # NoLoad <=> pc'[d] \in Loads
  BY <1>2, StepTyped
<1>4. /\ on' \in [Caller -> SUBSET Key] /\ hid' \in [Caller -> SUBSET Key]
      /\ found' \in [Caller -> [Key -> Entry \union {Absent}]]
  BY <1>2 DEF TypeOK
<1>5. /\ back' \in [Key -> Value \union {Absent}] /\ masked' \subseteq Key
      /\ todo' \in [Caller -> SUBSET Key]
  BY <1>2 DEF TypeOK
<1> QED BY <1>1, <1>3, <1>4, <1>5 DEF Typed, Loads

LEMMA ReadTyped ==
    ASSUME TypeOK, Made, NEW c \in Caller,
           \/ StartEntries(c) \/ ListFront(c) \/ ForceEntry(c) \/ ListBack(c)
           \/ \E k \in Key : StartGet(c, k) \/ Check(c, k) \/ Look(c, k)
                           \/ Fetch(c, k) \/ Behind(c, k)
    PROVE  Typed'
<1>0. /\ {"check", "look", "fetch", "lookback", "fetchback", "entries", "force", "entriesback",
           "clearback", "clearfront"} \subseteq Steps \ Loads
      /\ {"getload", "entload"} \subseteq Steps
      /\ Nothing \in [Key -> Entry \union {Absent}]
      /\ Outcomes \intersect Loads = {}
  BY DEF Steps, Loads, Reads, Clears, Outcomes, Nothing
<1>1. ASSUME NEW k \in Key, StartGet(c, k) PROVE Typed'
  <2>1. LazyTypeOK' /\ load' = load /\ load[c] = NoLoad
    BY <1>0, <1>1, LazySame DEF StartGet, Begin, TypeOK, Loads
  <2> QED BY <1>0, <1>1, <2>1, BeginTyped DEF StartGet
<1>2. ASSUME NEW k \in Key, Check(c, k) \/ Look(c, k) \/ Behind(c, k) PROVE Typed'
  <2>1. pc[c] \notin Loads /\ UNCHANGED lazy
    BY <1>2 DEF Check, Look, Behind, Loads
  <2>2. back[k] \in Entry \union {Absent}
    BY DEF TypeOK, Entry
  <2> QED BY <1>0, <1>2, <2>1, <2>2, QuietTyped DEF Check, Look, Behind
<1>3. ASSUME NEW k \in Key, Fetch(c, k) PROVE Typed'
  <2>1. /\ front[k] \in Entry \union {Absent}
        /\ front[k] \in Loader => cache[front[k]] # Unmade
        /\ pc[c] \notin Loads /\ load[c] = NoLoad /\ UNCHANGED <<front, cache, poisoned>>
    BY <1>3 DEF Fetch, TypeOK, LazyTypeOK, Loads
  <2>2. CASE Recalls(front[k]) /\ ReturnEntry(c, k, front[k])
    <3>1. LazyTypeOK' /\ load' = load
      BY <2>1, <2>2, ForceTyped DEF TypeOK, LazyTypeOK
    <3>2. load'[c] = NoLoad /\ \A d \in Caller \ {c} : load'[d] = load[d]
      BY <2>1, <3>1
    <3>3. \A e \in Entry \union {Absent} : ReturnEntry(c, k, e) => Typed'
      BY <3>1, <3>2, EndTyped
    <3> QED BY <2>1, <2>2, <3>3
  <2>3. CASE Runs(c, front[k], "read")
    <3>1. /\ Goto(c, "getload") /\ found' = [found EXCEPT ![c][k] = front[k]]
          /\ UNCHANGED <<on, hid, todo, back, masked, word, due>>
      BY <1>3, <2>3 DEF Fetch, Recalls, Runs, over, promises
    <3>2. LazyTypeOK' /\ load'[c] # NoLoad /\ \A d \in Caller \ {c} : load'[d] = load[d]
      BY <2>1, <2>3, ForceTyped DEF TypeOK, LazyTypeOK
    <3>3. "getload" \in Loads
      BY DEF Loads
    <3>4. /\ pc' \in [Caller -> Steps]
          /\ \A d \in Caller : load'[d] # NoLoad <=> pc'[d] \in Loads
      BY <1>0, <3>1, <3>2, <3>3, StepTyped
    <3>5. found' \in [Caller -> [Key -> Entry \union {Absent}]]
      BY <2>1, <3>1 DEF TypeOK
    <3> QED BY <3>1, <3>2, <3>4, <3>5 DEF Typed, TypeOK, Loads
  <2> QED BY <1>3, <2>2, <2>3 DEF Fetch
<1>4. CASE StartEntries(c)
  <2>1. LazyTypeOK' /\ load' = load /\ load[c] = NoLoad /\ masked \in SUBSET Key
    BY <1>0, <1>4, LazySame DEF StartEntries, Begin, TypeOK, Loads
  <2> QED BY <1>0, <1>4, <2>1, BeginTyped DEF StartEntries
<1>5. CASE ListFront(c)
  <2>1. LazyTypeOK' /\ load' = load /\ load[c] = NoLoad
    BY <1>5, LazySame DEF ListFront, TypeOK, Loads
  <2>2. PICK step \in {"force", "clearback"} : Goto(c, step)
    BY <1>5 DEF ListFront
  <2>3. /\ pc' \in [Caller -> Steps]
        /\ \A d \in Caller : load'[d] # NoLoad <=> pc'[d] \in Loads
    BY <1>0, <2>1, <2>2, StepTyped
  <2>4. front \in [Key -> Entry \union {Absent}]
    BY DEF TypeOK, LazyTypeOK
  <2> QED BY <1>5, <2>1, <2>3, <2>4 DEF ListFront, Typed, TypeOK, Loads, over, promises
<1>6. CASE ForceEntry(c)
  <2>1. pc[c] \notin Loads /\ load[c] = NoLoad
    BY <1>6 DEF ForceEntry, TypeOK, Loads
  <2>2. CASE todo[c] = {} /\ Continue(c, "entriesback") /\ UNCHANGED lazy
    BY <1>0, <2>1, <2>2, QuietTyped
  <2>3. ASSUME NEW k \in todo[c], UNCHANGED <<front, cache, poisoned>>
        PROVE  /\ Recalls(found[c][k]) => LazyTypeOK' /\ load' = load
               /\ Runs(c, found[c][k], "none") =>
                     LazyTypeOK' /\ load'[c] # NoLoad /\ \A d \in Caller \ {c} : load'[d] = load[d]
    <3>1. /\ found[c][k] \in Entry \union {Absent}
          /\ found[c][k] \in Loader => cache[found[c][k]] # Unmade
      BY DEF TypeOK, Made
    <3> QED BY <2>3, <3>1, ForceTyped DEF TypeOK, LazyTypeOK
  <2>4. ASSUME NEW k \in todo[c], Recalls(found[c][k]), Fail(c), UNCHANGED <<front, cache, poisoned>>
        PROVE  Typed'
    BY <2>1, <2>3, <2>4, EndTyped
  <2>5. ASSUME NEW k \in todo[c], UNCHANGED <<front, cache, poisoned>>,
               \/ Recalls(found[c][k]) /\ UNCHANGED pc
               \/ Runs(c, found[c][k], "none") /\ Goto(c, "entload"),
               todo' = [todo EXCEPT ![c] = @ \ {k}],
               UNCHANGED <<on, hid, found, over, promises>>
        PROVE  Typed'
    <3>1. /\ pc' \in [Caller -> Steps] /\ LazyTypeOK'
          /\ \A d \in Caller : load'[d] # NoLoad <=> pc'[d] \in Loads
      <4>1. CASE Recalls(found[c][k]) /\ UNCHANGED pc
        BY <2>3, <2>5, <4>1 DEF TypeOK, Steps, Loads
      <4>2. CASE Runs(c, found[c][k], "none") /\ Goto(c, "entload")
        <5>1. "entload" \in Loads
          BY DEF Loads
        <5> QED BY <1>0, <2>3, <2>5, <4>2, <5>1, StepTyped
      <4> QED BY <2>5, <4>1, <4>2
    <3> QED BY <2>5, <3>1 DEF Typed, TypeOK, Loads, over, promises
  <2> QED BY <1>6, <2>2, <2>4, <2>5 DEF ForceEntry
<1>7. CASE ListBack(c)
  <2>1. LazyTypeOK' /\ load' = load /\ load[c] = NoLoad
    BY <1>7, LazySame DEF ListBack, TypeOK, Loads
  <2>2. Overlaid(c) \in [Key -> Entry \union {Absent}]
    BY DEF Overlaid, TypeOK, Entry
  <2>3. CASE pc[c] = "entriesback"
    <3>1. Return(c, "read", Overlaid(c)) /\ Goto(c, "read") /\ UNCHANGED <<back, masked, word, due>>
      BY <1>7, <2>3 DEF ListBack, Return, over, promises
    <3>2. "read" \in Outcomes /\ "read" \in Steps \ Loads
      BY DEF Outcomes, Steps, Loads
    <3> QED BY <2>1, <2>2, <3>1, <3>2, ReturnTyped, StepTyped DEF Typed, TypeOK, Loads
  <2>4. CASE pc[c] = "clearback"
    <3>1. /\ Goto(c, "clearfront") /\ found' = [found EXCEPT ![c] = Overlaid(c)]
          /\ UNCHANGED <<on, hid, todo, back, masked, word, due>>
      BY <1>7, <2>4 DEF ListBack, over, promises
    <3> QED BY <1>0, <2>1, <2>2, <3>1, StepTyped DEF Typed, TypeOK, Loads
  <2> QED BY <1>7, <2>3, <2>4 DEF ListBack
<1> QED BY <1>1, <1>2, <1>3, <1>4, <1>5, <1>6, <1>7

LEMMA WriteTyped ==
    ASSUME TypeOK, Prepared, NEW c \in Caller,
           \/ StartClear(c) \/ ClearFront(c) \/ ChangeMask(c) \/ GiveUp(c)
           \/ Load(c) \/ LoaderPanics(c) \/ FrontFails(c)
           \/ \E k \in Key : StartDel(c, k) \/ \E v \in Value : StartSet(c, k, v)
    PROVE  Typed'
<1>0. /\ {"mask", "giveup", "unmask", "clear", "maskall", "force"} \subseteq Steps \ Loads
      /\ "delload" \in Steps \intersect Loads
      /\ Nothing \in [Key -> Entry \union {Absent}]
      /\ {"read", "written"} \subseteq Outcomes \intersect (Steps \ Loads)
      /\ Outcomes \intersect Loads = {}
  BY DEF Steps, Loads, Reads, Clears, Windows, Outcomes, Nothing
<1>1. ASSUME NEW k \in Key, NEW v \in Value, StartSet(c, k, v) PROVE Typed'
  <2>1. /\ LazyTypeOK' /\ load' = load /\ load[c] = NoLoad
        /\ [Nothing EXCEPT ![k] = v] \in [Key -> Entry \union {Absent}]
    BY <1>0, <1>1, TableSentinels DEF StartSet, LazySet, Begin, TypeOK, LazyTypeOK, Entry, Loads
  <2> QED BY <1>0, <1>1, <2>1, BeginTyped DEF StartSet
<1>2. ASSUME NEW k \in Key, StartDel(c, k) PROVE Typed'
  <2>1. /\ front[k] \in Entry \union {Absent}
        /\ front[k] \in Loader => cache[front[k]] # Unmade
        /\ UNCHANGED <<cache, poisoned>> /\ front' = [front EXCEPT ![k] = Absent]
        /\ pc[c] \in Outcomes /\ load[c] = NoLoad
    BY <1>0, <1>2 DEF StartDel, Begin, TypeOK, LazyTypeOK, Loads
  <2>2. ASSUME NEW step \in {"giveup", "mask"}, Recalls(front[k]), Begin(c, step, {k}, Nothing, {})
        PROVE  Typed'
    <3>1. LazyTypeOK' /\ load' = load
      BY <2>1, <2>2, ForceTyped, Distinct DEF TypeOK, LazyTypeOK, Entry
    <3> QED BY <1>0, <1>2, <2>1, <2>2, <3>1, BeginTyped DEF StartDel
  <2>3. ASSUME Runs(c, front[k], "write"), Begin(c, "delload", {k}, Nothing, {}) PROVE Typed'
    <3>1. LazyTypeOK' /\ load'[c] # NoLoad /\ \A d \in Caller \ {c} : load'[d] = load[d]
      BY <2>1, <2>3, ForceTyped, Distinct DEF TypeOK, LazyTypeOK, Entry
    <3> QED BY <1>0, <1>2, <2>3, <3>1, BeginTyped DEF StartDel
  <2> QED BY <1>2, <2>2, <2>3 DEF StartDel
<1>3. CASE StartClear(c)
  <2>1. LazyTypeOK' /\ load' = load /\ load[c] = NoLoad /\ masked \in SUBSET Key
    BY <1>0, <1>3, LazySame DEF StartClear, Begin, TypeOK, Loads
  <2> QED BY <1>0, <1>3, <2>1, BeginTyped DEF StartClear
<1>4. CASE ClearFront(c)
  <2>1. LazyTypeOK' /\ load' = load /\ load[c] = NoLoad
    BY <1>4, Distinct DEF ClearFront, LazyClear, TypeOK, LazyTypeOK, Entry
  <2> QED BY <1>0, <1>4, <2>1, ContinueTyped DEF ClearFront
<1>5. CASE ChangeMask(c)
  <2>1. LazyTypeOK' /\ load' = load /\ load[c] = NoLoad
    BY <1>5, LazySame DEF ChangeMask, TypeOK
  <2>2. masked' \subseteq Key /\ back' = back /\ Promise(c)
    BY <1>5 DEF ChangeMask, Masks, TypeOK
  <2>3. /\ Return(c, "written", Nothing) /\ Goto(c, "written")
        /\ due' = [due EXCEPT ![c] = {}]
        /\ word' = [k \in Key |-> IF k \notin due[c] THEN word[k]
                                  ELSE IF pc[c] = "unmask" THEN found[c][k] ELSE Absent]
    BY <2>2 DEF Promise, Return
  <2>4. \A d \in Caller : load'[d] # NoLoad <=> pc'[d] \in Loads
    BY <1>0, <2>1, <2>3, StepTyped
  <2>5. word' \in [Key -> Value \union {Absent, NoWord}]
    BY <2>3 DEF TypeOK, Prepared
  <2> QED BY <1>0, <2>1, <2>2, <2>3, <2>4, <2>5, ReturnTyped DEF Typed, TypeOK, Loads
<1>6. CASE GiveUp(c) \/ FrontFails(c)
  <2>1. pc[c] \notin Loads /\ UNCHANGED lazy /\ Fail(c)
    BY <1>6 DEF GiveUp, FrontFails, Loads
  <2> QED BY <2>1, QuietTyped
<1>7. CASE LoaderPanics(c)
  <2>1. LazyTypeOK' /\ load' = [load EXCEPT ![c] = NoLoad] /\ Fail(c)
    BY <1>7 DEF LoaderPanics, Panics, Releases, TypeOK, LazyTypeOK
  <2>2. load'[c] = NoLoad /\ \A d \in Caller \ {c} : load'[d] = load[d]
    BY <2>1 DEF TypeOK, LazyTypeOK
  <2> QED BY <2>1, <2>2, EndTyped
<1>8. CASE Load(c)
  <2> SUFFICES ASSUME NEW r \in Answer, Answers(c, r),
                      \/ /\ pc[c] = "getload"
                         /\ Return(c, "read", found[c]) /\ UNCHANGED <<over, promises>>
                      \/ \E step \in {"giveup", "mask", "force"} : Continue(c, step)
                      \/ Fail(c)
               PROVE  Typed'
    BY <1>8 DEF Load
  <2>1. LazyTypeOK' /\ load'[c] = NoLoad /\ \A d \in Caller \ {c} : load'[d] = load[d]
    BY LoadTyped DEF Answers, TypeOK, LazyTypeOK
  <2>2. CASE Return(c, "read", found[c]) /\ UNCHANGED <<over, promises>>
    <3>1. /\ Goto(c, "read") /\ UNCHANGED <<back, masked, due, word>>
          /\ found[c] \in [Key -> Entry \union {Absent}]
      BY <2>2 DEF Return, over, promises, TypeOK
    <3>2. \A d \in Caller : load'[d] # NoLoad <=> pc'[d] \in Loads
      BY <1>0, <2>1, <3>1, StepTyped
    <3> QED BY <1>0, <2>1, <2>2, <3>1, <3>2, ReturnTyped DEF Typed, TypeOK, Loads
  <2>3. ASSUME NEW step \in {"giveup", "mask", "force"}, Continue(c, step) PROVE Typed'
    BY <1>0, <2>1, <2>3, ContinueTyped
  <2> QED BY <2>1, <2>2, <2>3, EndTyped
<1> QED BY <1>1, <1>2, <1>3, <1>4, <1>5, <1>6, <1>7, <1>8

LEMMA OwnerTyped ==
    ASSUME TypeOK, NEW k \in Key, OwnerStep(k)
    PROVE  Typed'
<1>1. ASSUME NEW l \in Loader, OwnerPutsLazy(k, l) PROVE Typed'
  <2>1. LazyTypeOK' /\ load' = load
    BY <1>1, TableSentinels DEF OwnerPutsLazy, PutLazy, TypeOK, LazyTypeOK, Entry
  <2>2. UNCHANGED <<back, masked, pc, on, hid, found, todo>>
    BY <1>1 DEF OwnerPutsLazy, over, local
  <2>3. /\ word' \in [Key -> Value \union {Absent, NoWord}]
        /\ due' \in [Caller -> SUBSET Key]
    BY <1>1 DEF OwnerPutsLazy, TypeOK
  <2> QED BY <2>1, <2>2, <2>3 DEF Typed, TypeOK, Steps
<1>2. ASSUME NEW v \in Value \union {Absent}, OwnerWritesBack(k, v) PROVE Typed'
  <2>1. LazyTypeOK' /\ load' = load
    BY <1>2, LazySame DEF OwnerWritesBack
  <2> QED BY <1>2, <2>1 DEF OwnerWritesBack, local, Typed, TypeOK, Steps
<1> QED BY <1>1, <1>2 DEF OwnerStep

-------------------------------------------------------------------------------
\* Facts

Facts == Whole /\ Alone /\ Prepared /\ Promised

OthersSame(c) == \A d \in Caller \ {c} :
    pc'[d] = pc[d] /\ on'[d] = on[d] /\ hid'[d] = hid[d] /\ found'[d] = found[d]

\* A caller's step changes nothing that another caller has.
LEMMA CallsApart ==
    ASSUME TypeOK, NEW c \in Caller, CallStep(c)
    PROVE  OthersSame(c)
<1>1. CASE \/ StartEntries(c) \/ StartClear(c)
           \/ \E k \in Key : StartGet(c, k) \/ StartDel(c, k) \/ \E v \in Value : StartSet(c, k, v)
  BY <1>1 DEF StartGet, StartDel, StartSet, StartEntries, StartClear, Begin, Goto, Fail, Return, Continue,
              local, TypeOK, OthersSame
<1>2. CASE \E k \in on[c] : Check(c, k) \/ Look(c, k) \/ Fetch(c, k) \/ Behind(c, k)
  BY <1>2 DEF Check, Look, Fetch, Behind, Continue, ReturnEntry, Fail, Return, Goto, local, TypeOK, OthersSame
<1>3. CASE ListFront(c) \/ ForceEntry(c) \/ ListBack(c) \/ ClearFront(c)
  BY <1>3 DEF ListFront, ForceEntry, ListBack, ClearFront, Continue, Fail, Return, Goto, local, TypeOK, OthersSame
<1>4. CASE ChangeMask(c) \/ GiveUp(c) \/ LoaderPanics(c) \/ FrontFails(c)
  BY <1>4 DEF ChangeMask, GiveUp, LoaderPanics, FrontFails, Continue, Fail, Promise, Return, Goto, local,
              TypeOK, OthersSame
<1>5. CASE Load(c)
  BY <1>5 DEF Load, Continue, Fail, Return, Goto, local, TypeOK, OthersSame
<1> QED BY <1>1, <1>2, <1>3, <1>4, <1>5 DEF CallStep

\* A call that is no writer, or ends as none with nothing to promise.
LEMMA QuietFacts ==
    ASSUME IInv, NEW c \in Caller, OthersSame(c), pc'[c] \notin Clears \union Windows,
           UNCHANGED <<front, back, masked, word>>,
           \/ due' = [due EXCEPT ![c] = {}]
           \/ due' = due /\ pc[c] \notin Clears \union Windows
    PROVE  Facts'
<1>1. due'[c] = {} /\ \A d \in Caller \ {c} : due'[d] = due[d]
  BY DEF IInv, TypeOK, Alone, Writes
<1>2. \A d \in Caller, k \in Key : Writes(d, k)' => Writes(d, k)
  BY DEF OthersSame, Writes
<1>3. Alone'
  BY <1>1, <1>2 DEF IInv, Alone, Writes, OthersSame, TypeOK
<1>4. Prepared'
  BY <1>1 DEF IInv, Prepared, OthersSame, Beneath, TypeOK
<1>5. Promised'
  BY <1>2 DEF IInv, Promised
<1>6. Whole'
  BY DEF IInv, Whole, OthersSame
<1> QED BY <1>3, <1>4, <1>5, <1>6 DEF Facts

\* A writer that goes on and has changed neither a layer nor the mask.
LEMMA OnFacts ==
    ASSUME IInv, NEW c \in Caller, OthersSame(c), on' = on, due' = due,
           UNCHANGED <<front, back, masked, word>>,
           {pc[c], pc'[c]} \subseteq Clears \union Windows, pc'[c] # "unmask",
           pc'[c] \in Clears => pc[c] \in Clears,
           \A k \in due[c] :
             /\ pc'[c] \in {"clear", "clearback"} => k \notin hid'[c] /\ Beneath(k) # Absent
             /\ pc'[c] = "clearback" => found'[c][k] = front[k]
             /\ pc'[c] \in {"clearfront", "maskall"} => found'[c][k] # Absent
    PROVE  Facts'
<1>1. \A d \in Caller, k \in Key : Writes(d, k)' <=> Writes(d, k)
  BY DEF OthersSame, Writes
<1>2. Alone'
  BY <1>1 DEF IInv, Alone, TypeOK
<1>3. Prepared'
  BY DEF IInv, Prepared, OthersSame, Beneath, TypeOK
<1>4. Promised'
  BY <1>1 DEF IInv, Promised
<1>5. Whole'
  BY DEF IInv, Whole, OthersSame
<1> QED BY <1>2, <1>3, <1>4, <1>5 DEF Facts

\* A writer that begins.
LEMMA BeginFacts ==
    ASSUME IInv, NEW c \in Caller, OthersSame(c), NEW keys \in SUBSET Key,
           NEW promised \in SUBSET keys, BeginWrite(c, keys, promised),
           pc[c] \notin Clears \union Windows, pc'[c] \in Clears \union Windows, on'[c] = keys,
           pc'[c] \in Clears => keys = Key,
           UNCHANGED <<back, masked>>, \A k \in Key \ keys : front'[k] = front[k],
           \A k \in promised :
             /\ pc'[c] = "unmask" => front'[k] = found'[c][k] /\ found'[c][k] \in Value
             /\ pc'[c] \notin {"clearback", "clearfront", "maskall"}
             /\ pc'[c] = "clear" => k \notin hid'[c] /\ Beneath(k)' # Absent
    PROVE  Facts'
<1>1. /\ \A d \in Caller \ {c} : due'[d] = due[d] \ keys
      /\ due'[c] \subseteq promised
      /\ \A k \in due'[c] : \A d \in Caller \ {c} : ~Writes(d, k)
      /\ \A k \in Key : word'[k] = IF k \in keys THEN NoWord ELSE word[k]
  BY DEF BeginWrite, Writes, IInv, TypeOK
<1>2. /\ \A d \in Caller \ {c} : \A k \in Key : Writes(d, k)' <=> Writes(d, k)
      /\ \A k \in Key : Writes(c, k)' <=> k \in keys
  BY DEF OthersSame, Writes
<1>3. Alone'
  <2>1. ASSUME NEW d \in Caller \ {c}, NEW k \in due'[d]
        PROVE  Writes(d, k)' /\ \A e \in Caller \ {d} : ~Writes(e, k)'
    <3>1. k \in due[d] /\ k \in Key \ keys
      BY <1>1, <2>1 DEF IInv, TypeOK
    <3>2. Writes(d, k) /\ \A e \in Caller \ {d} : ~Writes(e, k)
      BY <3>1 DEF IInv, Alone
    <3> QED BY <1>2, <3>1, <3>2
  <2>2. ASSUME NEW k \in due'[c]
        PROVE  Writes(c, k)' /\ \A e \in Caller \ {c} : ~Writes(e, k)'
    BY <1>1, <1>2, <2>2
  <2> QED BY <2>1, <2>2 DEF Alone
<1>4. Prepared'
  <2>1. ASSUME NEW d \in Caller \ {c}, NEW k \in due'[d]
        PROVE  front'[k] = front[k] /\ Beneath(k)' = Beneath(k) /\ k \in due[d]
    BY <1>1, <2>1 DEF Beneath, IInv, TypeOK
  <2> QED BY <1>1, <2>1 DEF IInv, Prepared, OthersSame
<1>5. Promised'
  BY <1>1, <1>2 DEF IInv, Promised, Writes
<1>6. Whole'
  BY DEF IInv, Whole, OthersSame
<1> QED BY <1>3, <1>4, <1>5, <1>6 DEF Facts

\* A caller's own step changes nobody else's locals.
LEMMA OthersUntouched ==
    ASSUME TypeOK, NEW c \in Caller
    PROVE  /\ \A step : Continue(c, step) => OthersSame(c) /\ UNCHANGED <<on, hid, found, over, promises>>
           /\ Fail(c) => OthersSame(c) /\ pc'[c] = "failed"
           /\ \A outcome, entries : Return(c, outcome, entries) => OthersSame(c) /\ pc'[c] = outcome
           /\ \A step, keys, entries, hidden : Begin(c, step, keys, entries, hidden) =>
                 /\ OthersSame(c) /\ pc[c] \in Outcomes /\ pc'[c] = step /\ on'[c] = keys
                 /\ hid'[c] = hidden /\ found'[c] = entries
<1>1. \A step : Continue(c, step) => OthersSame(c) /\ UNCHANGED <<on, hid, found, over, promises>>
  BY DEF Continue, Goto, OthersSame, local, TypeOK
<1>2. \A outcome, entries : Return(c, outcome, entries) => OthersSame(c) /\ pc'[c] = outcome
  BY DEF Return, Goto, OthersSame, TypeOK
<1>3. Fail(c) => OthersSame(c) /\ pc'[c] = "failed"
  BY <1>2 DEF Fail
<1>4. \A step, keys, entries, hidden : Begin(c, step, keys, entries, hidden) =>
                 /\ OthersSame(c) /\ pc[c] \in Outcomes /\ pc'[c] = step /\ on'[c] = keys
                 /\ hid'[c] = hidden /\ found'[c] = entries
  BY DEF Begin, Goto, OthersSame, TypeOK
<1> QED BY <1>1, <1>2, <1>3, <1>4

LEMMA ReadFacts ==
    ASSUME IInv, NEW c \in Caller,
           \/ StartEntries(c) \/ ForceEntry(c) \/ GiveUp(c) \/ LoaderPanics(c) \/ FrontFails(c)
           \/ \E k \in Key : StartGet(c, k) \/ Check(c, k) \/ Look(c, k)
                           \/ Fetch(c, k) \/ Behind(c, k)
    PROVE  Facts'
<1>0. {"check", "look", "fetch", "getload", "lookback", "fetchback", "entries", "force",
       "entload", "entriesback", "read", "failed"} \intersect (Clears \union Windows) = {}
  BY DEF Clears, Windows
<1>1. UNCHANGED <<front, back, masked, word>>
  BY DEF StartEntries, ForceEntry, GiveUp, LoaderPanics, FrontFails, StartGet, Check, Look, Fetch,
         Behind, Begin, Continue, Fail, ReturnEntry, Panics, lazy, over, promises
<1>2. CASE GiveUp(c) \/ LoaderPanics(c) \/ FrontFails(c)
  <2>1. Fail(c) /\ due' = [due EXCEPT ![c] = {}]
    BY <1>2 DEF GiveUp, LoaderPanics, FrontFails, Fail
  <2> QED BY <1>0, <1>1, <2>1, OthersUntouched, QuietFacts DEF IInv
<1>3. CASE StartEntries(c) \/ \E k \in Key : StartGet(c, k)
  <2>1. PICK step \in {"entries", "check"} : \E keys, hidden : Begin(c, step, keys, Nothing, hidden)
    BY <1>3 DEF StartEntries, StartGet
  <2>2. due' = due
    BY <1>3 DEF StartEntries, StartGet, promises
  <2>3. pc[c] \notin Clears \union Windows /\ pc'[c] = step /\ OthersSame(c)
    BY <2>1, OthersUntouched, StepNames DEF IInv
  <2> QED BY <1>0, <1>1, <2>2, <2>3, QuietFacts
<1>4. ASSUME NEW k \in Key, Check(c, k) \/ Look(c, k) \/ Fetch(c, k) \/ Behind(c, k) PROVE Facts'
  <2>1. pc[c] \in {"check", "look", "fetch", "lookback", "fetchback"} /\ due' = due
    BY <1>4 DEF Check, Look, Fetch, Behind, Continue, ReturnEntry, promises
  <2>2. OthersSame(c) /\ pc'[c] \in {"look", "fetch", "getload", "lookback", "fetchback", "read"}
    BY <1>4 DEF Check, Look, Fetch, Behind, Continue, ReturnEntry, Return, Goto, OthersSame, local,
                IInv, TypeOK
  <2> QED BY <1>0, <1>1, <2>1, <2>2, QuietFacts
<1>5. CASE ForceEntry(c)
  <2>1. pc[c] = "force" /\ (due' = due \/ due' = [due EXCEPT ![c] = {}])
    BY <1>5 DEF ForceEntry, Continue, Fail, promises
  <2>2. OthersSame(c) /\ pc'[c] \in {"force", "entload", "entriesback", "failed"}
    BY <1>5 DEF ForceEntry, Continue, Fail, Return, Goto, OthersSame, local, IInv, TypeOK
  <2> QED BY <1>0, <1>1, <2>1, <2>2, QuietFacts
<1> QED BY <1>2, <1>3, <1>4, <1>5

LEMMA LoadFacts ==
    ASSUME IInv, NEW c \in Caller, Load(c)
    PROVE  Facts'
<1>1. UNCHANGED <<front, back, masked, word>> /\ OthersSame(c)
  BY DEF Load, Answers, Continue, Fail, Return, Goto, OthersSame, local, over, promises, IInv, TypeOK
<1>2. CASE pc[c] \in {"getload", "entload"}
  <2>1. /\ pc'[c] \in {"read", "failed", "force"}
        /\ due' = due \/ due' = [due EXCEPT ![c] = {}]
    BY <1>2 DEF Load, Continue, Fail, Return, Goto, promises, IInv, TypeOK
  <2> QED BY <1>1, <1>2, <2>1, QuietFacts DEF Clears, Windows
<1>3. CASE pc[c] = "delload"
  <2>1. pc'[c] \in {"giveup", "mask"} /\ on' = on /\ due' = due
    BY <1>3 DEF Load, Continue, Goto, local, promises, IInv, TypeOK
  <2> QED BY <1>1, <1>3, <2>1, OnFacts DEF Clears, Windows
<1> QED BY <1>2, <1>3 DEF Load

LEMMA ListFacts ==
    ASSUME IInv, NEW c \in Caller, ListFront(c) \/ ListBack(c)
    PROVE  Facts'
<1>1. UNCHANGED <<front, back, masked, word, due>> /\ OthersSame(c)
  BY DEF ListFront, ListBack, Return, Goto, OthersSame, lazy, over, promises, IInv, TypeOK
<1>2. CASE pc[c] \in {"entries", "entriesback"}
  <2>1. pc'[c] \in {"force", "read"}
    BY <1>2 DEF ListFront, ListBack, Return, Goto, IInv, TypeOK
  <2> QED BY <1>1, <1>2, <2>1, QuietFacts DEF Clears, Windows
<1>3. CASE pc[c] = "clear"
  <2>1. pc'[c] = "clearback" /\ on' = on /\ hid' = hid /\ found'[c] = front
    BY <1>3 DEF ListFront, ListBack, Goto, IInv, TypeOK
  <2> QED BY <1>1, <1>3, <2>1, OnFacts DEF Clears, Windows, IInv, Prepared, TypeOK
<1>4. CASE pc[c] = "clearback"
  <2>1. pc'[c] = "clearfront" /\ on' = on /\ found'[c] = Overlaid(c)
    BY <1>4 DEF ListFront, ListBack, Goto, IInv, TypeOK
  <2>2. ASSUME NEW k \in due[c] PROVE Overlaid(c)[k] # Absent
    BY <1>4, <2>2 DEF Overlaid, Hidden, IInv, Prepared, Beneath, TypeOK
  <2> QED BY <1>1, <1>4, <2>1, <2>2, OnFacts DEF Clears, Windows
<1> QED BY <1>2, <1>3, <1>4 DEF ListFront, ListBack

LEMMA WriteFacts ==
    ASSUME IInv, NEW c \in Caller,
           \/ StartClear(c) \/ ClearFront(c) \/ ChangeMask(c)
           \/ \E k \in Key : StartDel(c, k) \/ \E v \in Value : StartSet(c, k, v)
    PROVE  Facts'
<1>1. ASSUME NEW k \in Key, NEW v \in Value, StartSet(c, k, v) PROVE Facts'
  <2>1. /\ OthersSame(c) /\ pc[c] \in Outcomes /\ pc'[c] = "unmask" /\ on'[c] = {k}
        /\ found'[c] = [Nothing EXCEPT ![k] = v]
    BY <1>1, OthersUntouched DEF StartSet, IInv
  <2>2. /\ BeginWrite(c, {k}, {k}) /\ front' = [front EXCEPT ![k] = v] /\ UNCHANGED <<back, masked>>
    BY <1>1 DEF StartSet, LazySet, Begin, over
  <2>3. front'[k] = v /\ found'[c][k] = v /\ \A l \in Key \ {k} : front'[l] = front[l]
    BY <2>1, <2>2 DEF Nothing, IInv, TypeOK, LazyTypeOK
  <2>4. pc[c] \notin Clears \union Windows /\ pc'[c] \in Windows \ Clears
    BY <2>1, StepNames DEF Windows, Clears
  <2> DEFINE keys == {k}
  <2>5. /\ keys \in SUBSET Key /\ BeginWrite(c, keys, keys) /\ on'[c] = keys
        /\ \A l \in Key \ keys : front'[l] = front[l]
        /\ \A l \in keys : front'[l] = found'[c][l] /\ found'[c][l] \in Value
    BY <2>1, <2>2, <2>3
  <2> HIDE DEF keys
  <2> QED BY <2>1, <2>2, <2>4, <2>5, BeginFacts
<1>2. ASSUME NEW k \in Key, StartDel(c, k) PROVE Facts'
  <2>1. /\ OthersSame(c) /\ pc[c] \in Outcomes /\ pc'[c] \in {"giveup", "mask", "delload"}
        /\ on'[c] = {k}
    BY <1>2, OthersUntouched DEF StartDel, IInv
  <2>2. /\ BeginWrite(c, {k}, {k}) /\ front' = [front EXCEPT ![k] = Absent]
        /\ UNCHANGED <<back, masked>>
    BY <1>2 DEF StartDel, Begin, over
  <2>3. \A l \in Key \ {k} : front'[l] = front[l]
    BY <2>2 DEF IInv, TypeOK, LazyTypeOK
  <2>4. pc[c] \notin Clears \union Windows /\ pc'[c] \in Windows \ Clears
    BY <2>1, StepNames DEF Windows, Clears
  <2> QED BY <2>1, <2>2, <2>3, <2>4, BeginFacts
<1>3. CASE StartClear(c)
  <2> DEFINE seen == {k \in Key : Visible(k) # Absent}
  <2>1. /\ OthersSame(c) /\ pc[c] \in Outcomes /\ pc'[c] = "clear" /\ on'[c] = Key
        /\ hid'[c] = masked
    BY <1>3, OthersUntouched DEF StartClear, IInv
  <2>2. BeginWrite(c, Key, seen) /\ UNCHANGED <<front, back, masked>>
    BY <1>3 DEF StartClear, Begin, over, lazy
  <2>3. \A k \in seen : k \notin hid'[c] /\ Beneath(k)' # Absent
    BY <2>1, <2>2 DEF Visible, Beneath
  <2>4. pc[c] \notin Clears \union Windows /\ pc'[c] \in Clears \union Windows
    BY <2>1, StepNames DEF Clears
  <2> QED BY <2>1, <2>2, <2>3, <2>4, BeginFacts
<1>4. CASE ClearFront(c)
  <2>1. /\ pc[c] = "clearfront" /\ pc'[c] = "maskall" /\ OthersSame(c) /\ front' = Nothing
        /\ UNCHANGED <<on, found, back, masked, word, due>>
    BY <1>4, OthersUntouched DEF ClearFront, LazyClear, Nothing, Continue, Goto, over, promises, IInv, TypeOK
  <2>2. \A d \in Caller, k \in Key : Writes(d, k)' <=> Writes(d, k)
    BY <2>1 DEF OthersSame, Writes, Clears, Windows
  <2>3. on[c] = Key /\ \A k \in Key : Writes(c, k)
    BY <2>1 DEF IInv, Whole, Writes, Clears
  <2>4. \A d \in Caller \ {c} : due[d] = {}
    BY <2>3 DEF IInv, Alone, TypeOK
  <2>5. \A k \in Key : word[k] = NoWord
    BY <2>3 DEF IInv, Promised
  <2>6. Whole' /\ Alone'
    BY <2>1, <2>2, <2>3 DEF IInv, Whole, Alone, OthersSame, TypeOK
  <2>7. \A d \in Caller \ {c} : due'[d] = {}
    BY <2>1, <2>4
  <2>8. pc'[c] = "maskall" /\ due'[c] = due[c] /\ found'[c] = found[c]
    BY <2>1
  <2>9. \A k \in due[c] : found[c][k] # Absent
    BY <2>1 DEF IInv, Prepared
  <2>10. ASSUME NEW k \in due'[c]
         PROVE  /\ (pc[c] = "unmask" => front[k] = found[c][k] /\ found[c][k] \in Value)'
                /\ (pc[c] \in {"clear", "clearback"} => k \notin hid[c] /\ Beneath(k) # Absent)'
                /\ (pc[c] = "clearback" => found[c][k] = front[k])'
                /\ (pc[c] \in {"clearfront", "maskall"} => found[c][k] # Absent)'
    BY <2>8, <2>9, <2>10
  <2>11. Prepared'
    BY <2>7, <2>10 DEF Prepared
  <2> QED BY <2>1, <2>5, <2>6, <2>11 DEF Facts, Promised
<1>5. CASE ChangeMask(c)
  <2>1. /\ OthersSame(c) /\ pc'[c] = "written" /\ UNCHANGED <<front, back>>
        /\ due' = [due EXCEPT ![c] = {}]
        /\ word' = [k \in Key |-> IF k \notin due[c] THEN word[k]
                                  ELSE IF pc[c] = "unmask" THEN found[c][k] ELSE Absent]
    BY <1>5, OthersUntouched DEF ChangeMask, Promise, lazy, IInv
  <2>2. \A k \in Key \ on[c] : k \in masked' <=> k \in masked
    BY <1>5 DEF ChangeMask, Masks
  <2>3. /\ due[c] \subseteq on[c] /\ due'[c] = {} /\ \A d \in Caller \ {c} : due'[d] = due[d]
        /\ \A k \in due[c] : \A d \in Caller \ {c} : ~Writes(d, k)
    BY <2>1 DEF IInv, Alone, Writes, TypeOK
  <2>4. /\ \A k \in Key : ~Writes(c, k)'
        /\ \A d \in Caller \ {c}, k \in Key : Writes(d, k)' <=> Writes(d, k)
    BY <2>1, StepNames DEF OthersSame, Writes, Outcomes
  <2>5. ASSUME NEW d \in Caller, NEW k \in due'[d]
        PROVE  Writes(d, k)' /\ \A e \in Caller \ {d} : ~Writes(e, k)'
    <3>1. d # c /\ k \in due[d] /\ k \in Key
      BY <2>3 DEF IInv, TypeOK
    <3>2. Writes(d, k) /\ \A e \in Caller \ {d} : ~Writes(e, k)
      BY <3>1 DEF IInv, Alone
    <3> QED BY <2>4, <3>1, <3>2
  <2>11. Alone'
    BY <2>5 DEF Alone
  <2>9. Whole'
    BY <2>1 DEF IInv, Whole, OthersSame, Clears
  <2>6. Prepared'
    <3>1. due'[c] = {} /\ \A d \in Caller \ {c} : due'[d] = due[d]
      BY <2>3
    <3>2. \A d \in Caller \ {c} :
            pc'[d] = pc[d] /\ hid'[d] = hid[d] /\ found'[d] = found[d]
      BY <2>1 DEF OthersSame
    <3>3. front' = front /\ \A k \in Key : Beneath(k)' = Beneath(k)
      BY <2>1 DEF Beneath
    <3>4. \A d \in Caller : due[d] \subseteq Key
      BY DEF IInv, TypeOK
    <3>5. ASSUME NEW d \in Caller, NEW k \in due'[d]
          PROVE  /\ d # c /\ k \in due[d] /\ k \in Key /\ pc'[d] = pc[d]
                 /\ front'[k] = front[k] /\ found'[d][k] = found[d][k]
                 /\ hid'[d] = hid[d] /\ Beneath(k)' = Beneath(k)
      BY <3>1, <3>2, <3>3, <3>4
    <3>6. ASSUME NEW d \in Caller, NEW k \in due'[d]
          PROVE  /\ pc'[d] = "unmask" => front'[k] = found'[d][k] /\ found'[d][k] \in Value
                 /\ pc'[d] \in {"clear", "clearback"} => k \notin hid'[d] /\ Beneath(k)' # Absent
                 /\ pc'[d] = "clearback" => found'[d][k] = front'[k]
                 /\ pc'[d] \in {"clearfront", "maskall"} => found'[d][k] # Absent
      <4>1. /\ pc[d] = "unmask" => front[k] = found[d][k] /\ found[d][k] \in Value
            /\ pc[d] \in {"clear", "clearback"} => k \notin hid[d] /\ Beneath(k) # Absent
            /\ pc[d] = "clearback" => found[d][k] = front[k]
            /\ pc[d] \in {"clearfront", "maskall"} => found[d][k] # Absent
        BY <3>5, <3>6 DEF IInv, Prepared
      <4> HIDE DEF Prepared
      <4> QED BY <4>1, <3>5, <3>6
    <3> QED BY <3>6 DEF Prepared
  <2>7. ASSUME NEW k \in due[c]
        PROVE  /\ word'[k] = Absent => k \in masked'
               /\ word'[k] # Absent => k \notin masked' /\ front'[k] = word'[k]
    <3>1. k \in Key /\ k \in on[c]
      BY <2>3, <2>7 DEF IInv, TypeOK
    <3>2. CASE pc[c] = "unmask"
      BY <1>5, <2>1, <2>7, <3>1, <3>2, Distinct DEF ChangeMask, IInv, Prepared, Entry
    <3>3. CASE pc[c] \in {"mask", "maskall"}
      BY <1>5, <2>1, <2>7, <3>1, <3>3 DEF ChangeMask, Masks, IInv, Prepared
    <3> QED BY <1>5, <3>2, <3>3 DEF ChangeMask
  <2>8. ASSUME NEW k \in Key \ due[c], word'[k] # NoWord
        PROVE  k \notin on[c] /\ word'[k] = word[k]
    BY <1>5, <2>1, <2>8 DEF ChangeMask, IInv, Promised, Writes, Clears, Windows
  <2>10. Promised'
    <3> SUFFICES ASSUME NEW k \in Key, word'[k] # NoWord
                 PROVE  /\ \A d \in Caller : ~Writes(d, k)'
                        /\ word'[k] = Absent => k \in masked'
                        /\ word'[k] # Absent => k \notin masked' /\ front'[k] = word'[k]
      BY DEF Promised
    <3>1. CASE k \in due[c]
      BY <2>3, <2>4, <2>7, <3>1
    <3>2. CASE k \notin due[c]
      BY <2>1, <2>2, <2>4, <2>8, <3>2 DEF IInv, Promised
    <3> QED BY <3>1, <3>2
  <2> QED BY <2>11, <2>6, <2>9, <2>10 DEF Facts
<1> QED BY <1>1, <1>2, <1>3, <1>4, <1>5

LEMMA OwnerFacts ==
    ASSUME IInv, NEW k \in Key, OwnerStep(k)
    PROVE  Facts'
<1>1. ASSUME NEW l \in Loader, OwnerPutsLazy(k, l) PROVE Facts'
  <2>1. /\ front' = [front EXCEPT ![k] = l] /\ UNCHANGED <<back, masked, pc, on, hid, found>>
        /\ due' = [d \in Caller |-> due[d] \ {k}]
        /\ word' = [word EXCEPT ![k] = IF @ = Absent THEN @ ELSE NoWord]
    BY <1>1 DEF OwnerPutsLazy, PutLazy, over, local
  <2>2. /\ \A d \in Caller, j \in Key : Writes(d, j)' <=> Writes(d, j)
        /\ \A j \in Key \ {k} : front'[j] = front[j] /\ word'[j] = word[j]
        /\ word'[k] \in {Absent, NoWord} /\ (word'[k] = Absent => word[k] = Absent)
    BY <2>1, Distinct DEF Writes, IInv, TypeOK, LazyTypeOK
  <2>3. Alone' /\ Whole'
    BY <2>1, <2>2 DEF IInv, Alone, Whole, TypeOK
  <2>4. Prepared'
    BY <2>1, <2>2 DEF IInv, Prepared, Beneath, TypeOK
  <2>5. Promised'
    BY <2>1, <2>2, Distinct DEF IInv, Promised
  <2> QED BY <2>3, <2>4, <2>5 DEF Facts
<1>2. ASSUME NEW v \in Value \union {Absent}, OwnerWritesBack(k, v) PROVE Facts'
  <2>1. /\ back' = [back EXCEPT ![k] = v] /\ UNCHANGED <<front, masked, pc, on, hid, found, word>>
        /\ due' = [d \in Caller |-> IF pc[d] \in Clears THEN due[d] \ {k} ELSE due[d]]
    BY <1>2 DEF OwnerWritesBack, lazy, local
  <2>2. /\ \A d \in Caller, j \in Key : Writes(d, j)' <=> Writes(d, j)
        /\ \A d \in Caller : due'[d] \subseteq due[d] /\ (pc[d] \in Clears => k \notin due'[d])
        /\ \A j \in Key \ {k} : back'[j] = back[j]
    BY <2>1 DEF Writes, IInv, TypeOK
  <2>3. Alone' /\ Whole'
    BY <2>1, <2>2 DEF IInv, Alone, Whole, TypeOK
  <2>4. Prepared'
    BY <2>1, <2>2 DEF IInv, Prepared, Beneath, TypeOK, Clears
  <2>5. Promised'
    BY <2>1, <2>2 DEF IInv, Promised
  <2> QED BY <2>3, <2>4, <2>5 DEF Facts
<1> QED BY <1>1, <1>2 DEF OwnerStep

-------------------------------------------------------------------------------
\* What is read was put

LEMMA CacheGrows ==
    ASSUME TypeOK, \/ UNCHANGED cache
                   \/ \E c \in Caller : Load(c)
                   \/ \E k \in Key, l \in Loader : PutLazy(k, l)
    PROVE  \A l \in Loader : cache[l] # Unmade => cache'[l] # Unmade
<1>1. ASSUME NEW c \in Caller, Load(c) PROVE \A l \in Loader : cache[l] # Unmade => cache'[l] # Unmade
  BY <1>1, LoadTyped DEF Load
<1>2. ASSUME NEW k \in Key, NEW l \in Loader, PutLazy(k, l)
      PROVE  \A m \in Loader : cache[m] # Unmade => cache'[m] # Unmade
  BY <1>2, TableSentinels DEF PutLazy, TypeOK, LazyTypeOK
<1> QED BY <1>1, <1>2

\* The entries a call has read are those it had, or in front, or values.
Sources(c) == \A k \in Key :
    \/ found'[c][k] \in Value \union {Absent}
    \/ \E j \in Key : found'[c][k] \in {found[c][j], front[j]}

LEMMA MadeKept ==
    ASSUME IInv, NEW c \in Caller, \A d \in Caller \ {c} : found'[d] = found[d],
           Sources(c), \A l \in Loader : cache[l] # Unmade => cache'[l] # Unmade
    PROVE  Made'
<1>1. \A k \in Key : front[k] \in Loader => cache[front[k]] # Unmade
  BY DEF IInv, TypeOK, LazyTypeOK
<1>2. Loader \intersect (Value \union {Absent}) = {}
  BY TableSentinels
<1> QED BY <1>1, <1>2 DEF IInv, Made, Sources

LEMMA ReadSources ==
    ASSUME IInv, NEW c \in Caller
    PROVE  /\ found' = found => Sources(c)
           /\ found' = [found EXCEPT ![c] = Nothing] => Sources(c)
           /\ found' = [found EXCEPT ![c] = front] => Sources(c)
           /\ found' = [found EXCEPT ![c] = found[c]] => Sources(c)
           /\ found' = [found EXCEPT ![c] = Overlaid(c)] => Sources(c)
           /\ \A k \in Key : found' = [found EXCEPT ![c][k] = front[k]] => Sources(c)
           /\ \A k \in Key, e \in Value \union {Absent} :
                 found' = [found EXCEPT ![c] = [Nothing EXCEPT ![k] = e]] => Sources(c)
           /\ \A k \in Key : found' = [found EXCEPT ![c] = [Nothing EXCEPT ![k] = front[k]]] => Sources(c)
<1> USE DEF Sources, IInv, TypeOK
<1>1. found' = found => Sources(c)
  OBVIOUS
<1>2. found' = [found EXCEPT ![c] = Nothing] => Sources(c)
  BY DEF Nothing
<1>3. found' = [found EXCEPT ![c] = front] => Sources(c)
  OBVIOUS
<1>4. found' = [found EXCEPT ![c] = found[c]] => Sources(c)
  OBVIOUS
<1>5. found' = [found EXCEPT ![c] = Overlaid(c)] => Sources(c)
  BY DEF Overlaid
<1>6. \A k \in Key : found' = [found EXCEPT ![c][k] = front[k]] => Sources(c)
  OBVIOUS
<1>7. \A k \in Key, e \in Value \union {Absent} :
         found' = [found EXCEPT ![c] = [Nothing EXCEPT ![k] = e]] => Sources(c)
  BY DEF Nothing
<1>8. \A k \in Key : found' = [found EXCEPT ![c] = [Nothing EXCEPT ![k] = front[k]]] => Sources(c)
  BY DEF Nothing
<1> QED BY <1>1, <1>2, <1>3, <1>4, <1>5, <1>6, <1>7, <1>8

LEMMA CallMade ==
    ASSUME IInv, NEW c \in Caller, CallStep(c)
    PROVE  Made'
<1>1. \A d \in Caller \ {c} : found'[d] = found[d]
  BY CallsApart DEF IInv, OthersSame
<1>2. Sources(c)
  <2>1. ASSUME NEW k \in Key, StartGet(c, k) \/ StartDel(c, k) PROVE Sources(c)
    BY <2>1, ReadSources DEF StartGet, StartDel, Begin
  <2>2. ASSUME NEW k \in Key, NEW v \in Value, StartSet(c, k, v) PROVE Sources(c)
    BY <2>2, ReadSources DEF StartSet, Begin
  <2>3. CASE StartEntries(c) \/ StartClear(c)
    BY <2>3, ReadSources DEF StartEntries, StartClear, Begin
  <2>4. ASSUME NEW k \in on[c], Check(c, k) \/ Look(c, k) \/ Fetch(c, k) \/ Behind(c, k)
        PROVE  Sources(c)
    <3>1. k \in Key /\ back[k] \in Value \union {Absent}
      BY DEF IInv, TypeOK
    <3> QED BY <2>4, <3>1, ReadSources
            DEF Check, Look, Fetch, Behind, Continue, ReturnEntry, Return, local
  <2>5. CASE ListFront(c) \/ ForceEntry(c) \/ ListBack(c)
    BY <2>5, ReadSources DEF ListFront, ForceEntry, ListBack, Continue, Fail, Return, local
  <2>6. CASE ClearFront(c) \/ ChangeMask(c) \/ GiveUp(c) \/ LoaderPanics(c) \/ FrontFails(c)
    BY <2>6, ReadSources
       DEF ClearFront, ChangeMask, GiveUp, LoaderPanics, FrontFails, Continue, Promise, Fail, Return, local
  <2>7. CASE Load(c)
    BY <2>7, ReadSources DEF Load, Continue, Fail, Return, local
  <2> QED BY <2>1, <2>2, <2>3, <2>4, <2>5, <2>6, <2>7 DEF CallStep
<1>3. UNCHANGED cache \/ Load(c)
  BY DEF CallStep, StartGet, StartDel, StartSet, LazySet, StartEntries, StartClear, Check, Look, Fetch,
         Behind, ListFront, ForceEntry, ListBack, ClearFront, LazyClear, ChangeMask, GiveUp,
         LoaderPanics, Panics, FrontFails, lazy
<1> QED BY <1>1, <1>2, <1>3, CacheGrows, MadeKept DEF IInv

LEMMA OwnerMade ==
    ASSUME IInv, NEW k \in Key, OwnerStep(k)
    PROVE  Made'
<1>1. found' = found /\ (UNCHANGED cache \/ \E l \in Loader : PutLazy(k, l))
  BY DEF OwnerStep, OwnerPutsLazy, OwnerWritesBack, lazy, local
<1>2. \A l \in Loader : cache[l] # Unmade => cache'[l] # Unmade
  BY <1>1, CacheGrows DEF IInv
<1> QED BY <1>1, <1>2 DEF IInv, Made, TypeOK

-------------------------------------------------------------------------------
\* The invariant

LEMMA InitIInv == Init => IInv
<1> SUFFICES ASSUME Init PROVE IInv
  OBVIOUS
<1>1. "failed" \in Outcomes /\ "failed" \notin {"getload", "delload", "entload"}
  BY DEF Outcomes
<1>2. TypeOK
  <2>1. LazyTypeOK
    BY TableSentinels DEF Init, LazyInit, LazyTypeOK
  <2>2. load = [c \in Caller |-> NoLoad]
    BY DEF Init, LazyInit
  <2> QED BY <1>1, <2>1, <2>2 DEF Init, TypeOK, Nothing
<1>3. Made /\ Whole /\ Alone /\ Prepared /\ Promised
  BY <1>1, TableSentinels
     DEF Init, LazyInit, Made, Whole, Alone, Prepared, Promised, Nothing, Clears, Writes
<1> QED BY <1>2, <1>3 DEF IInv

LEMMA CallKeeps ==
    ASSUME IInv, NEW c \in Caller, CallStep(c)
    PROVE  Typed' /\ Facts' /\ Made'
<1>1. on[c] \subseteq Key
  BY DEF IInv, TypeOK
<1>2. CASE \/ StartEntries(c) \/ ForceEntry(c)
           \/ \E k \in Key : StartGet(c, k) \/ Check(c, k) \/ Look(c, k) \/ Fetch(c, k) \/ Behind(c, k)
  BY <1>2, ReadTyped, ReadFacts, CallMade DEF IInv
<1>3. CASE ListFront(c) \/ ListBack(c)
  BY <1>3, ReadTyped, ListFacts, CallMade DEF IInv
<1>4. CASE \/ StartClear(c) \/ ClearFront(c) \/ ChangeMask(c)
           \/ \E k \in Key : StartDel(c, k) \/ \E v \in Value : StartSet(c, k, v)
  BY <1>4, WriteTyped, WriteFacts, CallMade DEF IInv
<1>5. CASE GiveUp(c) \/ LoaderPanics(c) \/ FrontFails(c)
  BY <1>5, WriteTyped, ReadFacts, CallMade DEF IInv
<1>6. CASE Load(c)
  BY <1>6, WriteTyped, LoadFacts, CallMade DEF IInv
<1> QED BY <1>1, <1>2, <1>3, <1>4, <1>5, <1>6 DEF CallStep

LEMMA TypedWatched ==
    ASSUME TypeOK, NEW owned, Watch(owned), Typed'
    PROVE  TypeOK'
<1>1. front' \in [Key -> Entry \union {Absent}] /\ back' \in [Key -> Value \union {Absent}]
  BY DEF Typed, LazyTypeOK
<1>2. saw' \in [Caller -> [Key -> SUBSET (Entry \union {Absent})]]
  BY <1>1, WatchTyped
<1> QED BY <1>2 DEF Typed, TypeOK, Steps

LEMMA NextIInv ==
    ASSUME IInv, [Next]_vars
    PROVE  IInv'
<1>1. ASSUME NEW c \in Caller, CallStep(c), Watch({}) PROVE IInv'
  BY <1>1, CallKeeps, TypedWatched DEF IInv, Facts
<1>2. ASSUME NEW k \in Key, OwnerStep(k), Watch({k}) PROVE IInv'
  BY <1>2, OwnerTyped, OwnerFacts, OwnerMade, TypedWatched DEF IInv, Facts
<1>3. CASE UNCHANGED vars
  <2>1. UNCHANGED <<front, cache, poisoned, load, answers, raced, back, masked, pc, on, hid, found,
                    todo, word, due, saw>>
    BY <1>3 DEF vars, lazy, over, local, promises
  <2>2. TypeOK' /\ Made' /\ Whole'
    BY <2>1 DEF IInv, TypeOK, LazyTypeOK, Made, Whole
  <2>3. \A c \in Caller, k \in Key : Writes(c, k)' <=> Writes(c, k)
    BY <2>1 DEF Writes
  <2>4. Alone' /\ Prepared' /\ Promised'
    BY <2>1, <2>3 DEF IInv, TypeOK, Alone, Prepared, Promised, Beneath
  <2> QED BY <2>2, <2>4 DEF IInv
<1> QED BY <1>1, <1>2, <1>3 DEF Next

THEOREM Invariance == Spec => []IInv
<1>1. Init => IInv
  BY InitIInv
<1>2. IInv /\ [Next]_vars => IInv'
  BY NextIInv
<1> QED BY <1>1, <1>2, PTL DEF Spec

-------------------------------------------------------------------------------
\* Theorems

\* A caller runs a loader exactly in the steps that wait for one, and every table entry,
\* listing and promise is of its kind: override_table.rs and lazy.rs, every method.
THEOREM TypeCorrect == Spec => []TypeOK
<1>1. IInv => TypeOK
  BY DEF IInv
<1> QED BY <1>1, Invariance, PTL

\* override_table.rs:18-22: a value set through the override is found, and what del or
\* clear hid stays hidden, until the next writer of the key begins.
THEOREM WordAlwaysKept == Spec => []WordIsKept
<1>1. ASSUME IInv, NEW k \in Key, word[k] # NoWord PROVE Visible(k) = word[k]
  <2>1. CASE word[k] = Absent
    BY <1>1, <2>1 DEF IInv, Promised, Visible
  <2>2. CASE word[k] # Absent
    BY <1>1, <2>2 DEF IInv, Promised, Visible, Beneath
  <2> QED BY <2>1, <2>2
<1>2. IInv => WordIsKept
  BY <1>1 DEF WordIsKept
<1> QED BY <1>2, Invariance, PTL

-------------------------------------------------------------------------------
\* Everyone is told the same

\* Caller c runs the loader of l.
Asks(c, l) == load[c] # NoLoad /\ load[c].entry = l

\* Of an entry whose loader two callers never ran at a time, what callers were told is
\* what is kept, and while the loader runs nothing is kept and nobody else runs it.
Once ==
    \A l \in Loader \ raced :
        /\ answers[l] \subseteq {cache[l]}
        /\ \A c \in Caller : Asks(c, l) =>
              cache[l] = Unforced /\ \A d \in Caller \ {c} : ~Asks(d, l)

\* What a step does to the entries: nothing, or one of the ways to force one.
Forces(c) ==
    \/ UNCHANGED <<cache, load, answers, raced>>
    \/ \E e \in Entry \union {Absent} : Recalls(e) /\ UNCHANGED cache
    \/ \E e \in Entry \union {Absent}, lock \in {"read", "write", "none"} :
          Runs(c, e, lock) /\ UNCHANGED cache
    \/ \E r \in Answer : Answers(c, r)
    \/ load[c] # NoLoad /\ Panics(c)

\* Every step of a caller is one of them.
LEMMA CallForces ==
    ASSUME IInv, NEW c \in Caller, CallStep(c)
    PROVE  Forces(c)
<1>1. /\ \A k \in Key : front[k] \in Entry \union {Absent} /\ found[c][k] \in Entry \union {Absent}
      /\ on[c] \subseteq Key /\ todo[c] \subseteq Key
  BY DEF IInv, TypeOK, LazyTypeOK
<1>2. ASSUME NEW k \in Key, StartDel(c, k) \/ Fetch(c, k) PROVE Forces(c)
  BY <1>1, <1>2 DEF StartDel, Fetch, Forces
<1>3. CASE ForceEntry(c)
  BY <1>1, <1>3 DEF ForceEntry, Forces, lazy
<1>4. CASE Load(c) \/ LoaderPanics(c)
  BY <1>4 DEF Load, LoaderPanics, Forces
<1>5. ASSUME ~ForceEntry(c), ~Load(c), ~LoaderPanics(c),
             \A k \in Key : ~StartDel(c, k) /\ ~Fetch(c, k)
      PROVE  Forces(c)
  BY <1>1, <1>5 DEF CallStep, StartGet, StartSet, LazySet, StartEntries, StartClear, Check, Look,
         Behind, ListFront, ListBack, ClearFront, LazyClear, ChangeMask, GiveUp, FrontFails, lazy, Forces
<1> QED BY <1>2, <1>3, <1>4, <1>5

\* A loader that runs alone is the one whose answer is kept.
LEMMA ForcesOnce ==
    ASSUME TypeOK, Once, NEW c \in Caller, Forces(c)
    PROVE  Once'
<1>0. /\ cache \in [Loader -> Answer \union {Unmade, Unforced}]
      /\ load \in [Caller -> {NoLoad} \union Frames]
      /\ answers \in [Loader -> SUBSET Answer] /\ raced \subseteq Loader
  BY DEF TypeOK, LazyTypeOK
<1>1. CASE UNCHANGED <<cache, load, answers, raced>>
  BY <1>1 DEF Once, Asks
<1>2. ASSUME NEW e \in Entry \union {Absent}, Recalls(e), UNCHANGED cache PROVE Once'
  <2>1. UNCHANGED <<load, raced>> /\ \A l \in Loader : answers'[l] \subseteq answers[l] \union {cache[l]}
    BY <1>0, <1>2 DEF Recalls, Hear, Known
  <2> QED BY <1>2, <2>1 DEF Once, Asks
<1>3. ASSUME NEW e \in Entry \union {Absent}, NEW lock \in {"read", "write", "none"},
             Runs(c, e, lock), UNCHANGED cache
      PROVE  Once'
  <2>1. e \in Loader /\ cache[e] = Unforced
    BY <1>3, Distinct, TableSentinels DEF Runs, Known, Entry
  <2>2. /\ load' = [load EXCEPT ![c] = [entry |-> e, lock |-> lock]] /\ answers' = answers
        /\ raced' = IF \E d \in Caller : Asks(d, e) THEN raced \union {e} ELSE raced
    BY <1>3 DEF Runs, Enter, Asks
  <2>3. /\ \A d \in Caller \ {c}, l \in Loader : Asks(d, l)' <=> Asks(d, l)
        /\ \A l \in Loader : Asks(c, l)' => l = e
    BY <1>0, <2>2 DEF Asks
  <2>4. ASSUME NEW l \in Loader \ raced' 
        PROVE  /\ answers'[l] \subseteq {cache'[l]}
               /\ \A d \in Caller : Asks(d, l)' =>
                     cache'[l] = Unforced /\ \A b \in Caller \ {d} : ~Asks(b, l)'
    <3>1. l \in Loader \ raced
      BY <2>2
    <3>2. CASE l = e
      BY <1>3, <2>1, <2>2, <2>3, <3>1, <3>2 DEF Once
    <3>3. CASE l # e
      BY <1>3, <2>2, <2>3, <3>1, <3>3 DEF Once
    <3> QED BY <3>2, <3>3
  <2> QED BY <2>4 DEF Once
<1>4. ASSUME NEW r \in Answer, Answers(c, r) PROVE Once'
  <2> DEFINE e == load[c].entry
  <2>1. e \in Loader /\ Asks(c, e)
    BY <1>0, <1>4 DEF Answers, Frames, Asks
  <2>2. /\ load' = [load EXCEPT ![c] = NoLoad] /\ raced' = raced
        /\ answers' = [answers EXCEPT ![e] = @ \union {r}]
        /\ cache' = IF cache[e] = Unforced THEN [cache EXCEPT ![e] = r] ELSE cache
    BY <1>4, <2>1 DEF Answers, Keeps, Hear, Releases
  <2>3. /\ \A d \in Caller \ {c}, l \in Loader : Asks(d, l)' <=> Asks(d, l)
        /\ \A l \in Loader : ~Asks(c, l)'
    BY <1>0, <2>2 DEF Asks
  <2>4. Unforced \notin Answer
    BY Distinct, TableSentinels DEF Answer, Entry
  <2> HIDE DEF e
  <2>5. ASSUME NEW l \in Loader \ raced' 
        PROVE  /\ answers'[l] \subseteq {cache'[l]}
               /\ \A d \in Caller : Asks(d, l)' =>
                     cache'[l] = Unforced /\ \A b \in Caller \ {d} : ~Asks(b, l)'
    <3>1. l \in Loader \ raced
      BY <2>2
    <3>2. CASE l = e
      <4>1. cache[l] = Unforced /\ \A d \in Caller \ {c} : ~Asks(d, l)
        BY <2>1, <3>1, <3>2 DEF Once
      <4>2. answers[l] = {}
        BY <1>0, <2>4, <3>1, <4>1 DEF Once
      <4>3. answers'[l] = {r} /\ cache'[l] = r
        BY <1>0, <2>1, <2>2, <3>2, <4>1, <4>2
      <4> QED BY <2>3, <4>1, <4>3
    <3>3. CASE l # e
      <4>1. answers'[l] = answers[l] /\ cache'[l] = cache[l]
        BY <1>0, <2>2, <3>3
      <4> QED BY <2>3, <3>1, <4>1 DEF Once
    <3> QED BY <3>2, <3>3
  <2> QED BY <2>5 DEF Once
<1>5. CASE load[c] # NoLoad /\ Panics(c)
  <2>1. /\ load' = [load EXCEPT ![c] = NoLoad] /\ UNCHANGED <<raced, answers, cache>>
    BY <1>5 DEF Panics, Releases
  <2>2. /\ \A d \in Caller \ {c}, l \in Loader : Asks(d, l)' <=> Asks(d, l)
        /\ \A l \in Loader : ~Asks(c, l)'
    BY <1>0, <2>1 DEF Asks
  <2> QED BY <2>1, <2>2 DEF Once
<1> QED BY <1>1, <1>2, <1>3, <1>4, <1>5 DEF Forces

\* An entry that is put has been asked for by nobody.
LEMMA OwnerOnce ==
    ASSUME TypeOK, Once, NEW k \in Key, OwnerStep(k)
    PROVE  Once'
<1>1. CASE \E v \in Value \union {Absent} : OwnerWritesBack(k, v)
  BY <1>1 DEF OwnerWritesBack, lazy, Once, Asks
<1>2. ASSUME NEW l \in Loader, OwnerPutsLazy(k, l) PROVE Once'
  <2>1. /\ cache[l] = Unmade /\ cache' = [cache EXCEPT ![l] = Unforced]
        /\ UNCHANGED <<load, answers, raced>>
    BY <1>2 DEF OwnerPutsLazy, PutLazy
  <2>2. Unmade \notin Answer /\ Unmade # Unforced
    BY Distinct, TableSentinels DEF Answer, Entry
  <2>3. l \in raced \/ answers[l] = {}
    BY <2>1, <2>2 DEF Once, TypeOK, LazyTypeOK
  <2>4. \A m \in Loader : m # l => cache'[m] = cache[m]
    BY <2>1 DEF TypeOK, LazyTypeOK
  <2>5. cache'[l] = Unforced
    BY <2>1 DEF TypeOK, LazyTypeOK
  <2> QED BY <2>1, <2>2, <2>3, <2>4, <2>5 DEF Once, Asks
<1> QED BY <1>1, <1>2 DEF OwnerStep

\* lazy.rs:35-42: whoever asks for an entry is given the same answer, an error included,
\* unless two callers ran its loader at a time.
THEOREM EveryoneToldTheSame == Spec => []OneAnswer
<1>1. Init => Once
  BY DEF Init, LazyInit, Once, Asks
<1>2. IInv /\ Once /\ [Next]_vars => Once'
  <2> SUFFICES ASSUME IInv, Once, [Next]_vars PROVE Once'
    OBVIOUS
  <2>1. ASSUME NEW c \in Caller, CallStep(c) PROVE Once'
    BY <2>1, CallForces, ForcesOnce DEF IInv
  <2>2. ASSUME NEW k \in Key, OwnerStep(k) PROVE Once'
    BY <2>2, OwnerOnce DEF IInv
  <2>3. CASE UNCHANGED vars
    BY <2>3 DEF vars, lazy, Once, Asks
  <2> QED BY <2>1, <2>2, <2>3 DEF Next
<1>3. Once => OneAnswer
  <2> SUFFICES ASSUME Once, NEW l \in Loader \ raced PROVE Cardinality(answers[l]) <= 1
    BY DEF OneAnswer
  <2>1. answers[l] = {} \/ answers[l] = {cache[l]}
    BY DEF Once
  <2>2. Cardinality({}) = 0 /\ Cardinality({cache[l]}) = 1
    BY FS_EmptySet, FS_Singleton
  <2> QED BY <2>1, <2>2
<1> QED BY <1>1, <1>2, <1>3, Invariance, PTL DEF Spec

-------------------------------------------------------------------------------
\* Lookups answer what was so during the call

Gets == {"check", "look", "fetch", "getload", "lookback", "fetchback"}
Lists == {"force", "entload", "entriesback"}

\* What a listing has of a key, by the layer that decides.
Listed(c, k) == IF found[c][k] # Absent THEN found[c][k] ELSE back[k]

\* What caller c may still answer of k, by what it knows at each step.
Pending(c, k) ==
    CASE pc[c] = "look" -> {Beneath(k)}
      [] pc[c] = "fetch" -> {front[k]}
      [] pc[c] \in {"lookback", "fetchback"} -> {back[k]}
      [] pc[c] \in {"getload", "read"} -> {found[c][k]}
      [] pc[c] = "entries" -> IF k \in hid[c] THEN {Absent} ELSE {Beneath(k)}
      [] pc[c] \in Lists -> IF k \in hid[c] THEN {Absent} ELSE {Listed(c, k)}
      [] OTHER -> {}

\* All of it is among what the call has seen, and so is what a lookup would find now.
Told(c) ==
    /\ pc[c] \in Gets => \E k \in Key : on[c] = {k}
    /\ pc[c] \in {"entries"} \union Lists => on[c] = Key
    /\ \A k \in on[c] : /\ Pending(c, k) \subseteq saw[c][k]
                        /\ pc[c] \in Reads => Possible(k) \subseteq saw[c][k]

Seen == \A c \in Caller : Told(c)

\* A caller changes the front layer only as a writer that is between layer and mask, so
\* that lookups may find both, and never the layer behind.
LEMMA ShownWhileWritten ==
    ASSUME IInv, NEW c \in Caller, CallStep(c)
    PROVE  /\ back' = back
           /\ \A k \in Key : front'[k] = front[k] \/ (pc'[c] \in Windows /\ k \in on'[c])
<1>0. front \in [Key -> Entry \union {Absent}] /\ on[c] \subseteq Key
  BY DEF IInv, TypeOK, LazyTypeOK
<1>1. ASSUME NEW k \in Key, NEW v \in Value, StartSet(c, k, v)
      PROVE  /\ back' = back /\ pc'[c] \in Windows /\ on'[c] = {k}
             /\ \A l \in Key \ {k} : front'[l] = front[l]
  BY <1>0, <1>1, OthersUntouched DEF StartSet, LazySet, Begin, over, Windows, IInv
<1>2. ASSUME NEW k \in Key, StartDel(c, k)
      PROVE  /\ back' = back /\ pc'[c] \in Windows /\ on'[c] = {k}
             /\ \A l \in Key \ {k} : front'[l] = front[l]
  <2>1. pc'[c] \in {"giveup", "mask", "delload"} /\ on'[c] = {k}
    BY <1>2, OthersUntouched DEF StartDel, IInv
  <2>2. front' = [front EXCEPT ![k] = Absent] /\ back' = back
    BY <1>2 DEF StartDel, Begin, over
  <2> QED BY <1>0, <2>1, <2>2 DEF Windows
<1>3. CASE ClearFront(c)
  <2>1. back' = back /\ on'[c] = on[c] /\ pc'[c] = "maskall"
    BY <1>3 DEF ClearFront, Continue, Goto, local, over, IInv, TypeOK
  <2>2. on[c] = Key
    BY <1>3 DEF ClearFront, Clears, IInv, Whole
  <2> QED BY <2>1, <2>2 DEF Windows
<1>4. ASSUME ~ClearFront(c), \A k \in Key : ~StartDel(c, k) /\ \A v \in Value : ~StartSet(c, k, v)
      PROVE  back' = back /\ front' = front
  BY <1>0, <1>4 DEF CallStep, StartGet, StartEntries, StartClear, Check, Look, Fetch, Behind, ListFront,
        ForceEntry, ListBack, ChangeMask, GiveUp, Load, LoaderPanics, FrontFails, Answers, Panics,
        Begin, Continue, ReturnEntry, Fail, lazy, over
<1> QED BY <1>1, <1>2, <1>3, <1>4

\* A lookup that another caller's step finds under way, or over.
LEMMA OthersSeen ==
    ASSUME IInv, Seen, NEW c \in Caller, CallStep(c), Watch({}), OthersSame(c),
           NEW d \in Caller \ {c}
    PROVE  Told(d)'
<1>0. /\ pc'[d] = pc[d] /\ on'[d] = on[d] /\ hid'[d] = hid[d] /\ found'[d] = found[d]
      /\ on[d] \subseteq Key /\ Told(d)
      /\ front \in [Key -> Entry \union {Absent}] /\ back \in [Key -> Value \union {Absent}]
  BY DEF OthersSame, Seen, IInv, TypeOK, LazyTypeOK
<1>1. ASSUME NEW k \in on[d]
      PROVE  Pending(d, k)' \subseteq saw'[d][k] /\ (pc[d] \in Reads => Possible(k)' \subseteq saw'[d][k])
  <2>0. k \in Key /\ saw'[d][k] = Watches(d, k, {})
    BY <1>0, <1>1 DEF Watch
  <2>1. CASE pc[d] \in Reads
    <3>1. pc[d] \notin Outcomes
      BY <2>1 DEF Reads, Outcomes
    <3>2. saw'[d][k] = saw[d][k] \union Possible(k)'
      BY <1>0, <1>1, <2>0, <2>1, <3>1 DEF Watches
    <3>3. /\ front'[k] = front[k] \/ {Beneath(k)', Absent} \subseteq Possible(k)'
          /\ back' = back
      BY <2>0, ShownWhileWritten DEF Possible
    <3>4. /\ Beneath(k)' = Beneath(k) \/ Beneath(k)' \in Possible(k)'
          /\ front'[k] = front[k] \/ front'[k] \in Possible(k)'
          /\ Listed(d, k)' = Listed(d, k)
      BY <1>0, <3>3 DEF Beneath, Listed
    <3>5. Pending(d, k)' \subseteq Pending(d, k) \union Possible(k)'
      BY <1>0, <3>3, <3>4 DEF Pending
    <3> QED BY <1>0, <1>1, <3>2, <3>5 DEF Told
  <2>2. CASE pc[d] = "read"
    <3>1. saw'[d][k] = saw[d][k] /\ pc[d] \notin Reads
      BY <1>0, <1>1, <2>0, <2>2 DEF Watches, Outcomes, Reads
    <3>2. Pending(d, k)' = Pending(d, k)
      BY <1>0, <2>2 DEF Pending, Lists
    <3> QED BY <1>0, <1>1, <3>1, <3>2 DEF Told
  <2>3. CASE pc[d] \notin Reads \union {"read"}
    <3>1. Pending(d, k)' = {}
      BY <1>0, <2>3 DEF Pending, Reads, Lists
    <3> QED BY <2>3, <3>1
  <2> QED BY <2>1, <2>2, <2>3
<1> QED BY <1>0, <1>1 DEF Told

\* A caller that looks nothing up is told nothing.
LEMMA NothingToTell ==
    ASSUME NEW c \in Caller, pc'[c] \notin Reads \union {"read"}
    PROVE  Told(c)'
<1>1. pc'[c] \notin Gets \union {"entries"} \union Lists
  BY DEF Reads, Gets, Lists
<1>2. \A k : Pending(c, k)' = {}
  BY DEF Pending, Reads, Lists
<1> QED BY <1>1, <1>2 DEF Told

\* A lookup that goes on, or returns.
LEMMA GoesOn ==
    ASSUME IInv, NEW c \in Caller, Told(c), Watch({}),
           pc[c] \in Reads, pc'[c] \in Reads \union {"read"}, on'[c] = on[c],
           pc'[c] \in Gets => pc[c] \in Gets,
           pc'[c] \in {"entries"} \union Lists => pc[c] \in {"entries"} \union Lists,
           \A k \in on[c] : Pending(c, k)' \subseteq saw[c][k]
    PROVE  Told(c)'
<1>1. on[c] \subseteq Key /\ pc[c] \notin Outcomes
  BY DEF IInv, TypeOK, Reads, Outcomes
<1>2. ASSUME NEW k \in on[c] PROVE saw'[c][k] = saw[c][k] \union Possible(k)'
  BY <1>1, <1>2 DEF Watch, Watches
<1> QED BY <1>2 DEF Told

\* A lookup begins with what is visible then.
LEMMA StartSeen ==
    ASSUME IInv, NEW c \in Caller, Watch({}), UNCHANGED <<front, back, masked>>,
           NEW step \in {"check", "entries"}, NEW keys \in SUBSET Key, NEW hidden \in SUBSET Key,
           Begin(c, step, keys, Nothing, hidden),
           step = "check" => \E k \in Key : keys = {k},
           step = "entries" => keys = Key /\ hidden = masked
    PROVE  Told(c)'
<1>1. pc[c] \in Outcomes /\ pc'[c] = step /\ on'[c] = keys /\ hid'[c] = hidden
  BY OthersUntouched DEF IInv
<1>2. ASSUME NEW k \in keys PROVE saw'[c][k] = Possible(k)' /\ Pending(c, k)' \subseteq Possible(k)'
  <2>1. saw'[c][k] = Possible(k)'
    BY <1>1, <1>2 DEF Watch, Watches, Reads
  <2>2. Pending(c, k)' \subseteq {Visible(k)'}
    BY <1>1, <1>2 DEF Pending, Lists, Visible, Beneath
  <2> QED BY <2>1, <2>2 DEF Possible
<1> QED BY <1>1, <1>2 DEF Told, Gets, Lists

\* The steps of get.
LEMMA GetSeen ==
    ASSUME IInv, NEW c \in Caller, Told(c), Watch({}), NEW k \in on[c],
           Check(c, k) \/ Look(c, k) \/ Fetch(c, k) \/ Behind(c, k)
    PROVE  Told(c)'
<1>1. /\ pc[c] \in {"check", "look", "fetch", "lookback", "fetchback"}
      /\ pc[c] \in Gets /\ pc[c] \in Reads
  BY DEF Check, Look, Fetch, Behind, Gets, Reads
<1>2. on[c] = {k} /\ k \in Key
  BY <1>1 DEF Told, IInv, TypeOK
<1>3. /\ UNCHANGED <<front, back, masked>> /\ on'[c] = on[c]
      /\ pc'[c] \in {"look", "fetch", "getload", "lookback", "fetchback", "read"}
      /\ pc'[c] = "getload" => pc[c] = "fetch" /\ found'[c][k] = front[k]
  BY <1>2 DEF Check, Look, Fetch, Behind, Continue, ReturnEntry, Return, Goto, lazy, over, local,
              IInv, TypeOK
<1>4. pc'[c] = "read" =>
        \/ pc[c] = "check" /\ k \in masked /\ found'[c][k] = Absent
        \/ pc[c] = "fetch" /\ found'[c][k] = front[k]
        \/ pc[c] \in {"lookback", "fetchback"} /\ found'[c][k] = back[k]
  BY <1>2 DEF Check, Look, Fetch, Behind, Continue, ReturnEntry, Return, Goto, Nothing, IInv, TypeOK
<1>5. /\ pc'[c] = "look" => pc[c] = "check" /\ k \notin masked
      /\ pc'[c] = "fetch" => pc[c] = "look" /\ front[k] # Absent
      /\ pc'[c] = "lookback" => pc[c] = "look" /\ front[k] = Absent
      /\ pc'[c] = "fetchback" => pc[c] = "lookback"
  BY DEF Check, Look, Fetch, Behind, Continue, ReturnEntry, Return, Goto, IInv, TypeOK
<1>6. Visible(k) \in saw[c][k]
  BY <1>1 DEF Told, Possible
<1>7. Pending(c, k)' \subseteq saw[c][k]
  <2>1. CASE pc[c] = "check"
    BY <1>3, <1>4, <1>5, <1>6, <2>1 DEF Pending, Lists, Visible, Beneath
  <2>2. CASE pc[c] = "look"
    <3>1. Beneath(k) \in saw[c][k]
      BY <2>2 DEF Told, Pending, Lists
    <3> QED BY <1>3, <1>4, <1>5, <2>2, <3>1 DEF Pending, Lists, Beneath
  <2>3. CASE pc[c] = "fetch"
    <3>1. front[k] \in saw[c][k]
      BY <2>3 DEF Told, Pending, Lists
    <3> QED BY <1>3, <1>4, <1>5, <2>3, <3>1 DEF Pending, Lists
  <2>4. CASE pc[c] \in {"lookback", "fetchback"}
    <3>1. back[k] \in saw[c][k]
      BY <2>4 DEF Told, Pending, Lists
    <3> QED BY <1>3, <1>4, <1>5, <2>4, <3>1 DEF Pending, Lists
  <2> QED BY <1>1, <2>1, <2>2, <2>3, <2>4
<1>8. /\ pc'[c] \in Reads \union {"read"}
      /\ pc'[c] \notin {"entries"} \union Lists
  BY <1>3 DEF Reads, Lists
<1> QED BY <1>1, <1>2, <1>3, <1>7, <1>8, GoesOn

\* The steps of entries and clear.
LEMMA ListSeen ==
    ASSUME IInv, NEW c \in Caller, Told(c), Watch({}), ListFront(c) \/ ForceEntry(c) \/ ListBack(c)
    PROVE  Told(c)'
<1>1. CASE pc[c] \in {"clear", "clearback"} \/ pc'[c] = "failed"
  <2>1. pc'[c] \in {"clearback", "clearfront", "failed"}
    BY <1>1 DEF ListFront, ForceEntry, ListBack, Goto, IInv, TypeOK
  <2> QED BY <2>1, NothingToTell DEF Reads
<1>2. CASE pc[c] \notin {"clear", "clearback"} /\ pc'[c] # "failed"
  <2>1. /\ pc[c] \in {"entries", "force", "entriesback"}
        /\ pc[c] \in Reads /\ pc[c] \in {"entries"} \union Lists
    BY <1>2 DEF ListFront, ForceEntry, ListBack, Reads, Lists
  <2>2. on[c] = Key
    BY <2>1 DEF Told
  <2>3. UNCHANGED <<front, back, masked>> /\ on'[c] = on[c]
    BY <1>2 DEF ListFront, ForceEntry, ListBack, Continue, Fail, Return, Goto, lazy, over, local, IInv, TypeOK
  <2>4. \/ pc[c] = "entries" /\ pc'[c] = "force" /\ found'[c] = front /\ hid'[c] = hid[c]
        \/ /\ pc[c] = "force" /\ pc'[c] \in {"force", "entload", "entriesback"}
           /\ found'[c] = found[c] /\ hid'[c] = hid[c]
        \/ pc[c] = "entriesback" /\ pc'[c] = "read" /\ found'[c] = Overlaid(c)
    BY <1>2 DEF ListFront, ForceEntry, ListBack, Continue, Fail, Return, Goto, local, IInv, TypeOK
  <2>5. ASSUME NEW k \in on[c] PROVE Pending(c, k)' \subseteq saw[c][k]
    <3>1. k \in Key /\ Pending(c, k) \subseteq saw[c][k]
      BY <2>2, <2>5 DEF Told
    <3>2. Pending(c, k)' \subseteq Pending(c, k)
      <4>1. CASE pc[c] = "entries"
        BY <2>3, <2>4, <4>1 DEF Pending, Lists, Listed, Beneath
      <4>2. CASE pc[c] = "force"
        BY <2>3, <2>4, <4>2 DEF Pending, Lists, Listed
      <4>3. CASE pc[c] = "entriesback"
        BY <2>3, <2>4, <3>1, <4>3 DEF Pending, Lists, Listed, Overlaid, Hidden
      <4> QED BY <2>1, <4>1, <4>2, <4>3
    <3> QED BY <3>1, <3>2
  <2>6. pc'[c] \in Reads \union {"read"} /\ pc'[c] \notin Gets
    BY <2>4 DEF Reads, Gets
  <2> QED BY <2>1, <2>3, <2>5, <2>6, GoesOn
<1> QED BY <1>1, <1>2

\* A loader's answer.
LEMMA LoadSeen ==
    ASSUME IInv, NEW c \in Caller, Told(c), Watch({}), Load(c)
    PROVE  Told(c)'
<1>1. CASE pc'[c] \in {"failed", "giveup", "mask"}
  BY <1>1, NothingToTell DEF Reads
<1>2. CASE pc'[c] \notin {"failed", "giveup", "mask"}
  <2>1. /\ UNCHANGED <<front, back, masked>> /\ on'[c] = on[c] /\ found'[c] = found[c]
        /\ \/ pc[c] = "getload" /\ pc'[c] = "read"
           \/ pc[c] = "entload" /\ pc'[c] = "force" /\ hid'[c] = hid[c]
    BY <1>2 DEF Load, Answers, Continue, Fail, Return, Goto, over, local, IInv, TypeOK
  <2>2. ASSUME NEW k \in on[c] PROVE Pending(c, k)' \subseteq saw[c][k]
    BY <2>1, <2>2 DEF Told, Pending, Lists, Listed
  <2> QED BY <2>1, <2>2, GoesOn DEF Reads, Gets, Lists
<1> QED BY <1>1, <1>2

\* Any caller's step.
LEMMA CallSeen ==
    ASSUME IInv, Seen, NEW c \in Caller, CallStep(c), Watch({})
    PROVE  Seen'
<1>1. OthersSame(c)
  BY CallsApart DEF IInv
<1>2. Told(c)'
  <2>1. CASE StartEntries(c)
    <3>1. /\ Begin(c, "entries", Key, Nothing, masked) /\ masked \in SUBSET Key
          /\ UNCHANGED <<front, back, masked>>
      BY <2>1 DEF StartEntries, Begin, lazy, over, IInv, TypeOK
    <3> QED BY <3>1, StartSeen
  <2>6. ASSUME NEW k \in Key, StartGet(c, k) PROVE Told(c)'
    <3> DEFINE keys == {k}
    <3>1. /\ Begin(c, "check", keys, Nothing, {}) /\ keys \in SUBSET Key /\ {} \in SUBSET Key
          /\ UNCHANGED <<front, back, masked>> /\ \E l \in Key : keys = {l}
      BY <2>6 DEF StartGet, Begin, lazy, over
    <3> HIDE DEF keys
    <3> QED BY <3>1, StartSeen
  <2>2. CASE \E k \in on[c] : Check(c, k) \/ Look(c, k) \/ Fetch(c, k) \/ Behind(c, k)
    BY <2>2, GetSeen DEF Seen
  <2>3. CASE ListFront(c) \/ ForceEntry(c) \/ ListBack(c)
    BY <2>3, ListSeen DEF Seen
  <2>4. CASE Load(c)
    BY <2>4, LoadSeen DEF Seen
  <2>5. CASE \/ StartClear(c) \/ ClearFront(c) \/ ChangeMask(c) \/ GiveUp(c) \/ LoaderPanics(c) \/ FrontFails(c)
             \/ \E k \in Key : StartDel(c, k) \/ \E v \in Value : StartSet(c, k, v)
    <3>1. pc'[c] \in {"clear", "maskall", "written", "failed", "giveup", "mask", "delload", "unmask"}
      BY <2>5 DEF StartDel, StartSet, StartClear, ClearFront, ChangeMask, GiveUp, LoaderPanics,
                  FrontFails, Begin, Continue, Fail, Promise, Return, Goto, IInv, TypeOK
    <3> QED BY <3>1, NothingToTell DEF Reads
  <2> QED BY <2>1, <2>2, <2>3, <2>4, <2>5, <2>6 DEF CallStep
<1> QED BY <1>1, <1>2, OthersSeen DEF Seen

\* The owner of a layer writes: of its key anything may be answered.
LEMMA OwnerSeen ==
    ASSUME IInv, IInv', Seen, NEW key \in Key, OwnerStep(key), Watch({key})
    PROVE  Seen'
<1>1. /\ UNCHANGED <<masked, pc, on, hid, found>>
      /\ \A k \in Key \ {key} : front'[k] = front[k] /\ back'[k] = back[k]
  BY DEF OwnerStep, OwnerPutsLazy, PutLazy, OwnerWritesBack, over, local, lazy, IInv, TypeOK, LazyTypeOK
<1>2. ASSUME NEW c \in Caller, NEW k \in on[c]
      PROVE  Pending(c, k)' \subseteq saw'[c][k] /\ (pc[c] \in Reads => Possible(k)' \subseteq saw'[c][k])
  <2>0. /\ k \in Key /\ saw'[c][k] = Watches(c, k, {key}) /\ Told(c)
        /\ front'[k] \in Entry \union {Absent} /\ back'[k] \in Entry \union {Absent}
        /\ found'[c][k] \in Entry \union {Absent}
    BY <1>1, <1>2 DEF Watch, Seen, IInv, TypeOK, LazyTypeOK, Entry
  <2>1. CASE pc[c] \in Reads /\ k = key
    <3>1. saw'[c][k] = Entry \union {Absent}
      BY <1>1, <1>2, <2>0, <2>1 DEF Watches, Reads, Outcomes
    <3>2. Pending(c, k)' \subseteq Entry \union {Absent} /\ Possible(k)' \subseteq Entry \union {Absent}
      BY <2>0 DEF Pending, Possible, Visible, Beneath, Listed
    <3> QED BY <3>1, <3>2
  <2>2. CASE pc[c] \in Reads /\ k # key
    <3>1. saw'[c][k] = saw[c][k] \union Possible(k)'
      BY <1>1, <1>2, <2>0, <2>2 DEF Watches, Reads, Outcomes
    <3>2. Pending(c, k)' = Pending(c, k)
      BY <1>1, <2>0, <2>2 DEF Pending, Beneath, Listed
    <3> QED BY <1>2, <2>0, <3>1, <3>2 DEF Told
  <2>3. CASE pc[c] = "read"
    <3>1. saw'[c][k] = saw[c][k] /\ pc[c] \notin Reads
      BY <1>1, <1>2, <2>0, <2>3 DEF Watches, Outcomes, Reads
    <3>2. Pending(c, k)' = Pending(c, k)
      BY <1>1, <2>3 DEF Pending, Lists
    <3> QED BY <1>2, <2>0, <3>1, <3>2 DEF Told
  <2>4. CASE pc[c] \notin Reads \union {"read"}
    BY <1>1, <2>4, NothingToTell DEF Pending, Reads, Lists
  <2> QED BY <2>1, <2>2, <2>3, <2>4
<1> QED BY <1>1, <1>2 DEF Seen, Told

\* override_table.rs:161-236: get and entries, which read mask and layers one after the
\* other, find each key as it was at some moment of the call or as a writer was making it.
THEOREM ReadsAnswerTheCall == Spec => []ReadsAreOfTheCall
<1>1. Init => Seen
  BY DEF Init, Seen, Told, Gets, Lists
<1>2. IInv /\ IInv' /\ Seen /\ [Next]_vars => Seen'
  <2> SUFFICES ASSUME IInv, IInv', Seen, [Next]_vars PROVE Seen'
    OBVIOUS
  <2>1. ASSUME NEW c \in Caller, CallStep(c), Watch({}) PROVE Seen'
    BY <2>1, CallSeen
  <2>2. ASSUME NEW k \in Key, OwnerStep(k), Watch({k}) PROVE Seen'
    BY <2>2, OwnerSeen
  <2>3. CASE UNCHANGED vars
    BY <2>3 DEF vars, lazy, over, local, Seen, Told, Pending, Possible, Visible, Beneath, Listed
  <2> QED BY <2>1, <2>2, <2>3 DEF Next
<1>3. Seen => ReadsAreOfTheCall
  BY DEF Seen, Told, Pending, ReadsAreOfTheCall, Lists
<1> QED BY <1>1, <1>2, <1>3, Invariance, PTL DEF Spec
==============================================================================
