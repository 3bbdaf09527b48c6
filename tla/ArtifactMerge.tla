---------------------------- MODULE ArtifactMerge ----------------------------
(***************************************************************************)
(* The artifact facet and its three-way merge.  A host makes a facet,      *)
(* checks a base, an observed and an intended image for it, asks the law   *)
(* what to do, and goes on: it lands the postimage and asks again, or it   *)
(* asks with the observed and the intended image swapped.                  *)
(*                                                                         *)
(* A text is the sequence of its lines.  The lines of Open do not end in a *)
(* newline, so they can only be last; a text that is not UTF-8 is Binary.  *)
(* Ids stand for what they are made of.  Of a region only its lines are    *)
(* modelled, and of a facet what the law looks at.                         *)
(***************************************************************************)
EXTENDS Integers, Sequences, SequencesExt, FiniteSetsExt

CONSTANTS Line,      \* lines that end in a newline
          Open,      \* lines that do not
          Binary,    \* bytes that are no text
          None,      \* nothing
          Odd,       \* permission bits that are not portable
          Whole,     \* the region of a whole path
          Exact,     \* the policy that merges nothing
          Facets,    \* what hosts make facets of
          Images     \* what hosts have checked

VARIABLES
    facet,      \* the facet, or None
    base, observed, intended,   \* checked images, or None
    outcome,    \* what the law answered, or None
    former      \* history: observed, intended and outcome before the last Swap or Land

\* An image is checked for one role and is in no other.
images == <<base, observed, intended>>
vars == <<facet, images, outcome, former>>

-------------------------------------------------------------------------------
\* Facets and images

\* ArtifactFacet::new
Admitted(f) ==
    /\ f.generator \in {None, f.owner}
    /\ f.region # Whole => f.region.start < f.region.end
    /\ f.policy # Exact => f.policy.lines > 0 /\ f.policy.cells > 0

\* PortableImage::validate
Valid(image) ==
    /\ (image.text = None) <=> (image.mode = None)
    /\ image.mode # Odd

IsText(image) == image.text \notin {None, Binary}

-------------------------------------------------------------------------------
\* The changes of a side

\* The longest common subsequence of what follows a row and a column.
Lengths(b, s) ==
    LET length[r \in 0..Len(b), c \in 0..Len(s)] ==
            IF r = Len(b) \/ c = Len(s) THEN 0
            ELSE IF b[r + 1] = s[c + 1] THEN length[r + 1, c + 1] + 1
            ELSE Max({length[r + 1, c], length[r, c + 1]})
    IN length

Skips(length, r, c) == length[r + 1, c] >= length[r, c + 1]

Matches(b, s) ==
    LET length == Lengths(b, s)
        from[r \in 0..Len(b), c \in 0..Len(s)] ==
            IF r = Len(b) \/ c = Len(s) THEN << <<Len(b), Len(s)>> >>
            ELSE IF b[r + 1] = s[c + 1] THEN << <<r, c>> >> \o from[r + 1, c + 1]
            ELSE IF Skips(length, r, c) THEN from[r + 1, c]
            ELSE from[r, c + 1]
    IN from[0, 0]

Changes(b, s) ==
    LET match == Matches(b, s)
        after(k) == IF k = 1 THEN <<0, 0>> ELSE <<match[k - 1][1] + 1, match[k - 1][2] + 1>>
    IN {[start |-> after(k)[1], end |-> match[k][1],
         lines |-> SubSeq(s, after(k)[2] + 1, match[k][2])] :
           k \in {j \in DOMAIN match : after(j) # match[j]}}

TouchesInside(insert, change) == insert.start \in change.start..(change.end - 1)

Touches(insert, change) == insert.start \in change.start..change.end

Overlaps(x, y) ==
    CASE x.start = x.end /\ y.start = y.end -> x.start = y.start
      [] x.start = x.end /\ y.start # y.end -> Touches(x, y)
      [] x.start # x.end /\ y.start = y.end -> Touches(y, x)
      [] OTHER -> x.start < y.end /\ y.start < x.end

\* Changes of one side are apart: there is a match between them.
Collide(theirs, ours) == \E x \in theirs, y \in ours \ theirs : Overlaps(x, y)

KeepsReplaced(change) == change.start

After(change) == change.end

Applied(b, changes) ==
    LET Before(x, y) == x.start < y.start \/ (x.start = y.start /\ x.end < y.end)
        Add(acc, x) == [text |-> acc.text \o SubSeq(b, acc.cursor + 1, x.start) \o x.lines,
                        cursor |-> After(x)]
        all == FoldLeft(Add, [text |-> <<>>, cursor |-> 0], SetToSortSeq(changes, Before))
    IN all.text \o SubSeq(b, all.cursor + 1, Len(b))

-------------------------------------------------------------------------------
\* The law

ModesOfObserved(b, o, i) == IF o = b THEN {i} ELSE {o}

Modes(b, o, i) ==
    IF o = i THEN {o}
    ELSE IF o = b THEN {i}
    ELSE IF i = b THEN {o}
    ELSE {}

OutOfRegion(region, b, i) ==
    /\ region # Whole
    /\ \/ ~IsText(b) \/ ~IsText(i) \/ b.mode # i.mode
       \/ region.end > Len(b.text)
       \/ LET suffix == Len(b.text) - region.end
              size == Len(i.text)
          IN \/ size < region.start + suffix
             \/ SubSeq(i.text, 1, region.start) # SubSeq(b.text, 1, region.start)
             \/ SubSeq(i.text, size - suffix + 1, size) # SubSeq(b.text, region.end + 1, Len(b.text))

Excess(policy, b, s) == (Len(b) + 1) * (Len(s) + 1) > policy.cells

Postimage(text, mode) == [text |-> text, mode |-> mode]

Answer(kind, image) == [kind |-> kind, image |-> image]
Conflict(reason) == [kind |-> "conflict", reason |-> reason]
Refusal(error) == [kind |-> error]

Linewise(policy, b, o, i) ==
    LET texts == {b.text, o.text, i.text}
        theirs == Changes(b.text, o.text)
        ours == Changes(b.text, i.text)
        mode == Modes(b.mode, o.mode, i.mode)
    IN IF None \in texts THEN Conflict("presence")
       ELSE IF mode = {} THEN Conflict("mode")
       ELSE IF Binary \in texts THEN Conflict("nontext")
       ELSE IF \E t \in texts : Len(t) > policy.lines THEN Conflict("workbound")
       ELSE IF Excess(policy, b.text, o.text) \/ Excess(policy, b.text, i.text)
            THEN Conflict("workbound")
       ELSE IF Collide(theirs, ours) THEN Conflict("overlap")
       ELSE Answer("merged", Postimage(Applied(b.text, theirs \union ours),
                                       CHOOSE m \in mode : TRUE))

TransitionUnlessLanded(b, i, o) ==
    IF b = i THEN "unchanged" ELSE IF o = b THEN "base" ELSE "foreign"

\* classify_transition
Transition(b, i, o) ==
    IF b = i THEN "unchanged"
    ELSE IF o = i THEN "intended"
    ELSE IF o = b THEN "base"
    ELSE "foreign"

MergeFacet(spec, b, o, i) ==
    LET state == Transition(b, i, o)
    IN CASE spec # facet -> Refusal("wrongfacet")
         [] spec = facet /\ OutOfRegion(spec.region, b, i) -> Refusal("outofregion")
         [] OTHER ->
            CASE state = "unchanged" -> Answer("unchanged", o)
              [] state = "intended" -> Answer("alreadytrue", o)
              [] state = "base" -> Answer("apply", i)
              [] state = "foreign" -> IF spec.policy = Exact THEN Conflict("bothchanged")
                                      ELSE Linewise(spec.policy, b, o, i)

-------------------------------------------------------------------------------
Init ==
    /\ facet = None /\ outcome = None /\ former = None
    /\ base = None /\ observed = None /\ intended = None

New(f) ==
    /\ facet = None /\ Admitted(f)
    /\ facet' = f
    /\ UNCHANGED <<images, outcome, former>>

CheckBase(image) ==
    /\ facet # None /\ base = None /\ Valid(image)
    /\ base' = image
    /\ UNCHANGED <<facet, observed, intended, outcome, former>>

CheckObserved(image) ==
    /\ base # None /\ observed = None /\ Valid(image)
    /\ observed' = image
    /\ UNCHANGED <<facet, base, intended, outcome, former>>

CheckIntended(image) ==
    /\ observed # None /\ intended = None /\ Valid(image)
    /\ intended' = image
    /\ UNCHANGED <<facet, base, observed, outcome, former>>

Merge(spec) ==
    /\ intended # None /\ outcome = None
    /\ outcome' = MergeFacet(spec, base, observed, intended)
    /\ UNCHANGED <<facet, images, former>>

\* The host asks for the other side.
Swap ==
    /\ outcome # None /\ former = None
    /\ observed' = intended /\ intended' = observed
    /\ outcome' = None
    /\ former' = [observed |-> observed, intended |-> intended, outcome |-> outcome]
    /\ UNCHANGED <<facet, base>>

\* The host writes the postimage, does not learn that it did, and asks again.
Land ==
    /\ outcome # None /\ former = None
    /\ outcome.kind \in {"apply", "merged"}
    /\ observed' = outcome.image
    /\ outcome' = None
    /\ former' = [observed |-> observed, intended |-> intended, outcome |-> outcome]
    /\ UNCHANGED <<facet, base, intended>>

Next ==
    \/ \E f \in Facets : New(f) \/ (Admitted(f) /\ Merge(f))
    \/ \E image \in Images : CheckBase(image) \/ CheckObserved(image) \/ CheckIntended(image)
    \/ Swap
    \/ Land

Spec == Init /\ [][Next]_vars

-------------------------------------------------------------------------------
\* A reference for merges that does not know how the code aligns texts

\* The longest ways to find a text in another, as pairs of positions.
Alignments(b, s) ==
    LET same == {p \in (DOMAIN b) \X (DOMAIN s) : b[p[1]] = s[p[2]]}
        rising == {A \in SUBSET same : \A p, q \in A : p # q => (p[1] < q[1] <=> p[2] < q[2])
                                                                /\ p[1] # q[1]}
        longest == Max({Cardinality(A) : A \in rising})
    IN {A \in rising : Cardinality(A) = longest}

Kept(A) == {p[1] : p \in A}

Taken(s, positions) ==
    LET order == SetToSortSeq(positions, <)
    IN [k \in DOMAIN order |-> s[order[k]]]

\* A side without the lines of the base that the other side dropped.
Rest(s, A, kept) == Taken(s, {c \in DOMAIN s : \A p \in A : p[2] = c => p[1] \in kept})

\* m is woven from what is left of both sides, and the lines of the base that
\* both sides kept are in it once.
Woven(m, left, right, kept) ==
    \E L \in kSubset(Len(left), DOMAIN m) :
        /\ Taken(m, L) = left
        /\ \E both \in SUBSET L :
               /\ Cardinality(both) >= Cardinality(kept)
               /\ Taken(m, (DOMAIN m \ L) \union both) = right

HasBothEdits(b, o, i, m) ==
    \E A \in Alignments(b, o), B \in Alignments(b, i) :
        LET kept == Kept(A) \intersect Kept(B)
        IN Woven(m, Rest(o, A, kept), Rest(i, B, kept), kept)

-------------------------------------------------------------------------------
\* Properties

Answered == outcome # None /\ "image" \in DOMAIN outcome
HasMerged == outcome # None /\ outcome.kind = "merged"

\* A merged postimage is a checked image that makes both edits of some shortest
\* comparison: what a side wrote is in it, in its order, and what a side removed
\* is not (merge_linewise, changes and combine_changes).
EditsOfBothAreMade ==
    HasMerged => /\ Valid(outcome.image)
              /\ HasBothEdits(base.text, observed.text, intended.text, outcome.image.text)

\* The lines of a merged text are the lines it was put together from: a line
\* that does not end in a newline is never followed by another, which it would
\* run into (merged.concat() against split_inclusive).
LinesStayWhole ==
    HasMerged => \A k \in DOMAIN outcome.image.text :
                  outcome.image.text[k] \in Open => k = Len(outcome.image.text)

Unrepeated(image) == IsText(image) => IsInjective(image.text)

Swapped == former # None /\ former.observed = intended /\ former.intended = observed

\* Which side is the observation and which the proposal makes no difference to
\* what the artifact then holds, nor to the reason of a refusal, whatever the
\* order in which changes are combined (combine_changes, overlaps, merge_mode).
SidesAreAlike ==
    Swapped /\ outcome # None /\ {outcome.kind, former.outcome.kind} \subseteq
            {"unchanged", "alreadytrue", "apply", "merged", "conflict"}
        => IF outcome.kind = "conflict" THEN outcome = former.outcome
           ELSE /\ former.outcome.kind # "conflict"
                /\ outcome.image = former.outcome.image

LandedBefore ==
    /\ former # None /\ ~Swapped
    /\ \A image \in {base, former.observed, intended} : Unrepeated(image)

\* A host that lands a postimage and asks again gets no other: one that was
\* applied is there already, and nothing is merged into the artifact twice.
\* Only where no text repeats a line: with base a,a, an observation b,a and a
\* proposal a,a,a the law merges b,a,a and, asked again, b,a,a,a.
RetryAddsNothing ==
    LandedBefore /\ outcome # None /\ outcome.kind # "wrongfacet" =>
        /\ former.outcome.kind = "apply" => outcome.kind = "alreadytrue"
        /\ Answered => outcome.image = observed
=============================================================================
