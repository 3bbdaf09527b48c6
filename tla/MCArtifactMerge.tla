--------------------------- MODULE MCArtifactMerge ---------------------------
\* ArtifactMerge for TLC: texts of up to three lines.
EXTENDS ArtifactMerge, TLC

CONSTANTS rw, rx, ro,   \* portable modes
          me, other     \* owners

Text(n) == LET closed(k) == [1..k -> Line]
           IN UNION {closed(k) : k \in 0..n}
              \union {Append(t, z) : t \in UNION {closed(k) : k \in 0..(n - 1)}, z \in Open}

Image(text, mode) == [text |-> text, mode |-> mode]

MCImages ==
    {Image(t, rw) : t \in Text(3) \union {Binary}}
    \union {Image(t, m) : t \in Text(1), m \in {rx, ro}}
    \union {Image(None, None), Image(None, rw), Image(<<>>, None), Image(<<>>, Odd)}

Facet(region, policy, generator) ==
    [region |-> region, policy |-> policy, owner |-> me, generator |-> generator]
Within(lines, cells) == [lines |-> lines, cells |-> cells]
Lines(start, end) == [start |-> start, end |-> end]

\* The last three are refused.
MCFacets ==
    {Facet(Whole, Within(3, 16), None), Facet(Whole, Exact, me),
     Facet(Whole, Within(2, 8), None), Facet(Lines(0, 1), Within(3, 16), None),
     Facet(Lines(1, 2), Within(3, 16), None),
     Facet(Lines(1, 1), Exact, None), Facet(Whole, Within(0, 16), None),
     Facet(Whole, Exact, other)}

Symmetric == Permutations(Line)
=============================================================================
