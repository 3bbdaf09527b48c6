----------------------------- MODULE MCMountedDir -----------------------------
(***************************************************************************)
(* MountedDir for TLC: paths of at most two names, of one local part.      *)
(***************************************************************************)
EXTENDS MountedDir, TLC

CONSTANTS plain, outer, inner

\* Every name is plain, or a symbol with a namespace and the same local part.
Locals == [n \in Name |-> plain]

\* A symbol that has a namespace is in the top directory.
Paths == {p \in UNION {[1..n -> Name] : n \in 0..2} :
            \A i \in 1..Len(p) : p[i] = plain \/ Len(p) = 1}

\* One target may be mounted below the other.
Homes == [t \in Target |-> IF t = outer THEN <<plain>> ELSE <<plain, plain>>]

\* A path that can be in the root or in the outer target, and one with a namespace.
WatchedPaths == {p \in Path : p # <<>> /\ p # <<plain>>}

Symmetry == Permutations(Caller) \union Permutations(Value)
==============================================================================
