------------------------------ MODULE MCLazyLists ------------------------------
(* Small instance: two threads, two cells, two views that are given out.        *)
EXTENDS LazyLists, TLC

Symmetry == Permutations(Caller)
================================================================================
