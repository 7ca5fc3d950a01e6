--------------------------- MODULE MCMemoryStore ---------------------------
(* Instances of MemoryStore for TLC. *)
EXTENDS MemoryStore

CONSTANTS k1, k2, k3, small, large, huge

\* Of two values that fit together at most one is large; huge never fits.
Sizes == [v \in Values |->
            CASE v = small -> 1 [] v = large -> 2 [] v = huge -> 4]

KeySymmetry == Permutations(Keys)
=============================================================================
