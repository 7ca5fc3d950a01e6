--------------------------- MODULE MCSqliteStore ---------------------------
(* Instances of SqliteStore for TLC. *)
EXTENDS SqliteStore, TLC

CONSTANTS k1, k2, k3, small, large, huge

\* Of two values that fit together at most one is large; huge never fits.
Sizes == [v \in Values |->
            CASE v = small -> 1 [] v = large -> 2 [] v = huge -> 4]

NewFile == {[k \in Keys |-> None]}

\* Files left by a process with higher limits: too many rows or bytes.
OldRow(v) == [entry |-> CacheEntry(v, None, 0), last_accessed |-> 0]
OldFiles == NewFile \cup {[k \in Keys |-> OldRow(v)] : v \in Values}

KeySymmetry == Permutations(Keys)
=============================================================================
