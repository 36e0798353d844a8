------------------------- MODULE MCPersistentTable -------------------------
(* Tables for TLC: two rows fit on a page, and the largest record on none. *)
EXTENDS PersistentTable

CONSTANTS a, b  \* what the two records contain that fit

SmallRecords ==
    {[content |-> a, length |-> 3], [content |-> b, length |-> 3],
     [content |-> "too large", length |-> 17]}

Symmetry == Permutations({a, b})

=============================================================================
