---------------------------- MODULE MCRecordPage ----------------------------
(* A page for TLC: an empty record, two of the same length and a longer one. *)
EXTENDS RecordPage

SmallRecords ==
    {[content |-> "none", length |-> 0], [content |-> "a", length |-> 3],
     [content |-> "b", length |-> 3], [content |-> "c", length |-> 5]}

=============================================================================
