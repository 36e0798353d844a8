---------------------------- MODULE RecordSlots ----------------------------
(***************************************************************************)
(* What a slotted page promises: numbered slots with records.  A slot      *)
(* keeps its record until it is removed or the page is compacted; a record *)
(* takes the first free slot, or a new one; compacting closes the gaps.    *)
(***************************************************************************)
EXTENDS Integers, Sequences

CONSTANTS Records,
          Deleted     \* a slot whose record was removed

VARIABLE slots

Free == {i \in DOMAIN slots : slots[i] = Deleted}

Init == slots = <<>>

InsertNew(record) == Free = {} /\ slots' = Append(slots, record)

InsertInFree(record) ==
    \E i \in Free :
        /\ \A j \in Free : i <= j
        /\ slots' = [slots EXCEPT ![i] = record]

Remove(i) == i \notin Free /\ slots' = [slots EXCEPT ![i] = Deleted]

Compact == slots' = SelectSeq(slots, LAMBDA record : record # Deleted)

Next ==
    \/ \E record \in Records : InsertNew(record) \/ InsertInFree(record)
    \/ \E i \in DOMAIN slots : Remove(i)
    \/ Compact

Spec == Init /\ [][Next]_slots

=============================================================================
