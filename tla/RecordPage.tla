---------------------------- MODULE RecordPage ----------------------------
(***************************************************************************)
(* One page under any sequence of insert, remove and compact               *)
(* (src/storage/page.cpp).  A call that throws, because the record does    *)
(* not fit or the slot is empty, changes nothing.                          *)
(***************************************************************************)
EXTENDS SlottedPage

VARIABLE page

Init == page = FormattedPage

Insert(record) ==
    /\ can_fit(page, record.length)
    /\ page' = insert(page, record)

RemoveSlot(i) ==
    /\ i \notin Tombstones(page)
    /\ page' = remove(page, i)

Compact == page' = compact(page)

Next ==
    \/ \E record \in Records : Insert(record)
    \/ \E i \in DOMAIN page.dir : RemoveSlot(i)
    \/ Compact

Spec == Init /\ [][Next]_page

-----------------------------------------------------------------------------
(* compact gives back every byte that no record uses: afterwards only the
   records left and their entries take space, so an insertion refused by a
   compacted page would not fit at all. *)
CompactReclaims ==
    [][Compact =>
          LET live == DOMAIN page.dir \ Tombstones(page)
          IN  free_space(page') =
                  PAGE_SIZE - HEADER_SIZE
                  - MapThenSumSet(LAMBDA i : page.dir[i].length + SLOT_SIZE, live)]_page

Deleted == [content |-> "deleted", length |-> 0]

Garbage == [content |-> "garbage", length |-> 0]

\* The entry of slot i is under the bytes of the records.
Overlaid(i) == PAGE_SIZE - i * SLOT_SIZE < page.free_space_end

\* The page as read sees it.
Slots ==
    [i \in DOMAIN page.dir |->
        IF i \in Tombstones(page) THEN Deleted
        ELSE IF Overlaid(i) \/ Stored(page, i) = {} THEN Garbage
        ELSE CHOOSE record \in Stored(page, i) : TRUE]

Abstract == INSTANCE RecordSlots WITH slots <- Slots

(* The page implements numbered slots: no insertion, removal or compaction
   overwrites, moves or resizes the record of another slot, or lets records and
   directory meet; an insertion that counts on a free slot finds the first one
   (can_fit, insert, compact). *)
ImplementsRecordSlots == Abstract!Spec

=============================================================================
