---------------------------- MODULE SlottedPage ----------------------------
(***************************************************************************)
(* The slotted page as a value (src/storage/page.cpp): records grow from   *)
(* the header, the slot directory grows from the end of the page towards   *)
(* them.                                                                   *)
(*                                                                         *)
(* The directory is a sequence; the entry of slot id s is dir[s + 1] (the  *)
(* code keeps it s + 1 entries before the end of the page).  data says,    *)
(* byte by byte, which record was copied there last.                       *)
(***************************************************************************)
EXTENDS Integers, Sequences, SequencesExt, FiniteSetsExt

CONSTANTS PAGE_SIZE,   \* 4096 in types.hpp
          HEADER_SIZE, \* sizeof(PageHeader), 16
          SLOT_SIZE,   \* sizeof(SlotEntry), 4
          Records      \* what is stored: [content, length]

ASSUME PageSizesAssumption ==
    /\ PAGE_SIZE \in Nat /\ HEADER_SIZE \in Nat \ {0} /\ SLOT_SIZE \in Nat \ {0}
    /\ HEADER_SIZE <= PAGE_SIZE
ASSUME RecordsAssumption == \A record \in Records : record.length \in Nat

Offsets == 0 .. PAGE_SIZE - 1

Zero == [content |-> "zero", length |-> 0]

FormattedPage ==
    [free_space_end |-> HEADER_SIZE, free_slot_count |-> 0, dir |-> <<>>,
     data |-> [offset \in Offsets |-> Zero]]

slot_dir_start(page) == PAGE_SIZE - Len(page.dir) * SLOT_SIZE

free_space(page) == slot_dir_start(page) - page.free_space_end

\* Mutant: the entry a new slot needs is forgotten.
FitsWithoutSlot(page, length) == free_space(page) >= length

can_fit(page, length) ==
    free_space(page) >= length + (IF page.free_slot_count > 0 THEN 0 ELSE SLOT_SIZE)

\* A slot whose offset is 0.
Tombstones(page) == {i \in DOMAIN page.dir : page.dir[i].offset = 0}

Reuses(page) == page.free_slot_count > 0 /\ Tombstones(page) # {}

CountAfterInsert(page) ==
    IF Reuses(page) THEN page.free_slot_count - 1 ELSE page.free_slot_count

\* The first tombstone is reused; else the directory grows by one entry.
insert(page, record) ==
    LET entry == [offset |-> page.free_space_end, length |-> record.length]
    IN  [free_space_end  |-> page.free_space_end + record.length,
         free_slot_count |-> CountAfterInsert(page),
         dir  |-> IF Reuses(page)
                  THEN [page.dir EXCEPT ![Min(Tombstones(page))] = entry]
                  ELSE Append(page.dir, entry),
         data |-> [offset \in Offsets |->
                      IF offset - entry.offset \in 0 .. record.length - 1
                      THEN record ELSE page.data[offset]]]

\* The records whose bytes the entry of a slot delimits.
Stored(page, i) ==
    {record \in Records :
        /\ record.length = page.dir[i].length
        /\ \A offset \in Offsets :
              offset - page.dir[i].offset \in 0 .. record.length - 1
                  => page.data[offset] = record}

\* The space of the record is not given back.
remove(page, i) ==
    [page EXCEPT !.dir[i] = [offset |-> 0, length |-> 0], !.free_slot_count = @ + 1]

\* One turn of the loop of compact: the next entry and its bytes.
Moved(old, new, entry) ==
    [new EXCEPT
        !.free_space_end = @ + entry.length,
        !.dir = Append(@, [offset |-> new.free_space_end, length |-> entry.length]),
        !.data = [offset \in Offsets |->
                     IF offset - new.free_space_end \in 0 .. entry.length - 1
                     THEN old.data[entry.offset + (offset - new.free_space_end)]
                     ELSE @[offset]]]

\* Mutant: tombstones are compacted too.
CompactAll(page) ==
    FoldLeft(LAMBDA new, entry : Moved(page, new, entry), FormattedPage, page.dir)

\* Tombstones are left out, so the slots after them get other ids.
compact(page) ==
    FoldLeft(LAMBDA new, entry : Moved(page, new, entry), FormattedPage,
             SelectSeq(page.dir, LAMBDA entry : entry.offset # 0))

=============================================================================
