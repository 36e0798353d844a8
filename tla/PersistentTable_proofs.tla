------------------------ MODULE PersistentTable_proofs ------------------------
(***************************************************************************)
(* Rows stay readable and scans are complete, for every page size, every   *)
(* set of records and any number of pages, kills, power losses and torn    *)
(* pages.                                                                  *)
(*                                                                         *)
(* A page only ever grows: what insert adds is beyond the entries and the  *)
(* bytes that are there.  So the device, which holds an earlier state of   *)
(* each page, has what was flushed, and so has any mixture of the two.     *)
(***************************************************************************)
EXTENDS PersistentTable, FiniteSetTheorems, SequenceTheorems, TLAPS

Slot == [offset : Int, length : Int]

Page ==
    [free_space_end : Int, free_slot_count : Int, dir : Seq(Slot),
     data : [Offsets -> Records \cup {Zero}]]

RowType == [page_id : Nat, slot_id : Nat, record : Records]

TypeOK ==
    /\ disk \in [pages : [File!Pages -> Page], page_count : 0 .. MaxPages,
                 synced : [File!Pages -> Page], synced_count : 0 .. MaxPages]
    /\ inserting \in Records \cup {NoRecord}
    /\ cursor \in [page_id : Nat, slot_id : Nat]
    /\ seen \in Seq(RowType) /\ due \subseteq RowType
    /\ rows \in Seq(RowType) /\ durable \in 0 .. Len(rows)
    /\ torn \in Nat

\* The entry is a tombstone, or its bytes are below the end of the records.
EntryOK(page, i) ==
    \/ page.dir[i].offset = 0
    \/ /\ HEADER_SIZE <= page.dir[i].offset /\ 0 <= page.dir[i].length
       /\ page.dir[i].offset + page.dir[i].length <= page.free_space_end

\* Records and directory do not meet.
WellFormed(page) ==
    /\ page \in Page /\ page.free_slot_count = 0
    /\ \/ page.free_space_end \in {0, -1} /\ page.dir = <<>>
       \/ /\ Written(page)
          /\ page.free_space_end + Len(page.dir) * SLOT_SIZE <= PAGE_SIZE
          /\ \A i \in DOMAIN page.dir : EntryOK(page, i)

\* What the old page has is in the new one.
Grown(old, new) ==
    /\ Mangled(old) => Mangled(new)
    /\ Written(old) =>
          /\ Written(new) /\ old.free_space_end <= new.free_space_end
          /\ DOMAIN old.dir \subseteq DOMAIN new.dir
          /\ \A i \in DOMAIN old.dir : new.dir[i] = old.dir[i]
          /\ \A offset \in Offsets :
                offset < old.free_space_end => new.data[offset] = old.data[offset]

\* The device has an earlier state of each page, and nothing is beyond the ends.
DiskOK ==
    /\ disk.synced_count <= disk.page_count
    /\ \A p \in File!Pages :
          /\ WellFormed(disk.pages[p]) /\ WellFormed(disk.synced[p])
          /\ Grown(disk.synced[p], disk.pages[p])
          /\ p >= disk.page_count => disk.pages[p].free_space_end = 0
          /\ p >= disk.synced_count => disk.synced[p].free_space_end = 0

\* The page just allocated is empty.
InsertingOK ==
    inserting # NoRecord =>
        disk.page_count > 0 /\ disk.pages[LastPage] = FormattedPage

RowsOK ==
    /\ \A i \in DOMAIN rows : rows[i].page_id < disk.page_count /\ Readable(disk.pages, rows[i])
    /\ \A i \in 1 .. durable :
          rows[i].page_id < disk.synced_count /\ Readable(disk.synced, rows[i])

\* Every slot that can be read leads to a row.
SlotsKnown ==
    \A p \in File!Pages, s \in Nat :
        \A record \in Read(disk.pages, p, s) : Row(p, s, record) \in ToSet(rows)

\* The cursor is past the rows seen, and has passed no other that was due.
ScanOK ==
    /\ InOrder(seen) /\ \A i \in DOMAIN seen : Before(seen[i], cursor)
    /\ \A i \in DOMAIN seen :
          /\ seen[i].page_id < disk.page_count
          /\ seen[i] \in ToSet(rows) \/ Mangled(disk.pages[seen[i].page_id])
    /\ due \subseteq ToSet(rows)
    /\ \A row \in due : Before(row, cursor) => row \in ToSet(seen)

TableInv ==
    /\ TypeOK /\ DiskOK /\ InsertingOK
    /\ RowsOK /\ SlotsKnown /\ ScanOK

-----------------------------------------------------------------------------
(* Pages *)

LEMMA EntriesSize ==
    ASSUME NEW n \in Nat
    PROVE  n * SLOT_SIZE \in Nat /\ (n + 1) * SLOT_SIZE = n * SLOT_SIZE + SLOT_SIZE
  BY PageSizesAssumption

LEMMA FormattedWellFormed ==
    /\ WellFormed(FormattedPage) /\ Written(FormattedPage)
    /\ WellFormed(ZeroPage) /\ ZeroPage.free_space_end = 0
    /\ WellFormed(MangledPage) /\ MangledPage.free_space_end = -1
    /\ FormattedPage.dir = <<>> /\ ZeroPage.dir = <<>> /\ MangledPage.dir = <<>>
<1>1. <<>> \in Seq(Slot) /\ Len(<<>>) = 0 /\ DOMAIN <<>> = {}
  <2>1. <<>> \in Seq(Slot) /\ Len(<<>>) = 0 /\ DOMAIN <<>> = 1 .. 0
    BY EmptySeq, LenProperties
  <2> QED
    BY <2>1
<1>2. [offset \in Offsets |-> Zero] \in [Offsets -> Records \cup {Zero}]
  OBVIOUS
<1>3. FormattedPage \in Page
  BY <1>1, <1>2, PageSizesAssumption DEF FormattedPage, Page
<1>4. ZeroPage \in Page /\ MangledPage \in Page
  BY <1>3 DEF ZeroPage, MangledPage, Page
<1>5. /\ FormattedPage.free_space_end = HEADER_SIZE /\ FormattedPage.free_slot_count = 0
      /\ FormattedPage.dir = <<>>
      /\ ZeroPage.free_space_end = 0 /\ ZeroPage.free_slot_count = 0 /\ ZeroPage.dir = <<>>
      /\ MangledPage.free_space_end = -1 /\ MangledPage.free_slot_count = 0
      /\ MangledPage.dir = <<>>
  BY DEF FormattedPage, ZeroPage, MangledPage
<1>6. 0 * SLOT_SIZE = 0
  BY PageSizesAssumption
<1> QED
  BY <1>1, <1>3, <1>4, <1>5, <1>6, PageSizesAssumption DEF WellFormed, Written

LEMMA WrittenFields ==
    ASSUME NEW page, WellFormed(page)
    PROVE  /\ page.free_space_end \in Int /\ page.dir \in Seq(Slot)
           /\ Len(page.dir) \in Nat /\ DOMAIN page.dir = 1 .. Len(page.dir)
           /\ \A i \in DOMAIN page.dir :
                 page.dir[i].offset \in Int /\ page.dir[i].length \in Int
           /\ Len(page.dir) * SLOT_SIZE \in Nat
           /\ page.free_space_end <= PAGE_SIZE
           /\ ~Written(page) => page.free_space_end \in {0, -1} /\ page.dir = <<>>
           /\ page.dir # <<>> => Written(page)
           /\ Mangled(page) <=> page.free_space_end = -1
           /\ Written(page) => ~Mangled(page) /\ page.free_space_end # 0
<1>1. page.free_space_end \in Int /\ page.dir \in Seq(Slot)
  BY DEF WellFormed, Page
<1>2. Len(page.dir) \in Nat /\ DOMAIN page.dir = 1 .. Len(page.dir)
  BY <1>1, LenProperties
<1>3. \A i \in DOMAIN page.dir : page.dir[i] \in Slot
  BY <1>1, <1>2, ElementOfSeq
<1>4. \A i \in DOMAIN page.dir : page.dir[i].offset \in Int /\ page.dir[i].length \in Int
  BY <1>3 DEF Slot
<1>5. Len(page.dir) * SLOT_SIZE \in Nat
  BY <1>2, EntriesSize
<1>6. MangledPage.free_space_end = -1
  BY FormattedWellFormed
<1>7. page.free_space_end <= PAGE_SIZE
  BY <1>1, <1>5, PageSizesAssumption DEF WellFormed
<1> QED
  BY <1>1, <1>2, <1>4, <1>5, <1>6, <1>7, PageSizesAssumption DEF WellFormed, Written, Mangled

(* Page::insert on a page without tombstones: one entry more, whose bytes are
   beyond those that were there. *)
LEMMA InsertGrows ==
    ASSUME NEW page, WellFormed(page), Written(page), NEW record \in Records,
           can_fit(page, record.length)
    PROVE  LET new == insert(page, record)
           IN  /\ WellFormed(new) /\ Written(new) /\ Grown(page, new)
               /\ SlotFor(page) = Len(page.dir)
               /\ DOMAIN new.dir = 1 .. Len(page.dir) + 1
               /\ new.dir[Len(page.dir) + 1] =
                     [offset |-> page.free_space_end, length |-> record.length]
               /\ \A offset \in Offsets :
                     offset - page.free_space_end \in 0 .. record.length - 1
                         => new.data[offset] = record
<1> DEFINE entry == [offset |-> page.free_space_end, length |-> record.length]
           new == insert(page, record)
<1>1. /\ page \in Page /\ page.free_slot_count = 0 /\ ~Reuses(page)
      /\ page.free_space_end \in Int /\ page.dir \in Seq(Slot)
      /\ Len(page.dir) \in Nat /\ DOMAIN page.dir = 1 .. Len(page.dir)
      /\ Len(page.dir) * SLOT_SIZE \in Nat
  BY WrittenFields DEF WellFormed, Reuses
<1>2. record.length \in Nat /\ record.length > 0
  BY RecordsAssumption, TuplesAssumption
<1>3. entry \in Slot
  BY <1>1, <1>2 DEF Slot
<1>4. /\ new.free_space_end = page.free_space_end + record.length
      /\ new.free_slot_count = 0
      /\ new.dir = Append(page.dir, entry)
      /\ new.data = [offset \in Offsets |->
                        IF offset - page.free_space_end \in 0 .. record.length - 1
                        THEN record ELSE page.data[offset]]
  BY <1>1 DEF insert, CountAfterInsert
<1>5. page.data \in [Offsets -> Records \cup {Zero}]
  BY <1>1 DEF Page
<1>6. /\ new.dir \in Seq(Slot) /\ Len(new.dir) = Len(page.dir) + 1
      /\ \A i \in 1 .. Len(page.dir) : new.dir[i] = page.dir[i]
      /\ new.dir[Len(page.dir) + 1] = entry
  <2> HIDE DEF entry, new
  <2> QED
    BY <1>1, <1>3, <1>4, AppendProperties
<1>7. DOMAIN new.dir = 1 .. Len(page.dir) + 1
  BY <1>6, LenProperties
<1>8. new \in Page
  <2>1. new.data \in [Offsets -> Records \cup {Zero}]
    BY <1>4, <1>5
  <2>2. new.free_space_end \in Int /\ new.free_slot_count \in Nat
    BY <1>1, <1>2, <1>4
  <2>3. new = [free_space_end |-> new.free_space_end, free_slot_count |-> new.free_slot_count,
               dir |-> new.dir, data |-> new.data]
    BY DEF insert
  <2> HIDE DEF new
  <2> QED
    BY <1>6, <2>1, <2>2, <2>3 DEF Page
<1> HIDE DEF new
<1>9. /\ page.free_space_end + record.length + (Len(page.dir) + 1) * SLOT_SIZE <= PAGE_SIZE
      /\ HEADER_SIZE <= page.free_space_end
  <2> DEFINE used == Len(page.dir) * SLOT_SIZE
  <2>1. PAGE_SIZE - used - page.free_space_end >= record.length + SLOT_SIZE
    BY <1>1 DEF can_fit, free_space, slot_dir_start
  <2>2. used \in Nat /\ (Len(page.dir) + 1) * SLOT_SIZE = used + SLOT_SIZE
    BY <1>1, EntriesSize
  <2>3. HEADER_SIZE <= page.free_space_end
    BY DEF Written
  <2> HIDE DEF used
  <2> QED
    BY <1>1, <1>2, <2>1, <2>2, <2>3, PageSizesAssumption
<1>10. \A i \in DOMAIN new.dir : EntryOK(new, i)
  <2> TAKE i \in DOMAIN new.dir
  <2>1. CASE i = Len(page.dir) + 1
    BY <1>1, <1>2, <1>4, <1>6, <1>9, <2>1 DEF EntryOK
  <2>2. CASE i \in DOMAIN page.dir
    <3>1. EntryOK(page, i) /\ new.dir[i] = page.dir[i]
      BY <1>1, <1>6, <1>9, <2>2, PageSizesAssumption DEF WellFormed
    <3>2. page.dir[i].offset \in Int /\ page.dir[i].length \in Int
      BY <2>2, WrittenFields
    <3> QED
      BY <1>1, <1>2, <1>4, <3>1, <3>2 DEF EntryOK
  <2> QED
    BY <1>1, <1>7, <2>1, <2>2
<1>11. Written(new)
  BY <1>1, <1>2, <1>4, <1>9, PageSizesAssumption DEF Written
<1>12. WellFormed(new)
  BY <1>4, <1>6, <1>8, <1>9, <1>10, <1>11 DEF WellFormed
<1>13. \A offset \in Offsets :
          offset < page.free_space_end => new.data[offset] = page.data[offset]
  <2> SUFFICES ASSUME NEW offset \in Offsets, offset < page.free_space_end
               PROVE  new.data[offset] = page.data[offset]
    OBVIOUS
  <2>1. ~(offset - page.free_space_end \in 0 .. record.length - 1)
    BY <1>1, PageSizesAssumption DEF Offsets
  <2> QED
    BY <1>4, <2>1
<1>14. page.free_space_end <= new.free_space_end
  BY <1>1, <1>2, <1>4
<1>15. Grown(page, new)
  <2>1. ~Mangled(page)
    BY WrittenFields
  <2>2. DOMAIN page.dir \subseteq DOMAIN new.dir
    BY <1>1, <1>7
  <2> QED
    BY <1>1, <1>6, <1>11, <1>13, <1>14, <2>1, <2>2 DEF Grown
<1>16. SlotFor(page) = Len(page.dir)
  BY <1>1 DEF SlotFor
<1> QED
  BY <1>4, <1>6, <1>7, <1>11, <1>12, <1>15, <1>16 DEF new

(* An entry has the bytes of at most one record. *)
LEMMA StoredOnce ==
    ASSUME NEW page, WellFormed(page), NEW i \in DOMAIN page.dir \ Tombstones(page),
           NEW record \in Stored(page, i), NEW other \in Stored(page, i)
    PROVE  record = other
<1>1. EntryOK(page, i) /\ page.dir[i].offset # 0 /\ i \in DOMAIN page.dir
  <2>1. page.dir # <<>>
    BY EmptySeq, LenProperties, WrittenFields
  <2> QED
    BY <2>1, WrittenFields DEF WellFormed, Tombstones
<1>2. /\ record \in Records /\ other \in Records
      /\ record.length = page.dir[i].length /\ other.length = page.dir[i].length
  BY DEF Stored
<1>3. record.length \in Nat /\ record.length > 0 /\ other.length = record.length
  BY <1>2, RecordsAssumption, TuplesAssumption
<1>4. /\ page.dir[i].offset \in Int /\ page.free_space_end \in Int
      /\ page.free_space_end <= PAGE_SIZE
  BY <1>1, WrittenFields
<1>5. page.dir[i].offset \in Offsets
  BY <1>1, <1>2, <1>3, <1>4, PageSizesAssumption DEF EntryOK, Offsets
<1>6. page.dir[i].offset - page.dir[i].offset \in 0 .. record.length - 1
  BY <1>3, <1>4
<1> QED
  BY <1>3, <1>5, <1>6 DEF Stored

(* An entry leads to the same bytes when the page has grown. *)
LEMMA StoredKept ==
    ASSUME NEW old, NEW new, WellFormed(old), WellFormed(new), Written(old), Grown(old, new),
           NEW i \in DOMAIN old.dir
    PROVE  /\ i \in DOMAIN new.dir /\ new.dir[i] = old.dir[i]
           /\ i \in Tombstones(new) <=> i \in Tombstones(old)
           /\ i \notin Tombstones(old) => Stored(new, i) = Stored(old, i)
<1>1. i \in DOMAIN new.dir /\ new.dir[i] = old.dir[i]
  BY DEF Grown
<1>2. i \in Tombstones(new) <=> i \in Tombstones(old)
  BY <1>1 DEF Tombstones
<1>3. ASSUME i \notin Tombstones(old)
      PROVE  Stored(new, i) = Stored(old, i)
  <2>1. EntryOK(old, i) /\ old.dir[i].offset # 0
    <3>1. old.dir # <<>>
      BY EmptySeq, LenProperties, WrittenFields
    <3> QED
      BY <1>3, <3>1, WrittenFields DEF WellFormed, Tombstones
  <2>2. /\ old.dir[i].offset \in Int /\ old.dir[i].length \in Int
        /\ old.free_space_end \in Int
    BY WrittenFields
  <2>3. \A record \in Records, offset \in Offsets :
           /\ record.length = old.dir[i].length
           /\ offset - old.dir[i].offset \in 0 .. record.length - 1
           => new.data[offset] = old.data[offset]
    <3> SUFFICES ASSUME NEW record \in Records, NEW offset \in Offsets,
                        record.length = old.dir[i].length,
                        offset - old.dir[i].offset \in 0 .. record.length - 1
                 PROVE  new.data[offset] = old.data[offset]
      OBVIOUS
    <3>1. offset < old.free_space_end
      BY <2>1, <2>2, PageSizesAssumption DEF EntryOK, Offsets
    <3> QED
      BY <3>1 DEF Grown
  <2> QED
    BY <1>1, <2>3 DEF Stored
<1> QED
  BY <1>1, <1>2, <1>3

LEMMA GrownReflexive ==
    ASSUME NEW page, WellFormed(page)
    PROVE  Grown(page, page)
  BY WrittenFields DEF Grown

LEMMA GrownTransitive ==
    ASSUME NEW old, NEW page, NEW new,
           WellFormed(old), WellFormed(page), WellFormed(new),
           Grown(old, page), Grown(page, new)
    PROVE  Grown(old, new)
<1>1. /\ old.free_space_end \in Int /\ page.free_space_end \in Int
      /\ new.free_space_end \in Int
  BY WrittenFields
<1>2. ASSUME Written(old)
      PROVE  /\ Written(new) /\ old.free_space_end <= new.free_space_end
             /\ DOMAIN old.dir \subseteq DOMAIN new.dir
             /\ \A i \in DOMAIN old.dir : new.dir[i] = old.dir[i]
             /\ \A offset \in Offsets :
                   offset < old.free_space_end => new.data[offset] = old.data[offset]
  <2>1. \A offset \in Offsets : offset \in Int
    BY DEF Offsets
  <2> QED
    BY <1>1, <1>2, <2>1 DEF Grown
<1> QED
  BY <1>2 DEF Grown

(* What a power loss leaves of a page the device was writing: all of the old
   page, and maybe more entries than it had. *)
LEMMA MixtureGrows ==
    ASSUME NEW old, NEW new, WellFormed(old), WellFormed(new), Grown(old, new),
           NEW page \in PartlyWritten(old, new)
    PROVE  WellFormed(page) /\ Grown(old, page)
<1>1. PICK header \in {old, new}, entries \in {old, new}, records \in {old, new} :
         page = [free_space_end |-> header.free_space_end,
                 free_slot_count |-> header.free_slot_count,
                 dir |-> [i \in DOMAIN header.dir |->
                             IF i \in DOMAIN entries.dir THEN entries.dir[i]
                             ELSE [offset |-> 0, length |-> 0]],
                 data |-> records.data]
  BY DEF PartlyWritten
<1>2. /\ page.free_space_end = header.free_space_end
      /\ page.free_slot_count = header.free_slot_count
      /\ page.dir = [i \in DOMAIN header.dir |->
                        IF i \in DOMAIN entries.dir THEN entries.dir[i]
                        ELSE [offset |-> 0, length |-> 0]]
      /\ page.data = records.data
  BY <1>1
<1>3. WellFormed(header) /\ WellFormed(entries) /\ WellFormed(records)
  OBVIOUS
<1>4. /\ header.dir \in Seq(Slot) /\ Len(header.dir) \in Nat
      /\ DOMAIN header.dir = 1 .. Len(header.dir)
      /\ header.free_space_end \in Int
      /\ \A i \in DOMAIN entries.dir : entries.dir[i] \in Slot
  BY <1>3, WrittenFields, ElementOfSeq
<1>5. \A i \in DOMAIN header.dir : page.dir[i] \in Slot
  BY <1>2, <1>4 DEF Slot
<1>6. page.dir \in [1 .. Len(header.dir) -> Slot]
  BY <1>2, <1>4, <1>5
<1>7. page.dir \in Seq(Slot) /\ Len(page.dir) = Len(header.dir)
  BY <1>4, <1>6
<1>8. page \in Page /\ page.free_slot_count = 0
  <2>1. /\ records.data \in [Offsets -> Records \cup {Zero}]
        /\ header.free_slot_count = 0
    BY <1>3 DEF WellFormed, Page
  <2>2. page = [free_space_end |-> page.free_space_end, free_slot_count |-> page.free_slot_count,
                dir |-> page.dir, data |-> page.data]
    BY <1>1
  <2> QED
    <3>1. /\ page.free_space_end \in Int /\ page.free_slot_count \in Nat
          /\ page.dir \in Seq(Slot)
      BY <1>2, <1>4, <1>7, <2>1
    <3>2. page.data \in [Offsets -> Records \cup {Zero}] /\ page.free_slot_count = 0
      BY <1>2, <2>1
    <3> QED
      BY <2>2, <3>1, <3>2 DEF Page
<1>9. Mangled(page) <=> Mangled(header)
  BY <1>2 DEF Mangled
<1>10. CASE ~Written(header)
  <2>1. header.free_space_end \in {0, -1} /\ header.dir = <<>>
    BY <1>3, <1>10, WrittenFields
  <2>2. Len(page.dir) = 0
    BY <1>7, <2>1, EmptySeq
  <2>3. page.dir = <<>>
    BY <1>7, <2>2, EmptySeq
  <2>4. WellFormed(page)
    BY <1>2, <1>8, <2>1, <2>3 DEF WellFormed
  <2>5. ~Written(old)
    BY <1>10 DEF Grown
  <2>6. Mangled(old) => Mangled(page)
    BY <1>9 DEF Grown
  <2> QED
    BY <2>4, <2>5, <2>6 DEF Grown
<1>11. CASE Written(header)
  <2>1. Written(page)
    BY <1>2, <1>11 DEF Written
  <2>2. /\ page.free_space_end + Len(page.dir) * SLOT_SIZE <= PAGE_SIZE
        /\ \A i \in DOMAIN header.dir : EntryOK(header, i)
    <3>1. /\ header.free_space_end + Len(header.dir) * SLOT_SIZE <= PAGE_SIZE
          /\ \A i \in DOMAIN header.dir : EntryOK(header, i)
      BY <1>3, <1>11, PageSizesAssumption DEF WellFormed, Written
    <3> QED
      BY <1>2, <1>7, <3>1
  \* The two pages have the same entry where both have one, if old has a header.
  <2>3. \A i \in DOMAIN header.dir :
           i \in DOMAIN entries.dir => EntryOK(page, i)
    <3> SUFFICES ASSUME NEW i \in DOMAIN header.dir, i \in DOMAIN entries.dir
                 PROVE  EntryOK(page, i)
      OBVIOUS
    <3>1. entries.dir # <<>>
      BY EmptySeq, LenProperties, <1>3, WrittenFields
    <3>2. entries.dir[i] = header.dir[i]
      <4>1. CASE header = entries
        BY <4>1
      <4>2. CASE header = old /\ entries = new
        BY <1>11, <4>2 DEF Grown
      <4>3. CASE header = new /\ entries = old
        <5>1. Written(old)
          BY <1>3, <3>1, <4>3, WrittenFields
        <5> QED
          BY <4>3, <5>1 DEF Grown
      <4> QED
        BY <4>1, <4>2, <4>3
    <3>3. page.dir[i] = header.dir[i]
      BY <1>2, <3>2
    <3> QED
      BY <1>2, <2>2, <3>3 DEF EntryOK
  <2>4. \A i \in DOMAIN header.dir :
           i \notin DOMAIN entries.dir => EntryOK(page, i)
    BY <1>2 DEF EntryOK
  <2>5. DOMAIN page.dir = DOMAIN header.dir
    BY <1>2
  <2>6. WellFormed(page)
    BY <1>8, <2>1, <2>2, <2>3, <2>4, <2>5 DEF WellFormed
  <2>7. ASSUME Written(old)
        PROVE  /\ old.free_space_end <= page.free_space_end
               /\ DOMAIN old.dir \subseteq DOMAIN page.dir
               /\ \A i \in DOMAIN old.dir : page.dir[i] = old.dir[i]
               /\ \A offset \in Offsets :
                     offset < old.free_space_end => page.data[offset] = old.data[offset]
    <3>1. Grown(old, header) /\ Grown(old, entries) /\ Grown(old, records)
      BY GrownReflexive
    <3> QED
      BY <1>2, <2>5, <2>7, <3>1 DEF Grown
  <2>8. Mangled(old) => Mangled(page)
    <3>1. Mangled(header) <=> header.free_space_end = -1
      BY <1>3, WrittenFields
    <3>2. ~Mangled(header)
      BY <1>3, <1>11, WrittenFields
    <3>3. ~Mangled(old)
      BY <3>2 DEF Grown
    <3> QED
      BY <3>3
  <2> QED
    BY <2>1, <2>6, <2>7, <2>8 DEF Grown
<1> QED
  BY <1>10, <1>11

(* A row stays where it is when its page grows. *)
LEMMA KeptWhenGrown ==
    ASSUME NEW pages, NEW others, NEW row \in RowType,
           WellFormed(pages[row.page_id]), WellFormed(others[row.page_id]),
           Grown(pages[row.page_id], others[row.page_id]), Readable(pages, row)
    PROVE  Readable(others, row)
<1> DEFINE old == pages[row.page_id]
           new == others[row.page_id]
           i == row.slot_id + 1
<1>1. i \in DOMAIN old.dir \ Tombstones(old) /\ row.record \in Stored(old, i)
  BY DEF Readable, Read
<1>2. Written(old)
  <2>1. old.dir # <<>>
    BY <1>1, EmptySeq, LenProperties, WrittenFields
  <2> QED
    BY <2>1, WrittenFields
<1>3. i \in DOMAIN new.dir \ Tombstones(new) /\ Stored(new, i) = Stored(old, i)
  BY <1>1, <1>2, StoredKept
<1> QED
  BY <1>1, <1>3 DEF Readable, Read

LEMMA AppendToSet ==
    ASSUME NEW S, NEW list \in Seq(S), NEW e \in S
    PROVE  /\ Append(list, e) \in Seq(S)
           /\ DOMAIN list = 1 .. Len(list) /\ Len(list) \in Nat
           /\ DOMAIN Append(list, e) = 1 .. Len(list) + 1
           /\ Len(Append(list, e)) = Len(list) + 1
           /\ \A i \in 1 .. Len(list) : Append(list, e)[i] = list[i]
           /\ Append(list, e)[Len(list) + 1] = e
           /\ ToSet(Append(list, e)) = ToSet(list) \cup {e}
<1> DEFINE all == Append(list, e)
<1>1. DOMAIN list = 1 .. Len(list) /\ Len(list) \in Nat
  BY LenProperties
<1>2. /\ all \in Seq(S) /\ Len(all) = Len(list) + 1
      /\ \A i \in 1 .. Len(list) : all[i] = list[i]
      /\ all[Len(list) + 1] = e
  BY AppendProperties
<1>3. DOMAIN all = 1 .. Len(list) + 1
  BY <1>2, LenProperties
<1> HIDE DEF all
<1>4. \A i \in DOMAIN all : i \in DOMAIN list \/ i = Len(list) + 1
  BY <1>1, <1>3
<1>5. ToSet(all) = ToSet(list) \cup {e}
  BY <1>1, <1>2, <1>3, <1>4 DEF ToSet
<1> QED
  BY <1>1, <1>2, <1>3, <1>5 DEF all

-----------------------------------------------------------------------------
LEMMA FilePages ==
    /\ File!Pages \subseteq Nat
    /\ \A n \in 0 .. MaxPages : \A p \in Nat : p < n => p \in File!Pages
    /\ MaxPages \in Nat \ {0}
  BY TablePagesAssumption DEF File!Pages

LEMMA DiskFields ==
    ASSUME TypeOK
    PROVE  /\ disk.pages \in [File!Pages -> Page] /\ disk.synced \in [File!Pages -> Page]
           /\ disk.page_count \in 0 .. MaxPages /\ disk.synced_count \in 0 .. MaxPages
           /\ disk = [pages |-> disk.pages, page_count |-> disk.page_count,
                      synced |-> disk.synced, synced_count |-> disk.synced_count]
  BY DEF TypeOK

LEMMA TableFields ==
    ASSUME TableInv
    PROVE  /\ rows \in Seq(RowType) /\ DOMAIN rows = 1 .. Len(rows) /\ Len(rows) \in Nat
           /\ \A i \in DOMAIN rows :
                 /\ rows[i] \in RowType /\ rows[i].page_id \in File!Pages
                 /\ rows[i].page_id < disk.page_count
           /\ ToSet(rows) = {rows[i] : i \in DOMAIN rows}
           /\ \A row \in ToSet(rows) :
                 row \in RowType /\ row.page_id \in File!Pages /\ row.page_id < disk.page_count
           /\ durable \in Nat /\ durable <= Len(rows) /\ 1 .. durable \subseteq DOMAIN rows
<1>1. rows \in Seq(RowType) /\ durable \in 0 .. Len(rows)
  BY DEF TableInv, TypeOK
<1>2. DOMAIN rows = 1 .. Len(rows) /\ Len(rows) \in Nat
  BY <1>1, LenProperties
<1>3. \A i \in DOMAIN rows : rows[i] \in RowType
  BY <1>1, <1>2, ElementOfSeq
<1>4. \A i \in DOMAIN rows : rows[i].page_id < disk.page_count /\ rows[i].page_id \in Nat
  BY <1>3 DEF TableInv, RowsOK, RowType
<1>5. disk.page_count \in 0 .. MaxPages
  BY DiskFields DEF TableInv
<1>6. \A i \in DOMAIN rows : rows[i].page_id \in File!Pages
  BY <1>4, <1>5, FilePages
<1> QED
  BY <1>1, <1>2, <1>3, <1>4, <1>6 DEF ToSet

LEMMA InitTable == Init => TableInv
<1> SUFFICES ASSUME Init
             PROVE  TableInv
  OBVIOUS
<1>1. /\ disk.pages = [p \in File!Pages |-> ZeroPage] /\ disk.page_count = 0
      /\ disk.synced = [p \in File!Pages |-> ZeroPage] /\ disk.synced_count = 0
      /\ disk \in [pages : [File!Pages -> Page], page_count : 0 .. MaxPages,
                   synced : [File!Pages -> Page], synced_count : 0 .. MaxPages]
  <2>1. ZeroPage \in Page
    BY FormattedWellFormed DEF WellFormed
  <2> QED
    BY <2>1, FilePages DEF Init, File!EmptyDisk
<1>2. /\ <<>> \in Seq(RowType) /\ Len(<<>>) = 0 /\ DOMAIN <<>> = {} /\ ToSet(<<>>) = {}
  <2>1. <<>> \in Seq(RowType) /\ Len(<<>>) = 0 /\ DOMAIN <<>> = 1 .. 0
    BY EmptySeq, LenProperties
  <2> QED
    BY <2>1 DEF ToSet
<1>3. TypeOK
  BY <1>1, <1>2 DEF Init, TypeOK, Start
<1>4. DiskOK
  BY <1>1, FormattedWellFormed, GrownReflexive DEF DiskOK
<1>5. InsertingOK /\ RowsOK /\ ScanOK
  BY <1>2 DEF Init, InsertingOK, RowsOK, ScanOK, InOrder
<1>6. SlotsKnown
  BY <1>1, <1>2, FormattedWellFormed DEF SlotsKnown, Read
<1> QED
  BY <1>3, <1>4, <1>5, <1>6 DEF TableInv

LEMMA ScanFields ==
    ASSUME TableInv
    PROVE  /\ seen \in Seq(RowType) /\ DOMAIN seen = 1 .. Len(seen) /\ Len(seen) \in Nat
           /\ cursor.page_id \in Nat /\ cursor.slot_id \in Nat
           /\ cursor = [page_id |-> cursor.page_id, slot_id |-> cursor.slot_id]
           /\ \A row \in RowType : row.page_id \in Nat /\ row.slot_id \in Nat
           /\ \A i \in DOMAIN seen : seen[i] \in RowType
<1>1. seen \in Seq(RowType) /\ cursor \in [page_id : Nat, slot_id : Nat]
  BY DEF TableInv, TypeOK
<1> QED
  BY <1>1, LenProperties, ElementOfSeq DEF RowType

(* A step that only adds to the pages and the rows changes nothing for a scan. *)
LEMMA ScanKept ==
    ASSUME TableInv, UNCHANGED scan, ToSet(rows) \subseteq ToSet(rows'),
           disk'.page_count \in Nat, disk.page_count <= disk'.page_count,
           \A p \in File!Pages :
              p < disk.page_count => Grown(disk.pages[p], disk'.pages[p])
    PROVE  ScanOK'
<1>1. cursor' = cursor /\ seen' = seen /\ due' = due
  BY DEF scan
<1>2. ASSUME NEW i \in DOMAIN seen
      PROVE  /\ seen[i].page_id < disk'.page_count
             /\ seen[i] \in ToSet(rows') \/ Mangled(disk'.pages[seen[i].page_id])
  <2>1. /\ seen[i] \in RowType /\ seen[i].page_id \in Nat
        /\ seen[i].page_id < disk.page_count /\ disk.page_count \in 0 .. MaxPages
    BY ScanFields, DiskFields DEF TableInv, ScanOK
  <2>2. seen[i].page_id \in File!Pages
    BY <2>1, FilePages
  <2>3. Grown(disk.pages[seen[i].page_id], disk'.pages[seen[i].page_id])
    BY <2>1, <2>2
  <2>4. seen[i].page_id < disk'.page_count
    BY <2>1
  <2> QED
    BY <2>3, <2>4 DEF TableInv, ScanOK, Grown
<1> QED
  BY <1>1, <1>2 DEF TableInv, ScanOK

(* write_page of a last page that has grown.  Its slots lead to what they led to,
   or to the row that is added. *)
LEMMA GrowTable ==
    ASSUME TableInv, disk.page_count > 0,
           NEW new, WellFormed(new), Grown(disk.pages[LastPage], new),
           disk' = File!WritePage(disk, LastPage, new),
           inserting' = NoRecord, UNCHANGED <<scan, durable, torn>>,
           \/ rows' = rows
           \/ \E row \in RowType :
                 /\ row.page_id = LastPage /\ rows' = Append(rows, row)
                 /\ Readable([disk.pages EXCEPT ![LastPage] = new], row),
           \A s \in Nat :
              \A record \in Read([disk.pages EXCEPT ![LastPage] = new], LastPage, s) :
                 \/ record \in Read(disk.pages, LastPage, s)
                 \/ Row(LastPage, s, record) \in ToSet(rows')
    PROVE  TableInv'
<1> DEFINE pages == [disk.pages EXCEPT ![LastPage] = new]
<1>1. /\ disk.page_count \in 0 .. MaxPages /\ disk.page_count > 0
      /\ LastPage \in File!Pages /\ LastPage \in Nat /\ LastPage < disk.page_count
      /\ disk.pages \in [File!Pages -> Page] /\ disk.synced \in [File!Pages -> Page]
  BY DiskFields, FilePages DEF TableInv, LastPage
<1>2. /\ disk'.pages = pages
      /\ disk'.page_count = disk.page_count
      /\ disk'.synced = disk.synced /\ disk'.synced_count = disk.synced_count
      /\ disk' = [disk EXCEPT !.pages = pages, !.page_count = disk.page_count]
  BY <1>1, DiskFields DEF File!WritePage, TableInv
<1>3. /\ scan' = scan /\ cursor' = cursor /\ seen' = seen /\ due' = due
      /\ durable' = durable /\ torn' = torn
  BY DEF scan
<1>4. \A p \in File!Pages : disk'.pages[p] = IF p = LastPage THEN new ELSE disk.pages[p]
  BY <1>1, <1>2
<1>5. \A p \in File!Pages :
         WellFormed(disk'.pages[p]) /\ Grown(disk.pages[p], disk'.pages[p])
  BY <1>4, GrownReflexive DEF TableInv, DiskOK
<1>6. DOMAIN rows = 1 .. Len(rows) /\ Len(rows) \in Nat
  BY TableFields
<1>7. /\ rows' \in Seq(RowType) /\ DOMAIN rows \subseteq DOMAIN rows'
      /\ Len(rows') \in Nat /\ Len(rows) <= Len(rows')
      /\ \A i \in DOMAIN rows : rows'[i] = rows[i]
      /\ \A i \in DOMAIN rows' \ DOMAIN rows :
            rows'[i].page_id < disk.page_count /\ Readable(pages, rows'[i])
      /\ ToSet(rows) \subseteq ToSet(rows')
  <2>1. CASE rows' = rows
    BY <1>6, <2>1, TableFields
  <2>2. CASE rows' # rows
    <3>1. PICK row \in RowType :
             /\ row.page_id = LastPage /\ rows' = Append(rows, row)
             /\ Readable(pages, row)
      BY <2>2
    <3>2. /\ rows' \in Seq(RowType) /\ DOMAIN rows' = 1 .. Len(rows) + 1
          /\ Len(rows') = Len(rows) + 1
          /\ \A i \in 1 .. Len(rows) : rows'[i] = rows[i]
          /\ rows'[Len(rows) + 1] = row
          /\ ToSet(rows') = ToSet(rows) \cup {row}
      <4>1. rows \in Seq(RowType)
        BY TableFields
      <4> QED
        BY <3>1, <4>1, AppendToSet
    <3>3. \A i \in DOMAIN rows' \ DOMAIN rows : i = Len(rows) + 1
      BY <1>6, <3>2
    <3> HIDE DEF pages
    <3>4. \A i \in DOMAIN rows' \ DOMAIN rows :
             rows'[i].page_id < disk.page_count /\ Readable(pages, rows'[i])
      BY <1>1, <3>1, <3>2, <3>3
    <3>5. /\ DOMAIN rows \subseteq DOMAIN rows'
          /\ Len(rows') \in Nat /\ Len(rows) <= Len(rows')
      BY <1>6, <3>2
    <3> QED
      BY <1>6, <3>2, <3>4, <3>5
  <2> QED
    BY <2>1, <2>2
<1> HIDE DEF pages
<1>8. TypeOK'
  <2>1. pages \in [File!Pages -> Page]
    BY <1>1 DEF pages, WellFormed
  <2>2. disk' \in [pages : [File!Pages -> Page], page_count : 0 .. MaxPages,
                   synced : [File!Pages -> Page], synced_count : 0 .. MaxPages]
    BY <1>1, <1>2, <2>1 DEF TableInv, TypeOK
  <2>3. durable' \in 0 .. Len(rows')
    BY <1>3, <1>6, <1>7, TableFields
  <2> QED
    BY <1>3, <1>7, <2>2, <2>3 DEF TableInv, TypeOK
<1>9. DiskOK'
  <2>1. \A p \in File!Pages : Grown(disk.synced[p], disk'.pages[p])
    BY <1>5, GrownTransitive DEF TableInv, DiskOK
  <2>2. \A p \in File!Pages : p >= disk.page_count => p # LastPage
    BY <1>1
  <2> QED
    BY <1>2, <1>4, <1>5, <2>1, <2>2 DEF TableInv, DiskOK
<1>10. InsertingOK'
  BY DEF InsertingOK
<1>11. RowsOK'
  <2>1. \A i \in DOMAIN rows :
           rows[i].page_id < disk'.page_count /\ Readable(disk'.pages, rows[i])
    <3> TAKE i \in DOMAIN rows
    <3>1. rows[i] \in RowType /\ rows[i].page_id \in File!Pages
      BY TableFields
    <3>2. rows[i].page_id < disk.page_count /\ Readable(disk.pages, rows[i])
      BY DEF TableInv, RowsOK
    <3>3. Readable(disk'.pages, rows[i])
      BY <1>5, <3>1, <3>2, KeptWhenGrown DEF TableInv, DiskOK
    <3> QED
      BY <1>2, <3>2, <3>3
  <2>2. \A i \in DOMAIN rows' :
           rows'[i].page_id < disk'.page_count /\ Readable(disk'.pages, rows'[i])
    BY <1>2, <1>7, <2>1
  <2>3. \A i \in 1 .. durable : i \in DOMAIN rows /\ rows'[i] = rows[i]
    BY <1>7, TableFields
  <2>4. \A i \in 1 .. durable' :
           rows'[i].page_id < disk'.synced_count /\ Readable(disk'.synced, rows'[i])
    BY <1>2, <1>3, <2>3 DEF TableInv, RowsOK
  <2> QED
    BY <2>2, <2>4 DEF RowsOK, Readable
<1>12. SlotsKnown'
  <2> SUFFICES ASSUME NEW p \in File!Pages, NEW s \in Nat,
                      NEW r \in Read(disk'.pages, p, s)
               PROVE  Row(p, s, r) \in ToSet(rows')
    BY DEF SlotsKnown
  <2>1. ASSUME r \in Read(disk.pages, p, s)
        PROVE  Row(p, s, r) \in ToSet(rows')
    BY <1>7, <2>1 DEF TableInv, SlotsKnown
  <2>2. CASE p # LastPage
    BY <1>4, <2>1, <2>2 DEF Read
  <2>3. CASE p = LastPage
    BY <1>2, <2>1, <2>3 DEF pages
  <2> QED
    BY <2>2, <2>3
<1>13. ScanOK'
  BY <1>1, <1>2, <1>3, <1>5, <1>7, ScanKept
<1> QED
  BY <1>8, <1>9, <1>10, <1>11, <1>12, <1>13 DEF TableInv

(* A page without a header has no slots, and stays without one. *)
LEMMA MangledGrows ==
    ASSUME NEW page, WellFormed(page), ~Written(page), NEW pages, NEW p, NEW s \in Nat,
           pages[p] = MangledPage
    PROVE  /\ WellFormed(MangledPage) /\ Grown(page, MangledPage)
           /\ Read(pages, p, s) = {}
<1>1. WellFormed(MangledPage) /\ Mangled(MangledPage) /\ MangledPage.dir = <<>>
  BY FormattedWellFormed DEF Mangled
<1>2. DOMAIN <<>> = {}
  OBVIOUS
<1> QED
  BY <1>1, <1>2 DEF Grown, Read

(* page.insert and write_page: rows that were there stay, and the new one is
   readable if its page has a header. *)
LEMMA PlaceTable ==
    ASSUME TableInv, NEW record \in Records, HasRoom(record) \/ LastMangled,
           Place(record), inserting' = NoRecord, UNCHANGED <<scan, durable, torn>>
    PROVE  TableInv'
<1> DEFINE page == disk.pages[LastPage]
           new == Placed(page, record)
           pages == [disk.pages EXCEPT ![LastPage] = new]
<1>1. /\ disk.page_count > 0 /\ LastPage \in Nat /\ LastPage \in File!Pages
      /\ disk.pages \in [File!Pages -> Page]
  BY DiskFields, FilePages DEF TableInv, HasRoom, LastMangled, LastPage
<1>2. WellFormed(page) /\ pages[LastPage] = new
  BY <1>1 DEF TableInv, DiskOK
<1>3. disk' = File!WritePage(disk, LastPage, new)
  BY DEF Place
<1>4. CASE ~Written(page)
  <2>1. new = MangledPage /\ rows' = rows
    BY <1>4 DEF Placed, Place
  <2>2. /\ WellFormed(new) /\ Grown(page, new)
        /\ \A s \in Nat : Read(pages, LastPage, s) = {}
    BY <1>2, <1>4, <2>1, MangledGrows
  <2> HIDE DEF new
  <2> QED
    BY <1>1, <1>3, <2>1, <2>2, GrowTable
<1>5. CASE Written(page)
  <2>1. can_fit(page, record.length)
    BY <1>2, <1>5, WrittenFields DEF HasRoom, LastMangled
  <2>2. new = insert(page, record)
    BY <1>5 DEF Placed
  <2> DEFINE n == Len(page.dir)
             row == Row(LastPage, SlotFor(page), record)
  <2>3. /\ WellFormed(new) /\ Written(new) /\ Grown(page, new)
        /\ SlotFor(page) = n
        /\ DOMAIN new.dir = 1 .. n + 1
        /\ new.dir[n + 1] = [offset |-> page.free_space_end, length |-> record.length]
        /\ \A offset \in Offsets :
              offset - page.free_space_end \in 0 .. record.length - 1
                  => new.data[offset] = record
    BY <1>2, <1>5, <2>1, <2>2, InsertGrows
  <2>4. /\ n \in Nat /\ DOMAIN page.dir = 1 .. n /\ page.free_space_end \in Int
        /\ page.free_space_end # 0
    BY <1>2, <1>5, WrittenFields
  <2>5. /\ row \in RowType /\ row.slot_id = n /\ row.record = record
        /\ row.page_id = LastPage
    BY <1>1, <2>3, <2>4 DEF Row, RowType
  <2>6. rows' = Append(rows, row)
    BY <1>5 DEF Place
  <2>7. row \in ToSet(rows')
    <3>1. rows \in Seq(RowType)
      BY TableFields
    <3> HIDE DEF row
    <3> QED
      BY <2>5, <2>6, <3>1, AppendToSet
  <2>8. page = disk.pages[LastPage] /\ row = Row(LastPage, n, record)
    BY <2>3
  <2> HIDE DEF row, page, new, n, pages
  <2>9. new.dir[n + 1].offset = page.free_space_end /\ new.dir[n + 1].length = record.length
    BY <2>3
  <2>10. n + 1 \in DOMAIN new.dir \ Tombstones(new)
    BY <2>3, <2>4, <2>9 DEF Tombstones
  <2>11. record \in Stored(new, n + 1)
    BY <2>3, <2>9 DEF Stored
  <2>12. Stored(new, n + 1) \subseteq {record}
    BY <2>3, <2>10, <2>11, StoredOnce
  <2>13. Readable(pages, row)
    BY <1>2, <2>5, <2>10, <2>11 DEF Readable, Read
  <2>14. \A s \in Nat : \A r \in Read(pages, LastPage, s) :
            r \in Read(disk.pages, LastPage, s) \/ Row(LastPage, s, r) \in ToSet(rows')
    <3> SUFFICES ASSUME NEW s \in Nat, NEW r \in Read(pages, LastPage, s)
                 PROVE  \/ r \in Read(disk.pages, LastPage, s)
                        \/ Row(LastPage, s, r) \in ToSet(rows')
      OBVIOUS
    <3>1. s + 1 \in DOMAIN new.dir \ Tombstones(new) /\ r \in Stored(new, s + 1)
      BY <1>2 DEF Read
    <3>2. CASE s = n
      <4>1. r = record
        BY <2>12, <3>1, <3>2
      <4> QED
        BY <2>7, <2>8, <3>2, <4>1
    <3>3. CASE s # n
      <4>1. s + 1 \in DOMAIN page.dir
        BY <2>3, <2>4, <3>1, <3>3
      <4>2. /\ s + 1 \in DOMAIN page.dir \ Tombstones(page)
            /\ Stored(new, s + 1) = Stored(page, s + 1)
        BY <1>2, <1>5, <2>3, <3>1, <4>1, StoredKept
      <4> QED
        BY <2>8, <3>1, <4>2 DEF Read
    <3> QED
      BY <3>2, <3>3
  <2> QED
    BY <1>1, <1>3, <2>3, <2>5, <2>6, <2>8, <2>13, <2>14, GrowTable DEF pages
<1> QED
  BY <1>4, <1>5

(* A write cut short adds an entry without a record, at most. *)
LEMMA InsertCutShortTable ==
    ASSUME TableInv, NEW record \in Records, InsertCutShort(record)
    PROVE  TableInv'
<1> DEFINE page == disk.pages[LastPage]
           placed == Placed(page, record)
           new == CutShort(page, placed)
           pages == [disk.pages EXCEPT ![LastPage] = new]
<1>1. /\ disk.page_count > 0 /\ LastPage \in Nat /\ LastPage \in File!Pages
      /\ disk.pages \in [File!Pages -> Page]
  BY DiskFields, FilePages DEF InsertCutShort, TableInv, HasRoom, LastMangled, LastPage
<1>2. WellFormed(page) /\ pages[LastPage] = new
  BY <1>1 DEF TableInv, DiskOK
<1>3. /\ disk' = File!WritePage(disk, LastPage, new)
      /\ inserting' = NoRecord /\ rows' = rows /\ UNCHANGED <<scan, durable, torn>>
  BY DEF InsertCutShort
<1>4. /\ WellFormed(new) /\ Grown(page, new)
      /\ \A s \in Nat : \A r \in Read(pages, LastPage, s) : r \in Read(disk.pages, LastPage, s)
  <2>1. CASE ~Written(page)
    <3>1. placed = MangledPage
      BY <2>1 DEF Placed
    <3>2. new = MangledPage
      <4>1. MangledPage.dir = <<>> /\ DOMAIN <<>> = {}
        BY FormattedWellFormed
      <4>2. [i \in {} |-> IF i \in DOMAIN page.dir THEN page.dir[i]
                          ELSE [offset |-> 0, length |-> 0]] = <<>>
        OBVIOUS
      <4>3. [MangledPage EXCEPT !.dir = <<>>] = MangledPage
        BY <4>1 DEF MangledPage, FormattedPage
      <4> HIDE DEF page
      <4> QED
        BY <3>1, <4>1, <4>2, <4>3 DEF CutShort
    <3> HIDE DEF new
    <3> QED
      BY <1>2, <2>1, <3>2, MangledGrows
  <2>2. CASE Written(page)
    <3>1. can_fit(page, record.length)
      BY <1>2, <2>2, WrittenFields DEF InsertCutShort, HasRoom, LastMangled
    <3>2. placed = insert(page, record)
      BY <2>2 DEF Placed
    <3>3. WellFormed(placed) /\ Written(placed) /\ Grown(page, placed)
      <4> HIDE DEF placed, page, new, pages
      <4> QED
        BY <1>2, <2>2, <3>1, <3>2, InsertGrows
    <3>4. placed \in Page
      BY <3>3 DEF WellFormed
    <3>5. /\ new = [free_space_end |-> placed.free_space_end,
                    free_slot_count |-> placed.free_slot_count,
                    dir |-> [i \in DOMAIN placed.dir |->
                                IF i \in DOMAIN page.dir THEN page.dir[i]
                                ELSE [offset |-> 0, length |-> 0]],
                    data |-> placed.data]
          /\ new.dir = [i \in DOMAIN placed.dir |->
                           IF i \in DOMAIN page.dir THEN page.dir[i]
                           ELSE [offset |-> 0, length |-> 0]]
      <4>1. placed = [free_space_end |-> placed.free_space_end,
                      free_slot_count |-> placed.free_slot_count,
                      dir |-> placed.dir, data |-> placed.data]
        <5> HIDE DEF placed
        <5> QED
          BY <3>4 DEF Page
      <4> HIDE DEF placed, page
      <4> QED
        BY <4>1 DEF CutShort
    <3>6. new \in PartlyWritten(page, placed)
      <4> HIDE DEF placed, page, new
      <4> QED
        BY <3>5 DEF PartlyWritten
    <3>7. WellFormed(new) /\ Grown(page, new)
      <4> HIDE DEF placed, page, new
      <4> QED
        BY <1>2, <3>3, <3>6, MixtureGrows
    <3>8. page = disk.pages[LastPage]
      OBVIOUS
    <3> HIDE DEF placed, page, new, pages
    <3>9. ASSUME NEW s \in Nat, NEW r \in Read(pages, LastPage, s)
          PROVE  r \in Read(disk.pages, LastPage, s)
      <4>1. s + 1 \in DOMAIN new.dir \ Tombstones(new) /\ r \in Stored(new, s + 1)
        BY <1>2 DEF Read
      <4>2. s + 1 \in DOMAIN page.dir
        BY <3>5, <4>1 DEF Tombstones
      <4>3. /\ s + 1 \in DOMAIN page.dir \ Tombstones(page)
            /\ Stored(new, s + 1) = Stored(page, s + 1)
        BY <1>2, <2>2, <3>7, <4>1, <4>2, StoredKept
      <4> QED
        BY <3>8, <4>1, <4>3 DEF Read
    <3> QED
      BY <3>7, <3>9
  <2> QED
    BY <2>1, <2>2
<1> HIDE DEF new
<1> QED
  BY <1>1, <1>3, <1>4, GrowTable

LEMMA InsertInLastTable ==
    ASSUME TableInv, NEW record \in Records, InsertInLast(record)
    PROVE  TableInv'
  BY PlaceTable DEF InsertInLast

LEMMA InsertInNewTable ==
    ASSUME TableInv, InsertInNew
    PROVE  TableInv'
<1>1. inserting \in Records
  BY DEF InsertInNew, TableInv, TypeOK
<1> QED
  BY <1>1, PlaceTable DEF InsertInNew

(* A page at the end of the file: no row was there. *)
LEMMA AllocatePageTable ==
    ASSUME TableInv, NEW record \in Records, AllocatePage(record)
    PROVE  TableInv'
<1> DEFINE new == disk.page_count
<1>1. /\ disk.page_count \in 0 .. MaxPages /\ disk.page_count \in Nat
      /\ new \in File!Pages /\ disk.synced_count \in 0 .. MaxPages
      /\ disk.pages \in [File!Pages -> Page] /\ disk.synced \in [File!Pages -> Page]
      /\ disk.page_count < MaxPages /\ disk.page_count + 1 \in 0 .. MaxPages
  BY DiskFields, FilePages DEF TableInv, AllocatePage
<1>2. /\ disk'.pages = [disk.pages EXCEPT ![new] = FormattedPage]
      /\ disk'.page_count = disk.page_count + 1
      /\ disk'.synced = disk.synced /\ disk'.synced_count = disk.synced_count
      /\ disk' = [disk EXCEPT !.pages = [disk.pages EXCEPT ![new] = FormattedPage],
                              !.page_count = disk.page_count + 1]
  <2>1. disk' = File!WritePage(disk, disk.page_count, FormattedPage)
    BY DEF AllocatePage, File!AllocatePage
  <2>2. (IF new < disk.page_count THEN disk.page_count ELSE new + 1) = disk.page_count + 1
    BY <1>1
  <2>3. disk' = [disk EXCEPT !.pages = [disk.pages EXCEPT ![new] = FormattedPage],
                             !.page_count = disk.page_count + 1]
    BY <2>1, <2>2 DEF File!WritePage
  <2> QED
    BY <1>1, <2>3, DiskFields DEF TableInv
<1>3. /\ inserting' = record /\ cursor' = cursor /\ seen' = seen /\ due' = due
      /\ rows' = rows /\ durable' = durable /\ torn' = torn
  BY DEF AllocatePage, scan
<1>4. \A p \in File!Pages : disk'.pages[p] = IF p = new THEN FormattedPage ELSE disk.pages[p]
  BY <1>1, <1>2
<1>5. \A p \in File!Pages : p < disk.page_count => disk'.pages[p] = disk.pages[p]
  BY <1>1, <1>4
<1>6. TypeOK'
  <2>1. FormattedPage \in Page
    BY FormattedWellFormed DEF WellFormed
  <2>2. disk' \in [pages : [File!Pages -> Page], page_count : 0 .. MaxPages,
                   synced : [File!Pages -> Page], synced_count : 0 .. MaxPages]
    BY <1>1, <1>2, <2>1 DEF TableInv, TypeOK
  <2> QED
    BY <1>3, <2>2 DEF TableInv, TypeOK
<1>7. DiskOK'
  <2>1. disk.synced[new].free_space_end = 0
    BY <1>1 DEF TableInv, DiskOK
  <2>2. Grown(disk.synced[new], FormattedPage)
    <3>1. WellFormed(disk.synced[new])
      BY <1>1 DEF TableInv, DiskOK
    <3> QED
      BY <2>1, <3>1, WrittenFields DEF Grown
  <2>3. \A p \in File!Pages : p >= disk.page_count + 1 => p # new /\ p >= disk.page_count
    BY <1>1, FilePages
  <2>4. disk'.synced_count <= disk'.page_count
    BY <1>1, <1>2 DEF TableInv, DiskOK
  <2> QED
    BY <1>2, <1>4, <2>2, <2>3, <2>4, FormattedWellFormed DEF TableInv, DiskOK
<1>8. InsertingOK'
  <2>1. disk'.page_count > 0 /\ disk'.page_count - 1 = new
    BY <1>1, <1>2
  <2> QED
    BY <1>1, <1>4, <2>1 DEF InsertingOK, LastPage
<1>9. RowsOK'
  <2>1. \A i \in DOMAIN rows : rows[i].page_id < disk'.page_count /\ Readable(disk'.pages, rows[i])
    <3> TAKE i \in DOMAIN rows
    <3>1. rows[i].page_id < disk.page_count /\ rows[i].page_id \in File!Pages
      BY TableFields
    <3>2. disk'.pages[rows[i].page_id] = disk.pages[rows[i].page_id]
      BY <1>5, <3>1
    <3>3. rows[i].page_id < disk'.page_count
      BY <1>1, <1>2, <3>1, FilePages
    <3> QED
      BY <3>2, <3>3 DEF TableInv, RowsOK, Readable, Read
  <2> QED
    BY <1>2, <1>3, <2>1 DEF TableInv, RowsOK, Readable
<1>10. SlotsKnown'
  <2> SUFFICES ASSUME NEW p \in File!Pages, NEW s \in Nat,
                      NEW r \in Read(disk'.pages, p, s)
               PROVE  Row(p, s, r) \in ToSet(rows')
    BY DEF SlotsKnown
  <2>1. p # new
    BY <1>4, FormattedWellFormed DEF Read
  <2> QED
    BY <1>3, <1>4, <2>1 DEF TableInv, SlotsKnown, Read
<1>11. ScanOK'
  <2>1. \A p \in File!Pages :
           p < disk.page_count => Grown(disk.pages[p], disk'.pages[p])
    BY <1>5, GrownReflexive DEF TableInv, DiskOK
  <2>2. disk'.page_count \in Nat /\ disk.page_count <= disk'.page_count
    BY <1>1, <1>2
  <2> QED
    BY <1>3, <2>1, <2>2, ScanKept DEF scan
<1> QED
  BY <1>6, <1>7, <1>8, <1>9, <1>10, <1>11 DEF TableInv

LEMMA InsertFailsTable ==
    ASSUME TableInv, InsertFails
    PROVE  TableInv'
<1>1. /\ inserting' = NoRecord /\ disk' = disk /\ cursor' = cursor /\ seen' = seen
      /\ due' = due /\ rows' = rows /\ durable' = durable /\ torn' = torn
  BY DEF InsertFails, scan
<1>2. TypeOK'
  BY <1>1 DEF TableInv, TypeOK
<1> QED
  BY <1>1, <1>2 DEF TableInv, DiskOK, InsertingOK, RowsOK, SlotsKnown, ScanOK

LEMMA FlushTable ==
    ASSUME TableInv, Flush
    PROVE  TableInv'
<1>1. /\ inserting = NoRecord /\ inserting' = inserting /\ cursor' = cursor /\ seen' = seen
      /\ due' = due /\ rows' = rows /\ durable' = Len(rows) /\ torn' = torn
  BY DEF Flush, scan
<1>2. /\ disk'.pages = disk.pages /\ disk'.page_count = disk.page_count
      /\ disk'.synced = disk.pages /\ disk'.synced_count = disk.page_count
      /\ disk' = [disk EXCEPT !.synced = disk.pages, !.synced_count = disk.page_count]
  BY DiskFields DEF Flush, File!Flush, TableInv
<1>3. TypeOK'
  <2>1. disk' \in [pages : [File!Pages -> Page], page_count : 0 .. MaxPages,
                   synced : [File!Pages -> Page], synced_count : 0 .. MaxPages]
    BY <1>2, DiskFields DEF TableInv, TypeOK
  <2>2. durable' \in 0 .. Len(rows')
    BY <1>1, TableFields
  <2> QED
    BY <1>1, <2>1, <2>2 DEF TableInv, TypeOK
<1>4. DiskOK'
  <2>1. disk.page_count <= disk.page_count
    BY DiskFields DEF TableInv
  <2> QED
    BY <1>2, <2>1, GrownReflexive DEF TableInv, DiskOK
<1>5. RowsOK'
  BY <1>1, <1>2, TableFields DEF TableInv, RowsOK, Readable
<1>6. SlotsKnown' /\ ScanOK' /\ InsertingOK'
  BY <1>1, <1>2 DEF TableInv, SlotsKnown, ScanOK, InsertingOK
<1> QED
  BY <1>3, <1>4, <1>5, <1>6 DEF TableInv

-----------------------------------------------------------------------------
(* Scans *)

(* A step of a scan changes nothing that rows depend on. *)
LEMMA OnlyScanChanges ==
    ASSUME TableInv, TypeOK', ScanOK', inserting' = inserting, disk' = disk,
           rows' = rows, durable' = durable
    PROVE  TableInv'
<1>1. DiskOK' /\ InsertingOK'
  BY DEF TableInv, DiskOK, InsertingOK, LastPage
<1>2. RowsOK'
  BY DEF TableInv, RowsOK, Readable
<1>3. SlotsKnown'
  BY DEF TableInv, SlotsKnown
<1> QED
  BY <1>1, <1>2, <1>3 DEF TableInv

LEMMA OpenScanTable ==
    ASSUME TableInv, OpenScan
    PROVE  TableInv'
<1>1. /\ inserting' = inserting /\ disk' = disk /\ cursor' = Start /\ seen' = <<>>
      /\ due' = ToSet(rows) /\ rows' = rows /\ durable' = durable /\ torn' = torn
  BY TableFields DEF OpenScan
<1>2. <<>> \in Seq(RowType) /\ DOMAIN <<>> = {} /\ ToSet(<<>>) = {}
  <2>1. <<>> \in Seq(RowType) /\ DOMAIN <<>> = 1 .. 0
    BY EmptySeq, LenProperties
  <2> QED
    BY <2>1 DEF ToSet
<1>3. TypeOK'
  <2>1. Start \in [page_id : Nat, slot_id : Nat] /\ ToSet(rows) \subseteq RowType
    BY TableFields DEF Start
  <2> QED
    BY <1>1, <1>2, <2>1 DEF TableInv, TypeOK
<1>4. \A row \in RowType : ~Before(row, Start)
  BY DEF RowType, Start, Before
<1>5. ScanOK'
  BY <1>1, <1>2, <1>4, TableFields DEF ScanOK, InOrder
<1> QED
  BY <1>1, <1>3, <1>5, OnlyScanChanges

(* A cursor that moves forward stays past what it has passed. *)
LEMMA CursorMoves ==
    ASSUME TableInv, NEW row \in RowType,
           \/ cursor' = [cursor EXCEPT !.slot_id = @ + 1]
           \/ cursor' = [page_id |-> cursor.page_id + 1, slot_id |-> 0]
    PROVE  /\ Before(row, cursor) => Before(row, cursor')
           /\ cursor' \in [page_id : Nat, slot_id : Nat]
  BY ScanFields DEF Before, RowType

LEMMA NextPageTable ==
    ASSUME TableInv, NextPage
    PROVE  TableInv'
<1>1. /\ inserting' = inserting /\ disk' = disk /\ seen' = seen /\ due' = due
      /\ rows' = rows /\ durable' = durable /\ torn' = torn
      /\ cursor.page_id < disk.page_count
      /\ cursor.slot_id >= Len(disk.pages[cursor.page_id].dir)
      /\ cursor' = [page_id |-> cursor.page_id + 1, slot_id |-> 0]
  BY DEF NextPage, FirstSlot
<1>2. cursor' \in [page_id : Nat, slot_id : Nat]
  BY <1>1, ScanFields
<1>3. TypeOK'
  BY <1>1, <1>2 DEF TableInv, TypeOK
<1>4. \A i \in DOMAIN seen : Before(seen[i], cursor')
  BY <1>1, CursorMoves, ScanFields DEF TableInv, ScanOK
\* A row of the page that was not passed has a slot, so it was.
<1>5. \A row \in due : Before(row, cursor') => row \in ToSet(seen)
  <2> SUFFICES ASSUME NEW row \in due, Before(row, cursor')
               PROVE  row \in ToSet(seen)
    OBVIOUS
  <2>1. /\ row \in RowType /\ row \in ToSet(rows) /\ row.page_id \in File!Pages
        /\ row.page_id \in Nat /\ row.slot_id \in Nat
    BY TableFields, ScanFields DEF TableInv, ScanOK
  <2>2. Readable(disk.pages, row)
    BY <2>1, TableFields DEF TableInv, RowsOK
  <2>3. row.slot_id + 1 \in DOMAIN disk.pages[row.page_id].dir
    BY <2>2 DEF Readable, Read
  <2>4. row.slot_id < Len(disk.pages[row.page_id].dir)
    BY <2>1, <2>3, WrittenFields DEF TableInv, DiskOK
  <2>5. row.page_id = cursor.page_id => row.slot_id < cursor.slot_id
    <3> SUFFICES ASSUME row.page_id = cursor.page_id
                 PROVE  row.slot_id < cursor.slot_id
      OBVIOUS
    <3> DEFINE n == Len(disk.pages[cursor.page_id].dir)
    <3>1. n \in Nat
      BY <2>1, WrittenFields DEF TableInv, DiskOK
    <3>2. row.slot_id < n /\ cursor.slot_id >= n
      BY <1>1, <2>4
    <3> HIDE DEF n
    <3> QED
      BY <2>1, <3>1, <3>2, ScanFields
  <2>6. Before(row, cursor)
    BY <1>1, <2>1, <2>5, ScanFields DEF Before
  <2> QED
    BY <2>6 DEF TableInv, ScanOK
<1>6. ScanOK'
  BY <1>1, <1>4, <1>5 DEF TableInv, ScanOK
<1> QED
  BY <1>1, <1>3, <1>6, OnlyScanChanges

LEMMA NextSlotTable ==
    ASSUME TableInv, NextSlot
    PROVE  TableInv'
<1> DEFINE page == disk.pages[cursor.page_id]
           found == Read(disk.pages, cursor.page_id, cursor.slot_id)
<1>1. /\ inserting' = inserting /\ disk' = disk /\ due' = due
      /\ rows' = rows /\ durable' = durable /\ torn' = torn
      /\ cursor.page_id < disk.page_count
      /\ cursor' = [cursor EXCEPT !.slot_id = @ + 1]
  BY DEF NextSlot
<1>2. /\ cursor' \in [page_id : Nat, slot_id : Nat]
      /\ cursor'.page_id = cursor.page_id /\ cursor'.slot_id = cursor.slot_id + 1
      /\ cursor.page_id \in File!Pages /\ WellFormed(page)
  BY <1>1, ScanFields, DiskFields, FilePages DEF TableInv, DiskOK
\* What is in a slot is a row, and there is one at most.
<1>3. ASSUME NEW record \in found
      PROVE  /\ Row(cursor.page_id, cursor.slot_id, record) \in ToSet(rows)
             /\ found = {record} /\ ~Mangled(page) /\ record \in Records
  <2> DEFINE i == cursor.slot_id + 1
  <2>1. \A r \in found : i \in DOMAIN page.dir \ Tombstones(page) /\ r \in Stored(page, i)
    BY DEF Read
  <2>2. found = {record}
    BY <1>2, <2>1, StoredOnce
  <2>3. page.dir # <<>>
    BY <2>1, EmptySeq, LenProperties, <1>2, WrittenFields
  <2>4. ~Mangled(page)
    BY <1>2, <2>3, WrittenFields
  <2>5. record \in Records
    BY <2>1 DEF Stored
  <2> QED
    BY <1>2, <2>2, <2>4, <2>5, ScanFields DEF TableInv, SlotsKnown
<1>4. \/ seen' = seen /\ (found = {} \/ Mangled(page))
      \/ \E record \in Records :
            /\ seen' = Append(seen, Row(cursor.page_id, cursor.slot_id, record))
            /\ ~Mangled(page) => record \in found
  BY <1>3 DEF NextSlot
<1>5. /\ seen' \in Seq(RowType)
      /\ InOrder(seen') /\ \A i \in DOMAIN seen' : Before(seen'[i], cursor')
      /\ \A i \in DOMAIN seen' :
            /\ seen'[i].page_id < disk.page_count
            /\ seen'[i] \in ToSet(rows) \/ Mangled(disk.pages[seen'[i].page_id])
      /\ ToSet(seen) \subseteq ToSet(seen')
      /\ \A record \in found : Row(cursor.page_id, cursor.slot_id, record) \in ToSet(seen')
  <2>1. \A i \in DOMAIN seen : Before(seen[i], cursor) /\ Before(seen[i], cursor')
    BY <1>1, CursorMoves, ScanFields DEF TableInv, ScanOK
  <2>2. CASE seen' = seen /\ (found = {} \/ Mangled(page))
    <3>1. found = {}
      BY <1>3, <2>2
    <3> QED
      BY <2>1, <2>2, <3>1, ScanFields DEF TableInv, ScanOK
  <2>3. ASSUME NEW record \in Records, ~Mangled(page) => record \in found,
               seen' = Append(seen, Row(cursor.page_id, cursor.slot_id, record))
        PROVE  /\ seen' \in Seq(RowType)
               /\ InOrder(seen') /\ \A i \in DOMAIN seen' : Before(seen'[i], cursor')
               /\ \A i \in DOMAIN seen' :
                     /\ seen'[i].page_id < disk.page_count
                     /\ seen'[i] \in ToSet(rows) \/ Mangled(disk.pages[seen'[i].page_id])
               /\ ToSet(seen) \subseteq ToSet(seen')
               /\ \A r \in found : Row(cursor.page_id, cursor.slot_id, r) \in ToSet(seen')
    <3> DEFINE row == Row(cursor.page_id, cursor.slot_id, record)
    <3>1. /\ row \in RowType
          /\ row.page_id = cursor.page_id /\ row.slot_id = cursor.slot_id
      BY ScanFields DEF Row, RowType
    <3>2. row \in ToSet(rows) \/ Mangled(disk.pages[row.page_id])
      BY <1>3, <2>3, <3>1
    <3>3. \A r \in found : Row(cursor.page_id, cursor.slot_id, r) = row
      BY <1>3, <2>3
    <3>4. seen' = Append(seen, row)
      BY <2>3
    <3> HIDE DEF row, found
    <3>5. Before(row, cursor')
      BY <1>2, <3>1, ScanFields DEF Before
    <3>6. \A i \in DOMAIN seen : Before(seen[i], row)
      BY <2>1, <3>1 DEF Before
    <3>7. /\ seen' \in Seq(RowType) /\ DOMAIN seen' = 1 .. Len(seen) + 1
          /\ \A i \in 1 .. Len(seen) : seen'[i] = seen[i]
          /\ seen'[Len(seen) + 1] = row
          /\ ToSet(seen') = ToSet(seen) \cup {row}
      BY <3>1, <3>4, AppendToSet, ScanFields
    <3>8. \A i \in DOMAIN seen' : i \in DOMAIN seen \/ i = Len(seen) + 1
      BY <3>7, ScanFields
    <3>9. \A i \in DOMAIN seen' : Before(seen'[i], cursor')
      BY <2>1, <3>5, <3>7, <3>8, ScanFields
    <3>10. InOrder(seen')
      <4> SUFFICES ASSUME NEW i \in DOMAIN seen', NEW j \in DOMAIN seen', i < j
                   PROVE  Before(seen'[i], seen'[j])
        BY DEF InOrder
      <4>1. i \in DOMAIN seen /\ seen'[i] = seen[i]
        BY <3>7, <3>8, ScanFields
      <4>2. CASE j \in DOMAIN seen
        BY <3>7, <4>1, <4>2, ScanFields DEF TableInv, ScanOK, InOrder
      <4>3. CASE j = Len(seen) + 1
        BY <3>6, <3>7, <4>1, <4>3
      <4> QED
        BY <3>8, <4>2, <4>3
    <3>11. \A i \in DOMAIN seen' :
              /\ seen'[i].page_id < disk.page_count
              /\ seen'[i] \in ToSet(rows) \/ Mangled(disk.pages[seen'[i].page_id])
      <4> TAKE i \in DOMAIN seen'
      <4>1. CASE i \in DOMAIN seen
        BY <3>7, <4>1, ScanFields DEF TableInv, ScanOK
      <4>2. CASE i = Len(seen) + 1
        BY <1>1, <3>1, <3>2, <3>7, <4>2
      <4> QED
        BY <3>8, <4>1, <4>2
    <3>12. \A r \in found : Row(cursor.page_id, cursor.slot_id, r) \in ToSet(seen')
      BY <3>3, <3>7
    <3> QED
      BY <3>7, <3>9, <3>10, <3>11, <3>12
  <2> QED
    BY <1>4, <2>2, <2>3
<1>6. TypeOK'
  BY <1>1, <1>2, <1>5 DEF TableInv, TypeOK
<1>7. \A r \in due : Before(r, cursor') => r \in ToSet(seen')
  <2> SUFFICES ASSUME NEW r \in due, Before(r, cursor')
               PROVE  r \in ToSet(seen')
    OBVIOUS
  <2>1. r \in RowType /\ r \in ToSet(rows) /\ r.page_id \in Nat /\ r.slot_id \in Nat
    BY TableFields, ScanFields DEF TableInv, ScanOK
  <2>2. CASE Before(r, cursor)
    BY <1>5, <2>2 DEF TableInv, ScanOK
  <2>3. CASE ~Before(r, cursor)
    <3>1. r.page_id = cursor.page_id /\ r.slot_id = cursor.slot_id
      BY <1>2, <2>1, <2>3, ScanFields DEF Before
    <3>2. Readable(disk.pages, r)
      BY <2>1, TableFields DEF TableInv, RowsOK
    <3>3. r.record \in found
      BY <3>1, <3>2 DEF Readable
    <3>4. r = Row(cursor.page_id, cursor.slot_id, r.record)
      BY <2>1, <3>1 DEF RowType, Row
    <3> HIDE DEF found
    <3> QED
      BY <1>5, <3>3, <3>4
  <2> QED
    BY <2>2, <2>3
<1>8. ScanOK'
  BY <1>1, <1>5, <1>7 DEF TableInv, ScanOK
<1> QED
  BY <1>1, <1>6, <1>8, OnlyScanChanges

-----------------------------------------------------------------------------
(* The operating system, and the ends of a process *)

LEMMA WriteBackTable ==
    ASSUME TableInv, NEW page_id \in File!Pages, WriteBack(page_id)
    PROVE  TableInv'
<1> DEFINE count == IF page_id < disk.synced_count THEN disk.synced_count ELSE page_id + 1
<1>1. /\ inserting' = inserting /\ cursor' = cursor /\ seen' = seen /\ due' = due
      /\ rows' = rows /\ durable' = durable /\ torn' = torn
      /\ page_id < disk.page_count
  BY DEF WriteBack, scan
<1>2. /\ disk'.pages = disk.pages /\ disk'.page_count = disk.page_count
      /\ disk'.synced = [disk.synced EXCEPT ![page_id] = disk.pages[page_id]]
      /\ disk'.synced_count = count
      /\ disk' = [disk EXCEPT !.synced = [disk.synced EXCEPT ![page_id] = disk.pages[page_id]],
                              !.synced_count = count]
  <2>1. disk' = File!WriteBack(disk, page_id)
    BY DEF WriteBack
  <2>2. disk' = [disk EXCEPT !.synced = [disk.synced EXCEPT ![page_id] = disk.pages[page_id]],
                             !.synced_count = count]
    BY <2>1 DEF File!WriteBack
  <2> HIDE DEF count
  <2> QED
    BY <2>2, DiskFields DEF TableInv
<1>3. /\ disk.page_count \in 0 .. MaxPages /\ disk.synced_count \in 0 .. MaxPages
      /\ disk.synced_count <= disk.page_count /\ page_id \in Nat
  BY DiskFields, FilePages DEF TableInv, DiskOK
<1>4. /\ count \in 0 .. MaxPages /\ count <= disk.page_count
      /\ disk.synced_count <= count /\ page_id < count
  BY <1>1, <1>3, TablePagesAssumption
<1> HIDE DEF count
<1>5. \A p \in File!Pages :
         disk'.synced[p] = IF p = page_id THEN disk.pages[p] ELSE disk.synced[p]
  BY <1>2, DiskFields DEF TableInv
<1>6. TypeOK'
  <2>1. disk' \in [pages : [File!Pages -> Page], page_count : 0 .. MaxPages,
                   synced : [File!Pages -> Page], synced_count : 0 .. MaxPages]
    <3>1. disk.pages \in [File!Pages -> Page] /\ disk.synced \in [File!Pages -> Page]
      BY DiskFields DEF TableInv
    <3>2. [disk.synced EXCEPT ![page_id] = disk.pages[page_id]] \in [File!Pages -> Page]
      BY <3>1
    <3>3. disk' = [pages |-> disk.pages, page_count |-> disk.page_count,
                   synced |-> [disk.synced EXCEPT ![page_id] = disk.pages[page_id]],
                   synced_count |-> count]
      BY <1>2, DiskFields DEF TableInv
    <3> QED
      BY <1>3, <1>4, <3>1, <3>2, <3>3
  <2> QED
    BY <1>1, <2>1 DEF TableInv, TypeOK
<1>7. DiskOK'
  <2>1. \A p \in File!Pages : p >= count => p # page_id /\ p >= disk.synced_count
    BY <1>3, <1>4, FilePages
  <2> QED
    BY <1>2, <1>4, <1>5, <2>1, GrownReflexive DEF TableInv, DiskOK
<1>8. RowsOK'
  <2>1. \A i \in 1 .. durable :
           rows[i].page_id < disk'.synced_count /\ Readable(disk'.synced, rows[i])
    <3> TAKE i \in 1 .. durable
    <3>1. rows[i] \in RowType /\ rows[i].page_id \in File!Pages /\ rows[i].page_id \in Nat
      BY TableFields, FilePages
    <3>2. rows[i].page_id < disk.synced_count /\ Readable(disk.synced, rows[i])
      BY DEF TableInv, RowsOK
    <3>3. Readable(disk'.synced, rows[i])
      BY <1>5, <3>1, <3>2, KeptWhenGrown, GrownReflexive DEF TableInv, DiskOK
    <3> QED
      BY <1>2, <1>3, <1>4, <3>1, <3>2, <3>3
  <2> QED
    BY <1>1, <1>2, <2>1 DEF TableInv, RowsOK, Readable
<1>9. SlotsKnown' /\ ScanOK' /\ InsertingOK'
  BY <1>1, <1>2 DEF TableInv, SlotsKnown, ScanOK, InsertingOK, LastPage
<1> QED
  BY <1>6, <1>7, <1>8, <1>9 DEF TableInv

LEMMA SizeFirstTable ==
    ASSUME TableInv, SizeFirst
    PROVE  TableInv'
<1>1. /\ inserting' = inserting /\ cursor' = cursor /\ seen' = seen /\ due' = due
      /\ rows' = rows /\ durable' = durable /\ torn' = torn
  BY DEF SizeFirst, scan
<1>2. /\ disk'.pages = disk.pages /\ disk'.page_count = disk.page_count
      /\ disk'.synced = disk.synced /\ disk'.synced_count = disk.page_count
      /\ disk' \in [pages : [File!Pages -> Page], page_count : 0 .. MaxPages,
                    synced : [File!Pages -> Page], synced_count : 0 .. MaxPages]
  BY DiskFields DEF SizeFirst, TableInv, TypeOK
<1>3. /\ disk.page_count \in Nat /\ disk.synced_count \in Nat
      /\ disk.synced_count <= disk.page_count
  BY DiskFields DEF TableInv, DiskOK
<1>4. TypeOK'
  BY <1>1, <1>2 DEF TableInv, TypeOK
<1>5. DiskOK'
  <2>1. \A p \in File!Pages : p >= disk.page_count => p >= disk.synced_count
    BY <1>3, FilePages
  <2> QED
    BY <1>2, <1>3, <2>1 DEF TableInv, DiskOK
<1>6. RowsOK'
  <2>1. \A i \in 1 .. durable : rows[i].page_id < disk.page_count
    BY TableFields
  <2> QED
    BY <1>1, <1>2, <2>1 DEF TableInv, RowsOK, Readable
<1>7. SlotsKnown' /\ ScanOK' /\ InsertingOK'
  BY <1>1, <1>2 DEF TableInv, SlotsKnown, ScanOK, InsertingOK, LastPage
<1> QED
  BY <1>4, <1>5, <1>6, <1>7 DEF TableInv

LEMMA NewProcessScan ==
    ASSUME NewProcess
    PROVE  /\ cursor' \in [page_id : Nat, slot_id : Nat]
           /\ seen' \in Seq(RowType) /\ due' \subseteq RowType
           /\ inserting' = NoRecord
           /\ InsertingOK' /\ ScanOK'
<1>1. <<>> \in Seq(RowType) /\ DOMAIN <<>> = {} /\ ToSet(<<>>) = {}
  <2>1. <<>> \in Seq(RowType) /\ DOMAIN <<>> = 1 .. 0
    BY EmptySeq, LenProperties
  <2> QED
    BY <2>1 DEF ToSet
<1>2. seen' = <<>> /\ due' = {} /\ cursor' = Start /\ inserting' = NoRecord
  BY DEF NewProcess
<1> QED
  BY <1>1, <1>2 DEF InsertingOK, ScanOK, InOrder, Start

LEMMA ProcessExitTable ==
    ASSUME TableInv, ProcessExit
    PROVE  TableInv'
<1>1. NewProcess /\ disk' = disk /\ rows' = rows /\ durable' = durable /\ torn' = torn
  BY DEF ProcessExit
<1>2. TypeOK'
  BY <1>1, NewProcessScan DEF TableInv, TypeOK
<1> QED
  BY <1>1, <1>2, NewProcessScan DEF TableInv, DiskOK, RowsOK, SlotsKnown, Readable

(* A list in the order of a scan, as long as a set it is of, is all of it. *)
LEMMA OrderedList ==
    ASSUME NEW S \in SUBSET RowType, IsFiniteSet(S),
           NEW list \in [1 .. Cardinality(S) -> S], InOrder(list)
    PROVE  list \in Seq(RowType) /\ ToSet(list) = S
<1>1. Cardinality(S) \in Nat
  BY FS_CardinalityType
<1>2. list \in Seq(RowType) /\ DOMAIN list = 1 .. Cardinality(S)
  BY <1>1
<1>3. \A row \in RowType : ~Before(row, row)
  BY DEF Before, RowType
<1>4. \A i, j \in DOMAIN list : list[i] = list[j] => i = j
  BY <1>1, <1>2, <1>3 DEF InOrder
<1>5. list \in Injection(1 .. Cardinality(S), S)
  BY <1>4 DEF Injection, IsInjective
<1>6. Cardinality(1 .. Cardinality(S)) = Cardinality(S) /\ IsFiniteSet(1 .. Cardinality(S))
  BY <1>1, FS_Interval
<1>7. list \in Surjection(1 .. Cardinality(S), S)
  BY <1>5, <1>6, FS_Injection
<1> QED
  BY <1>2, <1>7 DEF Surjection, ToSet

\* all is s followed by t.
Joined(all, s, t) ==
    /\ Len(all) = Len(s) + Len(t) /\ DOMAIN all = 1 .. Len(s) + Len(t)
    /\ Len(s) \in Nat /\ Len(t) \in Nat
    /\ \A i \in 1 .. Len(s) : all[i] = s[i]
    /\ \A i \in DOMAIN all : i \in 1 .. Len(s) \/ all[i] \in ToSet(t)
    /\ ToSet(all) = ToSet(s) \cup ToSet(t)

LEMMA ConcatSet ==
    ASSUME NEW S, NEW s \in Seq(S), NEW t \in Seq(S), NEW all, all = s \o t
    PROVE  all \in Seq(S) /\ Joined(all, s, t)
<1>1. /\ Len(s) \in Nat /\ DOMAIN s = 1 .. Len(s)
      /\ Len(t) \in Nat /\ DOMAIN t = 1 .. Len(t)
  BY LenProperties
<1>2. /\ all \in Seq(S) /\ Len(all) = Len(s) + Len(t)
      /\ \A i \in 1 .. Len(s) + Len(t) :
            all[i] = IF i <= Len(s) THEN s[i] ELSE t[i - Len(s)]
  BY ConcatProperties
<1>3. DOMAIN all = 1 .. Len(s) + Len(t)
  BY <1>2, LenProperties
<1>4. \A i \in 1 .. Len(s) : i \in DOMAIN all /\ all[i] = s[i]
  BY <1>1, <1>2, <1>3
<1>5. \A i \in 1 .. Len(t) : Len(s) + i \in DOMAIN all /\ all[Len(s) + i] = t[i]
  <2> TAKE i \in 1 .. Len(t)
  <2>1. /\ Len(s) + i \in 1 .. Len(s) + Len(t)
        /\ ~(Len(s) + i <= Len(s)) /\ Len(s) + i - Len(s) = i
    BY <1>1
  <2> QED
    BY <1>2, <1>3, <2>1
<1>6. \A i \in DOMAIN all : i \in 1 .. Len(s) \/ \E j \in 1 .. Len(t) : all[i] = t[j]
  <2> SUFFICES ASSUME NEW i \in DOMAIN all, i \notin 1 .. Len(s)
               PROVE  \E j \in 1 .. Len(t) : all[i] = t[j]
    OBVIOUS
  <2>1. i - Len(s) \in 1 .. Len(t) /\ ~(i <= Len(s)) /\ i \in 1 .. Len(s) + Len(t)
    BY <1>1, <1>3
  <2> QED
    BY <1>2, <2>1
<1>7. \A i \in DOMAIN all : i \in 1 .. Len(s) \/ all[i] \in ToSet(t)
  BY <1>1, <1>6 DEF ToSet
<1>8. ToSet(all) = ToSet(s) \cup ToSet(t)
  <2>1. ToSet(all) \subseteq ToSet(s) \cup ToSet(t)
    BY <1>1, <1>4, <1>7 DEF ToSet
  <2>2. ToSet(s) \subseteq ToSet(all)
    BY <1>1, <1>4 DEF ToSet
  <2>3. ToSet(t) \subseteq ToSet(all)
    BY <1>1, <1>5 DEF ToSet
  <2> QED
    BY <2>1, <2>2, <2>3
<1> QED
  BY <1>1, <1>2, <1>3, <1>4, <1>7, <1>8 DEF Joined

LEMMA FiniteUnion ==
    ASSUME NEW D, IsFiniteSet(D), NEW f, \A d \in D : IsFiniteSet(f[d])
    PROVE  IsFiniteSet(UNION {f[d] : d \in D})
<1> DEFINE T == {f[d] : d \in D}
           g == [d \in D |-> f[d]]
<1>1. g \in Surjection(D, T)
  BY DEF Surjection
<1>2. IsFiniteSet(T)
  BY <1>1, FS_Surjection
<1> QED
  BY <1>2, FS_UNION

(* Finitely many rows are found, one in a slot. *)
LEMMA FoundFinite ==
    ASSUME NEW pages, \A p \in File!Pages : WellFormed(pages[p])
    PROVE  IsFiniteSet(Found(pages))
<1>1. ASSUME NEW p \in File!Pages
      PROVE  IsFiniteSet(FoundIn(pages, p))
  <2> DEFINE D == DOMAIN pages[p].dir
             f == [i \in D |-> {Row(p, i - 1, record) : record \in Read(pages, p, i - 1)}]
  <2>1. IsFiniteSet(D)
    <3>1. D = 1 .. Len(pages[p].dir) /\ Len(pages[p].dir) \in Nat
      BY WrittenFields
    <3> QED
      BY <3>1, FS_Interval
  <2>2. \A i \in D : IsFiniteSet(f[i])
    <3> TAKE i \in D
    <3>1. CASE Read(pages, p, i - 1) = {}
      BY <3>1, FS_EmptySet
    <3>2. CASE Read(pages, p, i - 1) # {}
      <4>1. PICK record \in Read(pages, p, i - 1) : TRUE
        BY <3>2
      <4>2. \A other \in Read(pages, p, i - 1) : other = record
        BY <4>1, StoredOnce DEF Read
      <4>3. {Row(p, i - 1, other) : other \in Read(pages, p, i - 1)}
                = {Row(p, i - 1, record)}
        BY <4>1, <4>2
      <4>4. IsFiniteSet({Row(p, i - 1, record)})
        BY FS_Singleton
      <4> QED
        BY <4>3, <4>4
    <3> QED
      BY <3>1, <3>2
  <2>3. FoundIn(pages, p) = UNION {f[i] : i \in D}
    BY DEF FoundIn
  <2> HIDE DEF D, f
  <2> QED
    BY <2>1, <2>2, <2>3, FiniteUnion
<1> DEFINE g == [p \in File!Pages |-> FoundIn(pages, p)]
<1>2. IsFiniteSet(File!Pages)
  BY FS_Interval, TablePagesAssumption DEF File!Pages
<1>3. \A p \in File!Pages : IsFiniteSet(g[p])
  BY <1>1
<1>4. Found(pages) = UNION {g[p] : p \in File!Pages}
  BY DEF Found
<1> HIDE DEF g
<1> QED
  BY <1>2, <1>3, <1>4, FiniteUnion

(* A power loss leaves of every page what the device had, or more. *)
LEMMA AfterLoss ==
    ASSUME TableInv, PowerLoss
    PROVE  /\ disk'.pages = disk'.synced
           /\ disk'.page_count = disk.synced_count /\ disk'.synced_count = disk.synced_count
           /\ disk' \in [pages : [File!Pages -> Page], page_count : 0 .. MaxPages,
                         synced : [File!Pages -> Page], synced_count : 0 .. MaxPages]
           /\ \A p \in File!Pages :
                 /\ WellFormed(disk'.pages[p]) /\ Grown(disk.synced[p], disk'.pages[p])
                 /\ p >= disk.synced_count => disk'.pages[p].free_space_end = 0
<1>1. \A p \in File!Pages :
         /\ WellFormed(disk.synced[p]) /\ WellFormed(disk.pages[p])
         /\ Grown(disk.synced[p], disk.synced[p]) /\ Grown(disk.synced[p], disk.pages[p])
         /\ p >= disk.synced_count => disk.synced[p].free_space_end = 0
  BY GrownReflexive DEF TableInv, DiskOK
<1>2. CASE disk' = File!AfterPowerLoss(disk)
  <2>1. /\ disk'.pages = disk.synced /\ disk'.synced = disk.synced
        /\ disk'.page_count = disk.synced_count /\ disk'.synced_count = disk.synced_count
        /\ disk' \in [pages : [File!Pages -> Page], page_count : 0 .. MaxPages,
                      synced : [File!Pages -> Page], synced_count : 0 .. MaxPages]
    BY <1>2, DiskFields DEF File!AfterPowerLoss, TableInv, TypeOK
  <2> QED
    BY <1>1, <2>1
<1>3. ASSUME NEW page_id \in 0 .. disk.synced_count - 1,
             NEW page \in PartlyWritten(disk.synced[page_id], disk.pages[page_id]),
             disk' = File!AfterPowerLoss([disk EXCEPT !.synced[page_id] = page])
      PROVE  /\ disk'.pages = disk'.synced
             /\ disk'.page_count = disk.synced_count /\ disk'.synced_count = disk.synced_count
             /\ disk' \in [pages : [File!Pages -> Page], page_count : 0 .. MaxPages,
                           synced : [File!Pages -> Page], synced_count : 0 .. MaxPages]
             /\ \A p \in File!Pages :
                   /\ WellFormed(disk'.pages[p]) /\ Grown(disk.synced[p], disk'.pages[p])
                   /\ p >= disk.synced_count => disk'.pages[p].free_space_end = 0
  <2>1. page_id \in File!Pages /\ page_id \in Nat /\ page_id < disk.synced_count
    BY DiskFields, FilePages DEF TableInv
  <2>2. WellFormed(page) /\ Grown(disk.synced[page_id], page)
    BY <1>1, <2>1, MixtureGrows
  <2> DEFINE synced == [disk.synced EXCEPT ![page_id] = page]
  <2>3. synced \in [File!Pages -> Page]
    BY <2>2, DiskFields DEF TableInv, WellFormed
  <2>4. /\ disk'.pages = synced /\ disk'.synced = synced
        /\ disk'.page_count = disk.synced_count /\ disk'.synced_count = disk.synced_count
        /\ disk' \in [pages : [File!Pages -> Page], page_count : 0 .. MaxPages,
                      synced : [File!Pages -> Page], synced_count : 0 .. MaxPages]
    <3>1. [disk EXCEPT !.synced[page_id] = page] =
             [pages |-> disk.pages, page_count |-> disk.page_count,
              synced |-> synced, synced_count |-> disk.synced_count]
      BY DiskFields DEF TableInv
    <3> HIDE DEF synced
    <3>2. disk' = [pages |-> synced, page_count |-> disk.synced_count,
                   synced |-> synced, synced_count |-> disk.synced_count]
      BY <1>3, <3>1 DEF File!AfterPowerLoss
    <3> QED
      BY <2>3, <3>2, DiskFields DEF TableInv
  <2>5. \A p \in File!Pages : synced[p] = IF p = page_id THEN page ELSE disk.synced[p]
    BY DiskFields DEF TableInv
  <2>6. \A p \in File!Pages : p >= disk.synced_count => p # page_id
    BY <2>1, FilePages, DiskFields DEF TableInv
  <2> HIDE DEF synced
  <2> QED
    BY <1>1, <2>2, <2>4, <2>5, <2>6
<1> QED
  BY <1>2, <1>3 DEF PowerLoss

LEMMA PowerLossTable ==
    ASSUME TableInv, PowerLoss
    PROVE  TableInv'
<1> DEFINE flushed == SubSeq(rows, 1, durable)
           others == Found(disk'.pages) \ ToSet(flushed)
<1>1. NewProcess /\ durable' = durable /\ torn' \in Nat
  BY DEF PowerLoss, TableInv, TypeOK
<1>2. PICK found \in [1 .. Cardinality(others) -> others] :
         InOrder(found) /\ rows' = flushed \o found
  BY DEF PowerLoss
<1>3. /\ disk'.pages = disk'.synced
      /\ disk'.page_count = disk.synced_count /\ disk'.synced_count = disk.synced_count
      /\ disk' \in [pages : [File!Pages -> Page], page_count : 0 .. MaxPages,
                    synced : [File!Pages -> Page], synced_count : 0 .. MaxPages]
      /\ \A p \in File!Pages :
            /\ WellFormed(disk'.pages[p]) /\ Grown(disk.synced[p], disk'.pages[p])
            /\ p >= disk.synced_count => disk'.pages[p].free_space_end = 0
  BY AfterLoss
<1>4. /\ flushed \in Seq(RowType) /\ Len(flushed) = durable
      /\ \A i \in 1 .. durable : flushed[i] = rows[i]
  <2>1. durable \in Int /\ durable >= 0 /\ \A i \in 1 .. durable : rows[i] \in RowType
    BY TableFields
  <2>2. /\ SubSeq(rows, 1, durable) \in Seq(RowType)
        /\ Len(SubSeq(rows, 1, durable)) = IF 1 <= durable THEN durable - 1 + 1 ELSE 0
        /\ \A i \in 1 .. durable - 1 + 1 : SubSeq(rows, 1, durable)[i] = rows[1 + i - 1]
    BY <2>1, SubSeqProperties
  <2> QED
    BY <2>1, <2>2
\* What is found is a row whose slot leads to it.
<1>5. \A row \in Found(disk'.pages) :
         /\ row \in RowType /\ row.page_id \in File!Pages /\ Readable(disk'.pages, row)
         /\ row.page_id < disk.synced_count
  <2> SUFFICES ASSUME NEW p \in File!Pages, NEW i \in DOMAIN disk'.pages[p].dir,
                      NEW record \in Read(disk'.pages, p, i - 1)
               PROVE  /\ Row(p, i - 1, record) \in RowType
                      /\ Row(p, i - 1, record).page_id = p
                      /\ Readable(disk'.pages, Row(p, i - 1, record))
                      /\ p < disk.synced_count
    BY DEF Found, FoundIn
  <2>1. i \in Nat /\ i > 0 /\ record \in Records /\ p \in Nat
    BY <1>3, WrittenFields, FilePages DEF Read, Stored
  <2>2. Row(p, i - 1, record) \in RowType
    BY <2>1 DEF Row, RowType
  <2>3. p < disk.synced_count
    <3>1. disk'.pages[p].dir # <<>>
      BY EmptySeq, LenProperties, <1>3, WrittenFields
    <3>2. disk'.pages[p].free_space_end # 0
      BY <1>3, <3>1, WrittenFields
    <3> QED
      BY <1>3, <2>1, <3>2, DiskFields DEF TableInv
  <2> QED
    BY <2>2, <2>3 DEF Row, Readable
<1>6. found \in Seq(RowType) /\ ToSet(found) = others
  <2>1. IsFiniteSet(others)
    BY <1>3, FoundFinite, FS_Difference
  <2>2. others \in SUBSET RowType
    BY <1>5
  <2> HIDE DEF others
  <2> QED
    BY <1>2, <2>1, <2>2, OrderedList
<1> HIDE DEF flushed
<1>7. /\ rows' \in Seq(RowType) /\ Len(rows') = durable + Len(found)
      /\ DOMAIN rows' = 1 .. durable + Len(found) /\ Len(found) \in Nat
      /\ \A i \in 1 .. durable : rows'[i] = rows[i]
      /\ \A i \in DOMAIN rows' : i \in 1 .. durable \/ rows'[i] \in others
      /\ ToSet(rows') = ToSet(flushed) \cup others
  <2> HIDE DEF others
  <2>1. rows' \in Seq(RowType) /\ Joined(rows', flushed, found)
    <3>1. flushed \in Seq(RowType) /\ found \in Seq(RowType) /\ rows' = flushed \o found
      BY <1>2, <1>4, <1>6
    <3> QED
      BY <3>1, ConcatSet
  <2>2. /\ rows' \in Seq(RowType) /\ Len(rows') = durable + Len(found)
        /\ DOMAIN rows' = 1 .. durable + Len(found) /\ Len(found) \in Nat
        /\ \A i \in 1 .. durable : rows'[i] = flushed[i]
        /\ \A i \in DOMAIN rows' : i \in 1 .. durable \/ rows'[i] \in ToSet(found)
        /\ ToSet(rows') = ToSet(flushed) \cup ToSet(found)
    BY <1>4, <2>1 DEF Joined
  <2> QED
    BY <1>4, <1>6, <2>2
<1>8. TypeOK'
  <2>1. durable' \in 0 .. Len(rows')
    BY <1>1, <1>7, TableFields
  <2> QED
    BY <1>1, <1>3, <1>7, <2>1, NewProcessScan DEF TypeOK
<1>9. DiskOK'
  <2>1. disk.synced_count <= disk.synced_count
    BY DiskFields DEF TableInv
  <2> QED
    BY <1>3, <2>1, GrownReflexive DEF DiskOK
<1>10. RowsOK'
  <2>1. \A i \in 1 .. durable :
           rows'[i].page_id < disk.synced_count /\ Readable(disk'.pages, rows'[i])
    <3> TAKE i \in 1 .. durable
    <3>1. /\ rows[i] \in RowType /\ rows[i].page_id \in File!Pages
          /\ rows[i].page_id < disk.synced_count /\ Readable(disk.synced, rows[i])
      BY TableFields DEF TableInv, RowsOK
    <3>2. Readable(disk'.pages, rows[i])
      BY <1>3, <3>1, KeptWhenGrown DEF TableInv, DiskOK
    <3> QED
      BY <1>7, <3>1, <3>2
  <2>2. \A i \in DOMAIN rows' :
           rows'[i].page_id < disk.synced_count /\ Readable(disk'.pages, rows'[i])
    BY <1>5, <1>7, <2>1
  <2> QED
    BY <1>1, <1>3, <2>1, <2>2 DEF RowsOK, Readable
<1>11. SlotsKnown'
  <2> SUFFICES ASSUME NEW p \in File!Pages, NEW s \in Nat,
                      NEW r \in Read(disk'.pages, p, s)
               PROVE  Row(p, s, r) \in ToSet(rows')
    BY DEF SlotsKnown
  <2>1. s + 1 \in DOMAIN disk'.pages[p].dir /\ s + 1 - 1 = s
    BY DEF Read
  <2> DEFINE slotRows(i) ==
                {Row(p, i - 1, record) : record \in Read(disk'.pages, p, i - 1)}
  <2>2. Row(p, s, r) \in slotRows(s + 1)
    BY <2>1
  <2>3. slotRows(s + 1) \in {slotRows(i) : i \in DOMAIN disk'.pages[p].dir}
    BY <2>1
  <2>4. Row(p, s, r) \in FoundIn(disk'.pages, p)
    BY <2>2, <2>3 DEF FoundIn
  <2>5. Row(p, s, r) \in Found(disk'.pages)
    BY <2>4 DEF Found
  <2> QED
    BY <1>7, <2>5
<1> QED
  BY <1>1, <1>8, <1>9, <1>10, <1>11, NewProcessScan DEF TableInv

-----------------------------------------------------------------------------
LEMMA NextTable == TableInv /\ [Next]_vars => TableInv'
<1> SUFFICES ASSUME TableInv, [Next]_vars
             PROVE  TableInv'
  OBVIOUS
<1>1. CASE \E record \in Records :
              InsertInLast(record) \/ AllocatePage(record) \/ InsertCutShort(record)
  BY <1>1, InsertInLastTable, AllocatePageTable, InsertCutShortTable
<1>2. CASE InsertInNew \/ InsertFails \/ Flush
  BY <1>2, InsertInNewTable, InsertFailsTable, FlushTable
<1>3. CASE OpenScan \/ NextSlot \/ NextPage
  BY <1>3, OpenScanTable, NextSlotTable, NextPageTable
<1>4. CASE \E page_id \in File!Pages : WriteBack(page_id)
  BY <1>4, WriteBackTable
<1>5. CASE SizeFirst \/ ProcessExit \/ PowerLoss
  BY <1>5, SizeFirstTable, ProcessExitTable, PowerLossTable
<1>6. CASE UNCHANGED vars
  <2>1. TypeOK' /\ ScanOK'
    BY <1>6 DEF vars, TableInv, TypeOK, ScanOK
  <2> QED
    BY <1>6, <2>1, OnlyScanChanges DEF vars
<1> QED
  BY <1>1, <1>2, <1>3, <1>4, <1>5, <1>6 DEF Next

LEMMA TableInvariant == Spec => []TableInv
<1> QED
  BY InitTable, NextTable, PTL DEF Spec

(* Every RID that insert returned leads to its record, through later rows,
   failures, writes cut short and the ends of processes; after a power loss also,
   of the rows that were flushed, and of those found. *)
THEOREM RowsReadableHolds == Spec => []RowsReadable
<1>1. TableInv => RowsReadable
  BY DEF TableInv, RowsOK, RowsReadable
<1> QED
  BY <1>1, TableInvariant, PTL

(* A scan returns no slot twice and, of the pages with a header, only rows of the
   table; at its end it has returned all that were there when it was opened,
   whatever it met in a page without a header (next). *)
THEOREM ScanCompleteHolds == Spec => []ScanComplete
<1>1. ASSUME TableInv
      PROVE  ScanComplete
  <2>1. \A i \in DOMAIN seen :
           \/ \E j \in DOMAIN rows : seen[i] = rows[j]
           \/ Mangled(disk.pages[seen[i].page_id])
    BY <1>1 DEF TableInv, ScanOK, ToSet
  <2>2. ASSUME ScanEnded, NEW row \in due
        PROVE  \E i \in DOMAIN seen : seen[i] = row
    <3>1. /\ row \in RowType /\ row.page_id < disk.page_count
          /\ row.page_id \in Nat /\ disk.page_count \in Nat
      BY <1>1, TableFields, ScanFields, DiskFields DEF TableInv, ScanOK
    <3>2. row.page_id < cursor.page_id
      BY <1>1, <2>2, <3>1, ScanFields DEF ScanEnded
    <3>3. Before(row, cursor)
      BY <3>2 DEF Before
    <3> QED
      BY <1>1, <3>3 DEF TableInv, ScanOK, ToSet
  <2> QED
    BY <1>1, <2>1, <2>2 DEF TableInv, ScanOK, ScanComplete
<1>2. TableInv => ScanComplete
  BY <1>1
<1> QED
  BY <1>2, TableInvariant, PTL

=============================================================================
