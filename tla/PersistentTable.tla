-------------------------- MODULE PersistentTable --------------------------
(***************************************************************************)
(* A table of rows in slotted pages (src/query/persistent_table.cpp),      *)
(* written straight to its file: there is no pool.  insert appends to the  *)
(* last page or to a new one; a cursor walks the pages from the first to   *)
(* the last, while rows are inserted.                                      *)
(*                                                                         *)
(* insert makes up to two writes, and the process may stop between them.   *)
(* The file is DiskManager's value, with slotted pages as its contents.  A *)
(* power loss may find the device in the middle of writing a page, or with *)
(* a page of zeros.                                                        *)
(***************************************************************************)
EXTENDS SlottedPage

CONSTANTS MaxPages,     \* pages the device has room for
          MayFail,      \* whether pwrite may fail, and the process end, half-way
          MayLosePower,
          ZeroPages,    \* whether the file may grow on the device before its data
          MaxTorn,      \* bound: pages the device may be found writing
          MaxGarbage    \* bound: slots a scan tries of a page without a header

ASSUME TablePagesAssumption == MaxPages \in Nat \ {0}
\* A tuple is never encoded in no bytes.
ASSUME TuplesAssumption == \A record \in Records : record.length > 0
ASSUME EventsAssumption ==
    {MayFail, MayLosePower, ZeroPages} \subseteq BOOLEAN /\ {MaxTorn, MaxGarbage} \subseteq Nat

\* A page the device never received.
ZeroPage == [FormattedPage EXCEPT !.free_space_end = 0]

\* A page of zeros after Page::insert: the record lies over the header, and the
\* code takes its bytes for the end of the records and the number of slots.  What
\* it does with such a page depends on them: the page is opaque here.
MangledPage == [FormattedPage EXCEPT !.free_space_end = -1]

Mangled(page) == page.free_space_end = MangledPage.free_space_end

\* The page has the header that Page's constructor gives it.
Written(page) == page.free_space_end >= HEADER_SIZE

File == INSTANCE DiskManager WITH
            Values <- {}, Fresh <- FormattedPage, Hole <- ZeroPage, Torn <- ZeroPage

VARIABLES
    disk,       \* the file, and what the device holds of it
    inserting,  \* the record insert has allocated a page for, or NoRecord
    cursor,     \* where the open scan is
    seen,       \* the rows it has returned
    due,        \* history: the rows that were there when it was opened
    rows,       \* history: the RIDs insert has returned, with their records, but
                \*   for those in a page that had no header
    durable,    \* history: how many of them were there at the last flush
    torn        \* how many pages the device was found writing

vars == <<disk, inserting, cursor, seen, due, rows, durable, torn>>

scan == <<cursor, seen, due>>

NoRecord == Zero

Start == [page_id |-> 0, slot_id |-> 0]

LastPage == disk.page_count - 1

Row(page_id, slot_id, record) ==
    [page_id |-> page_id, slot_id |-> slot_id, record |-> record]

-----------------------------------------------------------------------------
\* read: std::nullopt for a page, a slot or a record that is not there.
Read(pages, page_id, slot_id) ==
    LET page == pages[page_id]
    IN  IF slot_id + 1 \in DOMAIN page.dir \ Tombstones(page)
        THEN Stored(page, slot_id + 1)
        ELSE {}

Readable(pages, row) == row.record \in Read(pages, row.page_id, row.slot_id)

Init ==
    /\ disk = File!EmptyDisk
    /\ inserting = NoRecord
    /\ cursor = Start /\ seen = <<>> /\ due = {}
    /\ rows = <<>> /\ durable = 0 /\ torn = 0

\* The slot id page.insert returns.
SlotFor(page) ==
    IF Reuses(page) THEN Min(Tombstones(page)) - 1 ELSE Len(page.dir)

\* Page::insert, with or without a header.
Placed(page, record) ==
    IF Written(page) THEN insert(page, record) ELSE MangledPage

\* page.insert and write_page, on a copy of the last page of the file.
Place(record) ==
    LET page == disk.pages[LastPage]
    IN  /\ disk' = File!WritePage(disk, LastPage, Placed(page, record))
        /\ rows' = IF Written(page)
                   THEN Append(rows, Row(LastPage, SlotFor(page), record))
                   ELSE rows

HasRoom(record) ==
    disk.page_count > 0 /\ can_fit(disk.pages[LastPage], record.length)

\* The bytes of a record decide whether can_fit holds.
LastMangled == disk.page_count > 0 /\ Mangled(disk.pages[LastPage])

InsertInLast(record) ==
    /\ inserting = NoRecord
    /\ HasRoom(record) \/ LastMangled
    /\ Place(record)
    /\ UNCHANGED <<inserting, scan, durable, torn>>

\* No page, or no room on the last one.
AllocatePage(record) ==
    /\ inserting = NoRecord
    /\ ~HasRoom(record) \/ LastMangled
    /\ disk.page_count < MaxPages
    /\ disk' = File!AllocatePage(disk)
    /\ inserting' = record
    /\ UNCHANGED <<scan, rows, durable, torn>>

InsertInNew ==
    /\ inserting # NoRecord
    /\ HasRoom(inserting)
    /\ Place(inserting)
    /\ inserting' = NoRecord
    /\ UNCHANGED <<scan, durable, torn>>

\* The write fails, or the record is too large for any page: the exception
\* leaves the new page behind.
InsertFails ==
    /\ inserting # NoRecord
    /\ MayFail \/ ~HasRoom(inserting)
    /\ inserting' = NoRecord
    /\ UNCHANGED <<disk, scan, rows, durable, torn>>

\* The page as it is after a short pwrite, whose bytes go from the header to the
\* end of the page, where the new entry is.
CutShort(old, new) ==
    [new EXCEPT !.dir = [i \in DOMAIN @ |-> IF i \in DOMAIN old.dir THEN old.dir[i]
                                           ELSE [offset |-> 0, length |-> 0]]]

\* pwrite stops short and write_at throws.  (Where all that has changed is
\* written, the file is as if the row had been inserted.)
InsertCutShort(record) ==
    LET page == disk.pages[LastPage]
    IN  /\ MayFail
        /\ inserting \in {NoRecord, record}
        /\ HasRoom(record) \/ LastMangled
        /\ disk' = File!WritePage(disk, LastPage, CutShort(page, Placed(page, record)))
        /\ inserting' = NoRecord
        /\ UNCHANGED <<scan, rows, durable, torn>>

\* DiskManager::flush, after each command of the CLI.
Flush ==
    /\ inserting = NoRecord
    /\ disk' = File!Flush(disk)
    /\ durable' = Len(rows)
    /\ UNCHANGED <<inserting, scan, rows, torn>>

-----------------------------------------------------------------------------
(* SeqScan::open and PersistentTable::next *)

OpenScan ==
    /\ inserting = NoRecord
    /\ cursor' = Start /\ seen' = <<>>
    /\ due' = {rows[i] : i \in DOMAIN rows}
    /\ UNCHANGED <<disk, inserting, rows, durable, torn>>

\* Mutant: the slot is not set back on the next page.
SlotKept == cursor.slot_id

FirstSlot == 0

\* slot_count: of a page without a header, whatever the record's bytes say.
SlotsToTry(page) == IF Mangled(page) THEN MaxGarbage ELSE Len(page.dir)

\* One turn of the loops of next: a record is returned or skipped, or the page
\* is done.  In a page without a header any bytes may be taken for a record.
NextSlot ==
    LET page == disk.pages[cursor.page_id]
        found == Read(disk.pages, cursor.page_id, cursor.slot_id)
    IN  /\ inserting = NoRecord
        /\ cursor.page_id < disk.page_count
        /\ cursor.slot_id < SlotsToTry(page)
        /\ cursor' = [cursor EXCEPT !.slot_id = @ + 1]
        /\ \/ (found = {} \/ Mangled(page)) /\ seen' = seen
           \/ \E record \in IF Mangled(page) THEN Records ELSE found :
                 seen' = Append(seen, Row(cursor.page_id, cursor.slot_id, record))
        /\ UNCHANGED <<disk, inserting, due, rows, durable, torn>>

\* A page without a header may be done at any time.
NextPage ==
    /\ inserting = NoRecord
    /\ cursor.page_id < disk.page_count
    /\ cursor.slot_id >= Len(disk.pages[cursor.page_id].dir)
    /\ cursor' = [page_id |-> cursor.page_id + 1, slot_id |-> FirstSlot]
    /\ UNCHANGED <<disk, inserting, seen, due, rows, durable, torn>>

ScanEnded == cursor.page_id >= disk.page_count

-----------------------------------------------------------------------------
(* The operating system, and the ends of a process *)

WriteBack(page_id) ==
    /\ MayLosePower
    /\ page_id < disk.page_count
    /\ disk' = File!WriteBack(disk, page_id)
    /\ UNCHANGED <<inserting, scan, rows, durable, torn>>

SizeFirst ==
    /\ MayLosePower /\ ZeroPages
    /\ disk' = [disk EXCEPT !.synced_count = disk.page_count]
    /\ UNCHANGED <<inserting, scan, rows, durable, torn>>

NewProcess == inserting' = NoRecord /\ cursor' = Start /\ seen' = <<>> /\ due' = {}

ProcessExit ==
    /\ MayFail
    /\ NewProcess
    /\ UNCHANGED <<disk, rows, durable, torn>>

\* What is on the device of a page it was writing: of the header, the directory
\* and the records, each as it was or as it became.
PartlyWritten(old, new) ==
    {[free_space_end |-> header.free_space_end,
      free_slot_count |-> header.free_slot_count,
      dir |-> [i \in DOMAIN header.dir |->
                  IF i \in DOMAIN entries.dir THEN entries.dir[i]
                  ELSE [offset |-> 0, length |-> 0]],
      data |-> records.data] :
        header \in {old, new}, entries \in {old, new}, records \in {old, new}}

\* The rows the slots of a file lead to.
FoundIn(pages, page_id) ==
    UNION {{Row(page_id, i - 1, record) : record \in Read(pages, page_id, i - 1)} :
              i \in DOMAIN pages[page_id].dir}

Found(pages) == UNION {FoundIn(pages, page_id) : page_id \in File!Pages}

Before(row, other) ==
    \/ row.page_id < other.page_id
    \/ row.page_id = other.page_id /\ row.slot_id < other.slot_id

InOrder(list) == \A i, j \in DOMAIN list : i < j => Before(list[i], list[j])

\* Of the rows that were not flushed any may be left; a slot may also lead to a
\* record of an earlier row that was lost.
PowerLoss ==
    /\ MayLosePower
    /\ \/ disk' = File!AfterPowerLoss(disk) /\ UNCHANGED torn
       \/ /\ torn < MaxTorn /\ torn' = torn + 1
          /\ \E page_id \in 0 .. disk.synced_count - 1 :
             \E page \in PartlyWritten(disk.synced[page_id], disk.pages[page_id]) :
                 disk' = File!AfterPowerLoss([disk EXCEPT !.synced[page_id] = page])
    /\ NewProcess
    /\ LET flushed == SubSeq(rows, 1, durable)
           others == Found(disk'.pages) \ ToSet(flushed)
       IN  \E found \in [1 .. Cardinality(others) -> others] :
               InOrder(found) /\ rows' = flushed \o found
    /\ UNCHANGED durable

Next ==
    \/ \E record \in Records :
          InsertInLast(record) \/ AllocatePage(record) \/ InsertCutShort(record)
    \/ InsertInNew
    \/ InsertFails
    \/ Flush
    \/ OpenScan
    \/ NextSlot
    \/ NextPage
    \/ \E page_id \in File!Pages : WriteBack(page_id)
    \/ SizeFirst
    \/ ProcessExit
    \/ PowerLoss

Spec == Init /\ [][Next]_vars

-----------------------------------------------------------------------------
(* Every RID that insert returned leads to its record, in this process and the
   next: later rows, failed insertions, writes cut short and the end of the
   process change nothing (insert rewrites the whole last page).  After a power
   loss, also one in the middle of a rewrite of their page, the same holds of the
   rows that were flushed and of those found.  Not so of a row inserted in a page
   the device had lost, which lies over the header (Page::insert over zeros), nor
   of any row inserted in that page later: rows does not have them. *)
RowsReadable == \A i \in DOMAIN rows : Readable(disk.pages, rows[i])

(* A scan returns no slot twice, in the order of pages and slots; of the pages
   with a header it returns rows of the table only, and at its end it has
   returned all that were there when it was opened, whatever was inserted
   meanwhile (next).  Slots that a torn page leaves without a record are
   skipped, and a page without a header, from which the scan may return
   anything, makes it miss no row of the others. *)
ScanComplete ==
    /\ InOrder(seen)
    /\ \A i \in DOMAIN seen :
          \/ \E j \in DOMAIN rows : seen[i] = rows[j]
          \/ Mangled(disk.pages[seen[i].page_id])
    /\ ScanEnded => \A row \in due : \E i \in DOMAIN seen : seen[i] = row

=============================================================================
