---------------------------- MODULE DiskManager ----------------------------
(***************************************************************************)
(* The paged file as a value (src/storage/disk_manager.cpp over            *)
(* src/storage/file_writer.cpp), and what the operating system keeps of    *)
(* it.                                                                     *)
(*                                                                         *)
(* pages and page_count are what pread and fstat see: the file in the      *)
(* system's cache.  synced and synced_count are what the device holds,     *)
(* which is all a power loss leaves: fsync copies everything, and the      *)
(* system writes any page back whenever it likes.  A page beyond the end   *)
(* of the file, or one the device never received, reads as zeros (Hole).   *)
(***************************************************************************)
EXTENDS Integers

CONSTANTS MaxPages,   \* pages the device has room for
          Values,     \* page contents the users of the pool write
          Fresh,      \* Page(page_id): a formatted page without records
          Hole,       \* zeros
          Torn        \* a page pwrite wrote only a part of

Pages == 0 .. MaxPages - 1

Contents == Values \cup {Fresh, Hole, Torn}

EmptyDisk ==
    [pages |-> [p \in Pages |-> Hole], page_count |-> 0,
     synced |-> [p \in Pages |-> Hole], synced_count |-> 0]

DiskType ==
    [pages : [Pages -> Contents], page_count : 0 .. MaxPages,
     synced : [Pages -> Contents], synced_count : 0 .. MaxPages]

\* Mutant: the file does not grow when written at its end.
WriteWithinFile(disk, page_id, page) == [disk EXCEPT !.pages[page_id] = page]

\* write_page: pwrite at page_id * PAGE_SIZE; at the end it extends the file.
WritePage(disk, page_id, page) ==
    [disk EXCEPT !.pages[page_id] = page,
                 !.page_count = IF page_id < @ THEN @ ELSE page_id + 1]

\* A short pwrite over an existing page, before write_at throws.  (At the end
\* of the file it leaves a partial page, which page_count does not count and
\* the next allocation overwrites: no effect.)
TearPage(disk, page_id) == [disk EXCEPT !.pages[page_id] = Torn]

\* Mutant: the count is taken for the index of the last page.
AllocateAfterGap(disk) == WritePage(disk, disk.page_count + 1, Fresh)

\* allocate_page: the new page is the one after the last; no fsync.
AllocatePage(disk) == WritePage(disk, disk.page_count, Fresh)

\* Mutant: flush trusts pwrite.
FlushNothing(disk) == disk

\* flush: fsync.
Flush(disk) ==
    [disk EXCEPT !.synced = disk.pages, !.synced_count = disk.page_count]

\* The operating system stores one page on its own.
WriteBack(disk, page_id) ==
    [disk EXCEPT !.synced[page_id] = disk.pages[page_id],
                 !.synced_count = IF page_id < @ THEN @ ELSE page_id + 1]

\* What is found when the machine is started again.
AfterPowerLoss(disk) ==
    [disk EXCEPT !.pages = disk.synced, !.page_count = disk.synced_count]

=============================================================================
