--------------------------- MODULE BufferManager ---------------------------
(***************************************************************************)
(* The buffer pool (src/buffer/buffer_manager.cpp) over the replacer's     *)
(* list and the paged file.                                                *)
(*                                                                         *)
(* A client is a holder of a Page* that fetch_page or new_page returned    *)
(* and unpin_page will take back; it writes through the pointer, so it     *)
(* reaches the frame, not the page.  The program has one thread: an action *)
(* is a whole call, and calls on behalf of several holders interleave.     *)
(* A call may fail at each of its I/O steps (Faults), and the process or   *)
(* the machine may stop at any time.                                       *)
(***************************************************************************)
EXTENDS LRUList, DiskManager, FiniteSets

CONSTANTS pool_size,  \* number of frames
          Clients,    \* holders of pins
          Faults,     \* I/O calls that may fail: "write", "fsync", "read", "tear"
          MetricBound \* the counters of hits and misses stop here

Frames == 0 .. pool_size - 1

INVALID_PAGE_ID == -1

ASSUME PoolSizeAssumption == pool_size \in Nat \ {0}
ASSUME MaxPagesAssumption == MaxPages \in Nat \ {0}
ASSUME ClientsAssumption == IsFiniteSet(Clients)
ASSUME FaultsAssumption == Faults \subseteq {"write", "fsync", "read", "tear"}
ASSUME MetricAssumption == MetricBound \in Nat
ASSUME ContentsAssumption ==
    /\ Fresh \notin Values /\ Hole \notin Values /\ Torn \notin Values
    /\ Fresh # Hole /\ Fresh # Torn /\ Hole # Torn

VARIABLES
    frames,        \* frames_: the pages in memory
    page_table,    \* page_table_: page id to frame id
    lru_list,      \* the replacer's list
    cache_hits, cache_misses,
    disk,          \* the file, and what the device holds of it
    held,          \* per client: the page it asked for, the frame it points
                   \*   into, and whether it wrote there since
    versions       \* history: per page, what a crash may bring back

vars == <<frames, page_table, lru_list, cache_hits, cache_misses, disk, held,
          versions>>

metrics == <<cache_hits, cache_misses>>

-----------------------------------------------------------------------------
\* Frame::reset
FreeFrame ==
    [page_id |-> INVALID_PAGE_ID, pin_count |-> 0, is_dirty |-> FALSE,
     page |-> Fresh]

NoHandle == [page |-> INVALID_PAGE_ID, frame |-> INVALID_FRAME_ID, wrote |-> FALSE]

is_free(f) == frames[f].page_id = INVALID_PAGE_ID

in_pool(p) == page_table[p] # INVALID_FRAME_ID

holds(c) == held[c].page # INVALID_PAGE_ID

counted(n) == IF n < MetricBound THEN n + 1 ELSE n

\* find_free_frame, find_victim_frame: the first free frame, or the victim of
\* the replacer, which is popped whatever happens next.
FreeFrames == {f \in Frames : is_free(f)}

FirstFree == CHOOSE f \in FreeFrames : \A g \in FreeFrames : f <= g

find_victim_frame == IF FreeFrames # {} THEN FirstFree ELSE VictimFrame(lru_list)

ListAfterVictim == IF FreeFrames # {} THEN lru_list ELSE PopVictim(lru_list)

\* evict_frame: a dirty page is written and forced out before it is forgotten.
must_write(f) == ~is_free(f) /\ frames[f].is_dirty

\* Mutant: a dirty victim is dropped like a clean one.
DiskNotWritten(f) == disk

DiskAfterEviction(f) ==
    IF must_write(f)
    THEN Flush(WritePage(disk, frames[f].page_id, frames[f].page))
    ELSE disk

\* Mutant: the entry of the evicted page stays.
TableKept(f) == page_table

TableAfterEviction(f) ==
    [p \in Pages |-> IF p = frames[f].page_id THEN INVALID_FRAME_ID ELSE page_table[p]]

\* Mutant: a second holder is not counted.
PinnedOnce(f) == [frames[f] EXCEPT !.pin_count = 1]

\* fetch_page on a hit: ++frame.pin_count
Pinned(f) == [frames[f] EXCEPT !.pin_count = @ + 1]

\* The frame f now holds page p with one pin, that of client c.
Occupy(f, p, c, page, is_dirty) ==
    /\ frames' = [frames EXCEPT ![f] = [page_id |-> p, pin_count |-> 1,
                                        is_dirty |-> is_dirty, page |-> page]]
    /\ page_table' = [TableAfterEviction(f) EXCEPT ![p] = f]
    /\ lru_list' = PinFrame(ListAfterVictim, f)
    /\ held' = [held EXCEPT ![c] = [page |-> p, frame |-> f, wrote |-> FALSE]]

Init ==
    /\ frames = [f \in Frames |-> FreeFrame]
    /\ page_table = [p \in Pages |-> INVALID_FRAME_ID]
    /\ lru_list = <<>>
    /\ cache_hits = 0 /\ cache_misses = 0
    /\ disk = EmptyDisk
    /\ held = [c \in Clients |-> NoHandle]
    /\ versions = [p \in Pages |-> {Hole}]

-----------------------------------------------------------------------------
(* fetch_page *)

FetchHit(c, p) ==
    /\ ~holds(c) /\ in_pool(p)
    /\ frames' = [frames EXCEPT ![page_table[p]] = Pinned(page_table[p])]
    /\ lru_list' = PinFrame(lru_list, page_table[p])
    /\ held' = [held EXCEPT ![c] = [page |-> p, frame |-> page_table[p], wrote |-> FALSE]]
    /\ cache_hits' = counted(cache_hits)
    /\ UNCHANGED <<page_table, cache_misses, disk, versions>>

FetchMiss(c, p) ==
    LET f == find_victim_frame
        evicted == DiskAfterEviction(f)
    IN  /\ ~holds(c) /\ ~in_pool(p)
        /\ f # INVALID_FRAME_ID
        /\ p < evicted.page_count
        /\ disk' = evicted
        /\ Occupy(f, p, c, evicted.pages[p], FALSE)
        /\ cache_misses' = counted(cache_misses)
        /\ UNCHANGED <<cache_hits, versions>>

\* The page does not exist, or pread fails: the victim is gone already.
FetchReadFails(p) ==
    LET f == find_victim_frame
    IN  /\ ~in_pool(p)
        /\ f # INVALID_FRAME_ID
        /\ p >= disk.page_count \/ "read" \in Faults
        /\ disk' = DiskAfterEviction(f)
        /\ frames' = [frames EXCEPT ![f] = FreeFrame]
        /\ page_table' = TableAfterEviction(f)
        /\ lru_list' = ListAfterVictim
        /\ cache_misses' = counted(cache_misses)
        /\ UNCHANGED <<cache_hits, held, versions>>

\* "pool lleno sin victimas"
FetchNoVictim(p) ==
    /\ ~in_pool(p)
    /\ find_victim_frame = INVALID_FRAME_ID
    /\ cache_misses' = counted(cache_misses)
    /\ UNCHANGED <<frames, page_table, lru_list, cache_hits, disk, held, versions>>

\* A write of page p to the file d is cut short.
Tear(d, p) ==
    /\ disk' = TearPage(d, p)
    /\ versions' = [versions EXCEPT ![p] = @ \cup {Torn}]

\* evict_frame throws in pwrite or in fsync: the victim is off the list, and
\* the frame keeps its page.
EvictionFails ==
    LET f == find_victim_frame
        written == WritePage(disk, frames[f].page_id, frames[f].page)
    IN  /\ f # INVALID_FRAME_ID /\ must_write(f)
        /\ \/ "write" \in Faults /\ UNCHANGED <<disk, versions>>
           \/ "tear" \in Faults /\ Tear(disk, frames[f].page_id)
           \/ "fsync" \in Faults /\ disk' = written /\ UNCHANGED versions
        /\ lru_list' = ListAfterVictim
        /\ UNCHANGED <<frames, page_table, cache_hits, held>>

FetchEvictFails(p) ==
    /\ ~in_pool(p)
    /\ EvictionFails
    /\ cache_misses' = counted(cache_misses)

-----------------------------------------------------------------------------
(* new_page *)

NewPage(c) ==
    LET f == find_victim_frame
        evicted == DiskAfterEviction(f)
        p == evicted.page_count
    IN  /\ ~holds(c)
        /\ f # INVALID_FRAME_ID
        /\ p < MaxPages
        /\ disk' = AllocatePage(evicted)
        /\ Occupy(f, p, c, Fresh, TRUE)
        /\ versions' = [versions EXCEPT ![p] = @ \cup {Fresh}]
        /\ UNCHANGED metrics

\* allocate_page throws: the device is full, or pwrite fails.
NewPageAllocateFails ==
    LET f == find_victim_frame
    IN  /\ f # INVALID_FRAME_ID
        /\ disk.page_count = MaxPages \/ "write" \in Faults
        /\ disk' = DiskAfterEviction(f)
        /\ frames' = [frames EXCEPT ![f] = FreeFrame]
        /\ page_table' = TableAfterEviction(f)
        /\ lru_list' = ListAfterVictim
        /\ UNCHANGED <<cache_hits, cache_misses, held, versions>>

NewPageEvictFails == EvictionFails /\ UNCHANGED cache_misses

-----------------------------------------------------------------------------
(* The holder of a page *)

\* Through the Page*: page.insert, page.remove, a B+ tree node.
ClientWrite(c, v) ==
    /\ holds(c)
    /\ frames' = [frames EXCEPT ![held[c].frame].page = v]
    /\ held' = [held EXCEPT ![c].wrote = TRUE]
    /\ versions' = [versions EXCEPT ![held[c].page] = @ \cup {v}]
    /\ UNCHANGED <<page_table, lru_list, cache_hits, cache_misses, disk>>

\* unpin_page; is_dirty says whether the holder wrote, as all callers do.
Unpin(c) ==
    LET f == page_table[held[c].page]
        pins == frames[f].pin_count - 1
    IN  /\ holds(c)
        /\ f # INVALID_FRAME_ID
        /\ frames[f].pin_count > 0
        /\ frames' = [frames EXCEPT ![f].is_dirty = @ \/ held[c].wrote,
                                    ![f].pin_count = pins]
        /\ lru_list' = IF pins = 0 THEN UnpinFrame(lru_list, f, pool_size) ELSE lru_list
        /\ held' = [held EXCEPT ![c] = NoHandle]
        /\ UNCHANGED <<page_table, cache_hits, cache_misses, disk, versions>>

-----------------------------------------------------------------------------
(* flush_page, flush_all, delete_page, reset_metrics *)

FlushPage(p) ==
    LET f == page_table[p]
    IN  /\ in_pool(p)
        /\ disk' = Flush(WritePage(disk, p, frames[f].page))
        /\ frames' = [frames EXCEPT ![f].is_dirty = FALSE]
        /\ versions' = [versions EXCEPT ![p] = {frames[f].page}]
        /\ UNCHANGED <<page_table, lru_list, cache_hits, cache_misses, held>>

\* The flag is cleared only after both calls: after a failure it stays.
FlushPageFails(p) ==
    /\ in_pool(p)
    /\ \/ "fsync" \in Faults
          /\ disk' = WritePage(disk, p, frames[page_table[p]].page)
          /\ UNCHANGED versions
       \/ "tear" \in Faults /\ Tear(disk, p)
    /\ UNCHANGED <<frames, page_table, lru_list, cache_hits, cache_misses, held>>

DirtyFrames == {f \in Frames : ~is_free(f) /\ frames[f].is_dirty}

\* Mutant: flush_all clears the flag of a pinned frame without writing it.
DiskWithoutPinned(n) ==
    [disk EXCEPT !.pages =
        [p \in Pages |->
            IF page_table[p] \in DirtyFrames /\ page_table[p] < n
               /\ frames[page_table[p]].pin_count = 0
            THEN frames[page_table[p]].page ELSE @[p]]]

\* The loop of flush_all over the frames below n: each dirty frame is written
\* and its flag cleared at once; the fsync comes after the whole loop.
DiskAfterLoop(n) ==
    [disk EXCEPT !.pages =
        [p \in Pages |->
            IF page_table[p] \in DirtyFrames /\ page_table[p] < n
            THEN frames[page_table[p]].page ELSE @[p]]]

FramesAfterLoop(n) ==
    [f \in Frames |->
        IF f \in DirtyFrames /\ f < n THEN [frames[f] EXCEPT !.is_dirty = FALSE]
                                      ELSE frames[f]]

\* Pages some holder has changed without having unpinned them.
OpenPages == {held[c].page : c \in {d \in Clients : held[d].wrote}}

\* What the device holds after flush_all, and what the pool may still write
\* there: the same, unless a torn flush_page left a clean frame over a torn
\* page, which the loop skips.
FlushAll ==
    LET written == DiskAfterLoop(pool_size)
    IN  /\ disk' = Flush(written)
        /\ frames' = FramesAfterLoop(pool_size)
        /\ versions' = [p \in Pages |->
               IF p \in OpenPages THEN versions[p]
               ELSE {written.pages[p]} \cup
                    (IF in_pool(p) THEN {frames[page_table[p]].page} ELSE {})]
        /\ UNCHANGED <<page_table, lru_list, cache_hits, cache_misses, held>>

\* The write of frame n throws, or, after the last frame, the fsync does.
FlushAllFails(n) ==
    /\ \/ "tear" \in Faults /\ n \in DirtyFrames
          /\ Tear(DiskAfterLoop(n), frames[n].page_id)
       \/ /\ \/ "write" \in Faults /\ n \in DirtyFrames
             \/ "fsync" \in Faults /\ n = pool_size
          /\ disk' = DiskAfterLoop(n)
          /\ UNCHANGED versions
    /\ frames' = FramesAfterLoop(n)
    /\ UNCHANGED <<page_table, lru_list, cache_hits, cache_misses, held>>

\* The unsaved changes of the page are dropped with its frame.
DeletePage(p) ==
    LET f == page_table[p]
    IN  /\ in_pool(p)
        /\ frames[f].pin_count <= 0
        /\ lru_list' = PinFrame(lru_list, f)
        /\ page_table' = [page_table EXCEPT ![p] = INVALID_FRAME_ID]
        /\ frames' = [frames EXCEPT ![f] = FreeFrame]
        /\ UNCHANGED <<cache_hits, cache_misses, disk, held, versions>>

ResetMetrics ==
    /\ cache_hits' = 0 /\ cache_misses' = 0
    /\ UNCHANGED <<frames, page_table, lru_list, disk, held, versions>>

-----------------------------------------------------------------------------
(* The operating system, and the ends of a process *)

WriteBackPage(p) ==
    /\ p < disk.page_count
    /\ disk' = WriteBack(disk, p)
    /\ UNCHANGED <<frames, page_table, lru_list, cache_hits, cache_misses, held, versions>>

\* The next process starts with an empty pool over the file it finds.
Restart ==
    /\ frames' = [f \in Frames |-> FreeFrame]
    /\ page_table' = [p \in Pages |-> INVALID_FRAME_ID]
    /\ lru_list' = <<>>
    /\ cache_hits' = 0 /\ cache_misses' = 0
    /\ held' = [c \in Clients |-> NoHandle]

\* The process ends: the pool is dropped (~BufferManager writes nothing), in
\* the middle of flush_all after n frames, or between two calls (n = 0).
ProcessExit(n) ==
    /\ disk' = DiskAfterLoop(n)
    /\ Restart
    /\ UNCHANGED versions

PowerLoss ==
    /\ disk' = AfterPowerLoss(disk)
    /\ Restart
    /\ versions' = [p \in Pages |-> {disk.synced[p]}]

-----------------------------------------------------------------------------
Next ==
    \/ \E c \in Clients :
          \/ \E p \in Pages : FetchHit(c, p) \/ FetchMiss(c, p)
          \/ NewPage(c)
          \/ \E v \in Values : ClientWrite(c, v)
          \/ Unpin(c)
    \/ \E p \in Pages :
          \/ FetchReadFails(p)
          \/ FetchNoVictim(p)
          \/ FetchEvictFails(p)
          \/ FlushPage(p)
          \/ FlushPageFails(p)
          \/ DeletePage(p)
          \/ WriteBackPage(p)
    \/ NewPageAllocateFails
    \/ NewPageEvictFails
    \/ FlushAll
    \/ \E n \in 0 .. pool_size : FlushAllFails(n) \/ ProcessExit(n)
    \/ ResetMetrics
    \/ PowerLoss

Spec == Init /\ [][Next]_vars

-----------------------------------------------------------------------------
FrameType ==
    [page_id : Pages \cup {INVALID_PAGE_ID}, pin_count : Nat, is_dirty : BOOLEAN,
     page : Contents]

HandleType ==
    [page : Pages \cup {INVALID_PAGE_ID}, frame : Frames \cup {INVALID_FRAME_ID},
     wrote : BOOLEAN]

TypeOK ==
    /\ frames \in [Frames -> FrameType]
    /\ page_table \in [Pages -> Frames \cup {INVALID_FRAME_ID}]
    /\ lru_list \in Seq(Frames)
    /\ cache_hits \in 0 .. MetricBound
    /\ cache_misses \in 0 .. MetricBound
    /\ disk \in DiskType
    /\ held \in [Clients -> HandleType]
    /\ versions \in [Pages -> SUBSET Contents]

(* A Page* stays good for as long as its holder has not unpinned it: the frame
   it points into still holds the page that was asked for, and unpin_page will
   find it there (fetch_page, evict_frame, delete_page). *)
HandlesStable ==
    \A c \in Clients : holds(c) =>
        /\ held[c].frame \in Frames
        /\ frames[held[c].frame].page_id = held[c].page
        /\ page_table[held[c].page] = held[c].frame

(* pin_count counts the holders: no pin is lost or counted twice, so the frame
   becomes evictable exactly when its last holder is gone. *)
PinAccounting ==
    \A f \in Frames : frames[f].pin_count = Cardinality({c \in Clients : held[c].frame = f})

(* page_table_ and frames_ describe the same pool, so a page is never in two
   frames and no entry leads to a frame that was reused. *)
TableMirrorsFrames ==
    \A p \in Pages, f \in Frames : page_table[p] = f <=> frames[f].page_id = p

(* The replacer never offers a pinned or a free frame, nor one frame twice. *)
VictimsEvictable ==
    /\ \A i \in DOMAIN lru_list :
          ~is_free(lru_list[i]) /\ frames[lru_list[i]].pin_count = 0
    /\ \A i, j \in DOMAIN lru_list : lru_list[i] = lru_list[j] => i = j

(* No frame is lost to the pool: one that is occupied and unpinned is on the
   replacer's list, so a call that finds "pool lleno sin victimas" finds every
   frame pinned (buffer_manager.cpp:38, find_victim_frame). *)
NoFrameLost ==
    \A f \in Frames :
        ~is_free(f) /\ frames[f].pin_count = 0 => Contains(lru_list, f)

(* A frame that is not dirty can be dropped: the file holds its page, unless a
   holder has changed it and not unpinned it yet (evict_frame writes nothing). *)
CleanFramesMatchFile ==
    \A f \in Frames :
        ~is_free(f) /\ ~frames[f].is_dirty /\ frames[f].page_id \notin OpenPages
            => frames[f].page = disk.pages[frames[f].page_id]

(* The durability contract as an invariant: wherever a copy of a page is kept,
   in its frame, in the file or on the device, it is a content the page may
   have after a crash; after a flush there is one such content only. *)
CopiesAreVersions ==
    \A p \in Pages :
        /\ disk.pages[p] \in versions[p]
        /\ disk.synced[p] \in versions[p]
        /\ in_pool(p) => frames[page_table[p]].page \in versions[p]

(* The file never ends before a page somebody may read in the pool or expect
   after a crash, and what lies beyond its end was never stored. *)
FileCoversPool ==
    /\ disk.synced_count <= disk.page_count
    /\ \A p \in Pages :
          /\ in_pool(p) => p < disk.page_count
          /\ p >= disk.page_count => versions[p] = {Hole}
          /\ p >= disk.synced_count => Hole \in versions[p]

-----------------------------------------------------------------------------
\* What a reader of the page sees: the frame if there is one, else the file.
Visible == [p \in Pages |-> IF in_pool(p) THEN frames[page_table[p]].page
                                         ELSE disk.pages[p]]

Store ==
    INSTANCE PageStore WITH
        count <- disk.page_count, content <- Visible, open <- OpenPages

\* The calls a user of the store sees, each with what the store says it does.
\* Any other call does nothing, or tears a page, or shows a torn page as such.
StoreStep ==
    \/ \E c \in Clients :
          \/ NewPage(c) /\ Store!Allocate
          \/ \E v \in Values : ClientWrite(c, v) /\ Store!Write(held[c].page, v)
          \/ Unpin(c) /\ Store!Report(held[c].page)
    \/ \E p \in Pages :
          \/ FlushPage(p) /\ Store!Flush(p)
          \/ DeletePage(p) /\ Store!Discard(p)
          \/ Store!Tear(p)
          \/ Store!Forget(p)
    \/ FlushAll /\ Store!FlushAll
    \/ (\E n \in 0 .. pool_size : ProcessExit(n)) /\ Store!Exit
    \/ PowerLoss /\ Store!PowerLoss

(* The pool implements paged storage.  Eviction, reloading and the choice of
   frames are invisible: fetch_page and new_page bring no page back to an
   earlier content, but for a page whose write was cut short, which may read as
   torn (evict_frame).  A change not yet in the file is lost by delete_page, by
   the end of the process and by a power loss only; a crash takes each page back
   to one of its versions, and a flushed page to the flushed one. *)
ImplementsPageStore == Store!Init /\ [][StoreStep]_(Store!vars)

=============================================================================
