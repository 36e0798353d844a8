------------------------ MODULE BufferManager_proofs ------------------------
(***************************************************************************)
(* Theorems of the buffer pool, for every number of frames, pages and      *)
(* holders and every choice of failing I/O calls: its frames, pins and     *)
(* replacer, what its file holds, and the store it implements.             *)
(***************************************************************************)
EXTENDS BufferManager, LRUList_proofs, WellFoundedInduction

(* The disk operators keep the type of the disk. *)
LEMMA DiskOperatorsType ==
    ASSUME NEW d \in DiskType, NEW p \in Pages, NEW page \in Contents
    PROVE  /\ WritePage(d, p, page) \in DiskType
           /\ TearPage(d, p) \in DiskType
           /\ Flush(d) \in DiskType
           /\ WriteBack(d, p) \in DiskType
           /\ AfterPowerLoss(d) \in DiskType
           /\ d.page_count < MaxPages => AllocatePage(d) \in DiskType
<1> USE MaxPagesAssumption DEF DiskType, Pages
<1>1. ASSUME NEW q \in Pages, NEW c \in Contents
      PROVE  WritePage(d, q, c) \in DiskType
  <2>1. d.page_count \in 0 .. MaxPages /\ q + 1 \in 0 .. MaxPages
    OBVIOUS
  <2>2. (IF q < d.page_count THEN d.page_count ELSE q + 1) \in 0 .. MaxPages
    BY <2>1
  <2>3. [d.pages EXCEPT ![q] = c] \in [0 .. MaxPages - 1 -> Contents]
    BY <1>1
  <2> QED
    BY <2>2, <2>3 DEF WritePage
<1>2. TearPage(d, p) \in DiskType
  BY DEF TearPage, Contents
<1>3. Flush(d) \in DiskType
  BY DEF Flush
<1>4. WriteBack(d, p) \in DiskType
  <2>1. d.synced_count \in 0 .. MaxPages /\ p + 1 \in 0 .. MaxPages
    OBVIOUS
  <2>2. (IF p < d.synced_count THEN d.synced_count ELSE p + 1) \in 0 .. MaxPages
    BY <2>1
  <2>3. [d.synced EXCEPT ![p] = d.pages[p]] \in [0 .. MaxPages - 1 -> Contents]
    OBVIOUS
  <2> QED
    BY <2>2, <2>3 DEF WriteBack
<1>5. AfterPowerLoss(d) \in DiskType
  BY DEF AfterPowerLoss
<1>6. d.page_count < MaxPages => AllocatePage(d) \in DiskType
  BY <1>1 DEF AllocatePage, Contents
<1> QED
  BY <1>1, <1>2, <1>3, <1>4, <1>5, <1>6

(* find_free_frame returns a free frame when there is one. *)
LEMMA FirstFreeIsFree == FreeFrames # {} => FirstFree \in FreeFrames
<1> SUFFICES ASSUME FreeFrames # {}
             PROVE  \E f \in FreeFrames : \A g \in FreeFrames : f <= g
  BY DEF FirstFree
<1>1. FreeFrames \subseteq Nat
  BY PoolSizeAssumption DEF FreeFrames, Frames
<1>2. IsWellFoundedOn(OpToRel(<, Nat), Nat)
  BY NatLessThanWellFounded
<1>3. PICK f \in FreeFrames : \A g \in FreeFrames : ~(<<g, f>> \in OpToRel(<, Nat))
  BY <1>1, <1>2, WFMin
<1>4. \A g \in FreeFrames : ~(g < f)
  BY <1>1, <1>3 DEF OpToRel
<1>5. \A g \in FreeFrames : f <= g
  BY <1>1, <1>4
<1> QED
  BY <1>5

-----------------------------------------------------------------------------
(* A holder has both a page and a frame, or neither. *)
HandleShape ==
    \A c \in Clients : held[c].page = INVALID_PAGE_ID
                            <=> held[c].frame = INVALID_FRAME_ID

(* A page in the pool exists in the file, so a page number just allocated is
   not the number of a page in the pool. *)
ResidentInFile == \A p \in Pages : in_pool(p) => p < disk.page_count

(* The inductive invariant of the pool's bookkeeping: each part is needed to
   show that a victim has no holder, or that a holder's frame is never one. *)
PoolInv ==
    /\ TypeOK
    /\ HandleShape
    /\ HandlesStable
    /\ PinAccounting
    /\ TableMirrorsFrames
    /\ VictimsEvictable
    /\ ResidentInFile

Holders(f) == {c \in Clients : held[c].frame = f}

(* A frame without pins has no holder, and a frame without holders no pin. *)
LEMMA NoPinNoHolder ==
    ASSUME TypeOK, PinAccounting, NEW f \in Frames
    PROVE  /\ IsFiniteSet(Holders(f)) /\ Cardinality(Holders(f)) \in Nat
           /\ frames[f].pin_count = Cardinality(Holders(f))
           /\ frames[f].pin_count = 0 <=> \A c \in Clients : held[c].frame # f
<1>1. IsFiniteSet(Holders(f))
  BY ClientsAssumption, FS_Subset DEF Holders
<1>2. frames[f].pin_count = Cardinality(Holders(f))
  BY DEF PinAccounting, Holders
<1>3. Cardinality(Holders(f)) = 0 <=> Holders(f) = {}
  BY <1>1, FS_EmptySet
<1>4. Holders(f) = {} <=> \A c \in Clients : held[c].frame # f
  BY DEF Holders
<1> QED
  BY <1>1, <1>2, <1>3, <1>4, FS_CardinalityType

(* What find_victim_frame offers is a frame without holders, which is no
   longer on the list. *)
LEMMA VictimFacts ==
    ASSUME PoolInv, find_victim_frame # INVALID_FRAME_ID
    PROVE  LET f == find_victim_frame
           IN  /\ f \in Frames
               /\ \A c \in Clients : held[c].frame # f
               /\ frames[f].pin_count = 0
               /\ ListAfterVictim \in Seq(Frames) /\ OnceEach(ListAfterVictim)
               /\ Listed(ListAfterVictim) = Listed(lru_list) \ {f}
               /\ FreeFrames # {} => is_free(f)
<1> DEFINE f == find_victim_frame
<1> USE DEF PoolInv
<1>1. lru_list \in Seq(Frames) /\ OnceEach(lru_list)
  BY DEF TypeOK, VictimsEvictable, OnceEach
<1>a. \A g \in Listed(lru_list) : ~is_free(g) /\ frames[g].pin_count = 0
  BY DEF VictimsEvictable, Listed
<1>2. CASE FreeFrames # {}
  <2>1. f \in Frames /\ is_free(f) /\ ListAfterVictim = lru_list
    BY <1>2, FirstFreeIsFree DEF find_victim_frame, FreeFrames, ListAfterVictim
  <2> HIDE DEF f
  <2>2. f \notin Listed(lru_list)
    BY <2>1, <1>a
  <2>3. \A c \in Clients : held[c].frame # f
    BY <2>1 DEF HandleShape, HandlesStable, is_free, holds, INVALID_FRAME_ID, Frames
  <2>4. frames[f].pin_count = 0
    BY <2>1, <2>3, NoPinNoHolder
  <2>5. Listed(ListAfterVictim) = Listed(lru_list) \ {f}
    BY <2>1, <2>2
  <2> QED
    BY <1>1, <2>1, <2>3, <2>4, <2>5 DEF f
<1>3. CASE FreeFrames = {}
  <2>1. f = VictimFrame(lru_list) /\ ListAfterVictim = PopVictim(lru_list)
    BY <1>3 DEF find_victim_frame, ListAfterVictim
  <2>2. lru_list # <<>>
    BY <1>3 DEF find_victim_frame, VictimFrame
  <2>3. /\ VictimFrame(lru_list) \in Frames
        /\ VictimFrame(lru_list) \in Listed(lru_list)
        /\ PopVictim(lru_list) \in Seq(Frames)
        /\ OnceEach(PopVictim(lru_list))
        /\ Listed(PopVictim(lru_list)) = Listed(lru_list) \ {VictimFrame(lru_list)}
    BY <1>1, <2>2, PopVictimProperties
  <2> HIDE DEF f
  <2>4. f \in Frames /\ frames[f].pin_count = 0
    BY <2>1, <2>3, <1>a
  <2>5. \A c \in Clients : held[c].frame # f
    BY <2>4, NoPinNoHolder
  <2> QED
    BY <1>3, <2>1, <2>3, <2>4, <2>5 DEF f
<1> QED
  BY <1>2, <1>3

-----------------------------------------------------------------------------
(* The pieces the actions are made of have the types of the variables. *)
LEMMA PieceTypes ==
    ASSUME TypeOK
    PROVE  /\ FreeFrame \in FrameType /\ NoHandle \in HandleType
           /\ \A n \in 0 .. MetricBound : counted(n) \in 0 .. MetricBound
           /\ \A f \in Frames :
                 /\ is_free(f) \/ frames[f].page_id \in Pages
                 /\ Pinned(f) \in FrameType
                 /\ DiskAfterEviction(f) \in DiskType
                 /\ TableAfterEviction(f) \in [Pages -> Frames \cup {INVALID_FRAME_ID}]
           /\ \A p \in Pages : in_pool(p) => page_table[p] \in Frames
           /\ \A n : /\ DiskAfterLoop(n) \in DiskType
                     /\ FramesAfterLoop(n) \in [Frames -> FrameType]
           /\ \A c \in Clients : holds(c) => held[c].page \in Pages
<1> USE DEF TypeOK
<1>1. FreeFrame \in FrameType
  BY DEF FreeFrame, FrameType, Contents
<1>2. NoHandle \in HandleType
  BY DEF NoHandle, HandleType
<1>3. ASSUME NEW n \in 0 .. MetricBound
      PROVE  counted(n) \in 0 .. MetricBound
  BY MetricAssumption DEF counted
<1>4. ASSUME NEW f \in Frames
      PROVE  /\ is_free(f) \/ frames[f].page_id \in Pages
             /\ Pinned(f) \in FrameType
             /\ DiskAfterEviction(f) \in DiskType
             /\ TableAfterEviction(f) \in [Pages -> Frames \cup {INVALID_FRAME_ID}]
  <2>1. frames[f] \in FrameType
    OBVIOUS
  <2>2. is_free(f) \/ frames[f].page_id \in Pages
    BY <2>1 DEF FrameType, is_free
  <2>3. Pinned(f) \in FrameType
    <3>1. frames[f].pin_count \in Nat
      BY <2>1 DEF FrameType
    <3>2. frames[f].pin_count + 1 \in Nat
      BY <3>1
    <3> QED
      BY <2>1, <3>2 DEF FrameType, Pinned
  <2>4. DiskAfterEviction(f) \in DiskType
    BY <2>1, <2>2, DiskOperatorsType DEF DiskAfterEviction, must_write, FrameType
  <2>5. TableAfterEviction(f) \in [Pages -> Frames \cup {INVALID_FRAME_ID}]
    BY DEF TableAfterEviction
  <2> QED
    BY <2>2, <2>3, <2>4, <2>5
<1>5. \A p \in Pages : in_pool(p) => page_table[p] \in Frames
  BY DEF in_pool
<1>6. ASSUME NEW n
      PROVE  /\ DiskAfterLoop(n) \in DiskType
             /\ FramesAfterLoop(n) \in [Frames -> FrameType]
  <2>1. DirtyFrames \subseteq Frames
    BY DEF DirtyFrames
  <2>2. \A p \in Pages : disk.pages[p] \in Contents
    BY DEF DiskType
  <2>3. \A f \in Frames : frames[f].page \in Contents
    BY DEF FrameType
  <2> DEFINE written ==
          [p \in Pages |-> IF page_table[p] \in DirtyFrames /\ page_table[p] < n
                           THEN frames[page_table[p]].page ELSE disk.pages[p]]
  <2>4. written \in [Pages -> Contents]
    BY <2>1, <2>2, <2>3
  <2>a. DiskAfterLoop(n) = [disk EXCEPT !.pages = written]
    BY DEF DiskAfterLoop
  <2> HIDE DEF written
  <2>5. DiskAfterLoop(n) \in DiskType
    BY <2>4, <2>a DEF DiskType
  <2>6. \A f \in Frames : [frames[f] EXCEPT !.is_dirty = FALSE] \in FrameType
    BY DEF FrameType
  <2>7. FramesAfterLoop(n) \in [Frames -> FrameType]
    BY <2>6 DEF FramesAfterLoop
  <2> QED
    BY <2>5, <2>7
<1>7. \A c \in Clients : holds(c) => held[c].page \in Pages
  BY DEF holds, HandleType
<1> QED
  BY <1>1, <1>2, <1>3, <1>4, <1>5, <1>6, <1>7

LEMMA FramesStayFrames ==
    ASSUME frames \in [Frames -> FrameType], NEW f \in Frames,
           NEW page \in Contents, NEW flag \in BOOLEAN, NEW pins \in Nat
    PROVE  /\ [frames EXCEPT ![f].page = page] \in [Frames -> FrameType]
           /\ [frames EXCEPT ![f].is_dirty = flag] \in [Frames -> FrameType]
           /\ [frames EXCEPT ![f].is_dirty = flag, ![f].pin_count = pins]
                  \in [Frames -> FrameType]
<1>1. frames[f] \in FrameType
  OBVIOUS
<1>2. [frames[f] EXCEPT !.page = page] \in FrameType
  BY <1>1 DEF FrameType
<1>3. [frames[f] EXCEPT !.is_dirty = flag] \in FrameType
  BY <1>1 DEF FrameType
<1>4. [frames[f] EXCEPT !.is_dirty = flag, !.pin_count = pins] \in FrameType
  BY <1>1 DEF FrameType
<1>5. [frames EXCEPT ![f].page = page] \in [Frames -> FrameType]
  BY <1>2
<1>6. [frames EXCEPT ![f].is_dirty = flag] \in [Frames -> FrameType]
  BY <1>3
<1>7. [frames EXCEPT ![f].is_dirty = flag, ![f].pin_count = pins] \in [Frames -> FrameType]
  BY <1>4
<1> QED
  BY <1>5, <1>6, <1>7

LEMMA InitTypeOK == Init => TypeOK
<1> SUFFICES ASSUME Init
             PROVE  TypeOK
  OBVIOUS
<1> USE DEF Init
<1>1. frames \in [Frames -> FrameType]
  BY DEF FreeFrame, FrameType, Contents
<1>2. held \in [Clients -> HandleType]
  BY DEF NoHandle, HandleType
<1>3. disk \in DiskType
  BY MaxPagesAssumption DEF EmptyDisk, DiskType, Contents
<1>4. lru_list \in Seq(Frames)
  OBVIOUS
<1>5. cache_hits \in 0 .. MetricBound /\ cache_misses \in 0 .. MetricBound
  BY MetricAssumption
<1>6. page_table \in [Pages -> Frames \cup {INVALID_FRAME_ID}]
  OBVIOUS
<1>7. versions \in [Pages -> SUBSET Contents]
  BY DEF Contents
<1> QED
  BY <1>1, <1>2, <1>3, <1>4, <1>5, <1>6, <1>7 DEF TypeOK

(* Occupying the victim's frame keeps the types. *)
LEMMA OccupyType ==
    ASSUME PoolInv, find_victim_frame # INVALID_FRAME_ID,
           NEW p \in Pages, NEW c \in Clients, NEW page \in Contents,
           NEW is_dirty \in BOOLEAN, Occupy(find_victim_frame, p, c, page, is_dirty)
    PROVE  /\ frames' \in [Frames -> FrameType]
           /\ page_table' \in [Pages -> Frames \cup {INVALID_FRAME_ID}]
           /\ lru_list' \in Seq(Frames)
           /\ held' \in [Clients -> HandleType]
<1> DEFINE f == find_victim_frame
<1>1. f \in Frames /\ ListAfterVictim \in Seq(Frames) /\ OnceEach(ListAfterVictim)
  BY VictimFacts
<1> HIDE DEF f
<1>2. Occupy(f, p, c, page, is_dirty) /\ TypeOK
  BY DEF f, PoolInv
<1>3. [page_id |-> p, pin_count |-> 1, is_dirty |-> is_dirty, page |-> page] \in FrameType
  BY DEF FrameType
<1>4. [page |-> p, frame |-> f, wrote |-> FALSE] \in HandleType
  BY <1>1 DEF HandleType
<1>5. PinFrame(ListAfterVictim, f) \in Seq(Frames)
  BY <1>1, PinFrameProperties
<1>6. TableAfterEviction(f) \in [Pages -> Frames \cup {INVALID_FRAME_ID}]
  BY <1>1, <1>2, PieceTypes
<1> QED
  BY <1>1, <1>2, <1>3, <1>4, <1>5, <1>6 DEF Occupy, TypeOK

(* Every call, failure, crash and write-back keeps the types. *)
LEMMA NextTypeOK == PoolInv /\ [Next]_vars => TypeOK'
<1> SUFFICES ASSUME PoolInv, [Next]_vars
             PROVE  TypeOK'
  OBVIOUS
<1>0. TypeOK
  BY DEF PoolInv
<1>a. /\ frames \in [Frames -> FrameType]
      /\ page_table \in [Pages -> Frames \cup {INVALID_FRAME_ID}]
      /\ lru_list \in Seq(Frames) /\ OnceEach(lru_list)
      /\ disk \in DiskType /\ disk.page_count \in 0 .. MaxPages
      /\ disk.pages \in [Pages -> Contents] /\ disk.synced \in [Pages -> Contents]
      /\ cache_hits \in 0 .. MetricBound /\ cache_misses \in 0 .. MetricBound
      /\ held \in [Clients -> HandleType] /\ versions \in [Pages -> SUBSET Contents]
  BY DEF PoolInv, TypeOK, VictimsEvictable, OnceEach, DiskType
<1>b. \A f \in Frames : frames[f].page \in Contents
  BY <1>a DEF FrameType
<1>c. /\ FreeFrame \in FrameType /\ NoHandle \in HandleType
      /\ counted(cache_hits) \in 0 .. MetricBound
      /\ counted(cache_misses) \in 0 .. MetricBound
      /\ 0 \in 0 .. MetricBound
      /\ \A p \in Pages : in_pool(p) => page_table[p] \in Frames
      /\ \A c \in Clients : holds(c) => held[c].page \in Pages
  BY <1>0, <1>a, PieceTypes, MetricAssumption
<1>d. \A p \in Pages, page \in Contents :
        [versions EXCEPT ![p] = @ \cup {page}] \in [Pages -> SUBSET Contents]
  BY <1>a
<1>e. \A n : DiskAfterLoop(n) \in DiskType /\ FramesAfterLoop(n) \in [Frames -> FrameType]
  BY <1>0, PieceTypes
<1>f. \A d \in DiskType, p \in Pages : Tear(d, p) =>
        disk' \in DiskType /\ versions' \in [Pages -> SUBSET Contents]
  BY <1>d, DiskOperatorsType DEF Tear, Contents
<1>v. ASSUME find_victim_frame # INVALID_FRAME_ID
      PROVE  LET f == find_victim_frame
             IN  /\ f \in Frames /\ ListAfterVictim \in Seq(Frames)
                 /\ DiskAfterEviction(f) \in DiskType
                 /\ TableAfterEviction(f) \in [Pages -> Frames \cup {INVALID_FRAME_ID}]
                 /\ is_free(f) \/ frames[f].page_id \in Pages
  BY <1>0, <1>v, VictimFacts, PieceTypes
<1>1. ASSUME NEW c \in Clients, NEW p \in Pages, FetchHit(c, p)
      PROVE  TypeOK'
  <2>1. page_table[p] \in Frames /\ Pinned(page_table[p]) \in FrameType
    BY <1>0, <1>1, <1>c, PieceTypes DEF FetchHit
  <2>2. frames' \in [Frames -> FrameType]
    BY <1>1, <1>a, <2>1 DEF FetchHit
  <2>3. lru_list' \in Seq(Frames)
    BY <1>1, <1>a, <2>1, PinFrameProperties DEF FetchHit
  <2>4. held' \in [Clients -> HandleType]
    BY <1>1, <1>a, <2>1 DEF FetchHit, HandleType
  <2> QED
    BY <1>1, <1>a, <1>c, <2>2, <2>3, <2>4 DEF FetchHit, TypeOK
<1>2. ASSUME NEW c \in Clients, NEW p \in Pages, FetchMiss(c, p)
      PROVE  TypeOK'
  <2> DEFINE evicted == DiskAfterEviction(find_victim_frame)
  <2>1. evicted \in DiskType /\ evicted.pages[p] \in Contents
    BY <1>2, <1>v DEF FetchMiss, DiskType
  <2>2. Occupy(find_victim_frame, p, c, evicted.pages[p], FALSE)
        /\ disk' = evicted
    BY <1>2 DEF FetchMiss
  <2> HIDE DEF evicted
  <2>3. /\ frames' \in [Frames -> FrameType]
        /\ page_table' \in [Pages -> Frames \cup {INVALID_FRAME_ID}]
        /\ lru_list' \in Seq(Frames)
        /\ held' \in [Clients -> HandleType]
    BY <1>2, <2>1, <2>2, OccupyType DEF FetchMiss
  <2> QED
    BY <1>2, <1>a, <1>c, <2>1, <2>2, <2>3 DEF FetchMiss, TypeOK
<1>3. ASSUME NEW c \in Clients, NewPage(c)
      PROVE  TypeOK'
  <2> DEFINE evicted == DiskAfterEviction(find_victim_frame)
             p == evicted.page_count
  <2>1. evicted \in DiskType /\ p \in Pages /\ p < MaxPages
    BY <1>3, <1>v, MaxPagesAssumption DEF NewPage, DiskType, Pages
  <2>2. /\ Occupy(find_victim_frame, p, c, Fresh, TRUE)
        /\ disk' = AllocatePage(evicted)
        /\ versions' = [versions EXCEPT ![p] = @ \cup {Fresh}]
        /\ UNCHANGED metrics /\ find_victim_frame # INVALID_FRAME_ID
    BY <1>3 DEF NewPage
  <2>3. disk' \in DiskType
    BY <2>1, <2>2, DiskOperatorsType DEF Contents
  <2> HIDE DEF evicted, p
  <2>4. Fresh \in Contents
    BY DEF Contents
  <2>5. /\ frames' \in [Frames -> FrameType]
        /\ page_table' \in [Pages -> Frames \cup {INVALID_FRAME_ID}]
        /\ lru_list' \in Seq(Frames)
        /\ held' \in [Clients -> HandleType]
    BY <2>1, <2>2, <2>4, OccupyType
  <2> QED
    BY <1>a, <1>d, <2>1, <2>2, <2>3, <2>4, <2>5 DEF TypeOK, metrics
<1>4. ASSUME NEW c \in Clients, NEW v \in Values, ClientWrite(c, v)
      PROVE  TypeOK'
  <2>1. v \in Contents /\ held[c].page \in Pages
    BY <1>4, <1>c DEF ClientWrite, Contents
  <2>2. held[c].frame \in Frames
    BY <1>4 DEF ClientWrite, PoolInv, HandlesStable
  <2>3. frames' \in [Frames -> FrameType]
    BY <1>4, <1>a, <2>1, <2>2, FramesStayFrames DEF ClientWrite
  <2>4. held' \in [Clients -> HandleType]
    BY <1>4, <1>a DEF ClientWrite, HandleType
  <2> QED
    BY <1>4, <1>a, <1>d, <2>1, <2>3, <2>4 DEF ClientWrite, TypeOK
<1>5. ASSUME NEW c \in Clients, Unpin(c)
      PROVE  TypeOK'
  <2> DEFINE f == page_table[held[c].page]
             pins == frames[f].pin_count - 1
             dirty == frames[f].is_dirty \/ held[c].wrote
  <2>1. f \in Frames
    BY <1>5, <1>a, <1>c DEF Unpin
  <2>2. pins \in Nat
    <3>1. frames[f].pin_count \in Nat /\ frames[f].pin_count > 0
      BY <1>5, <1>a, <2>1 DEF Unpin, FrameType
    <3> QED
      BY <3>1
  <2>3. /\ frames' = [frames EXCEPT ![f].is_dirty = dirty,
                                    ![f].pin_count = pins]
        /\ lru_list' = IF pins = 0 THEN UnpinFrame(lru_list, f, pool_size) ELSE lru_list
        /\ held' = [held EXCEPT ![c] = NoHandle]
        /\ UNCHANGED <<page_table, cache_hits, cache_misses, disk, versions>>
    BY <1>5 DEF Unpin
  <2>4. dirty \in BOOLEAN
    BY <1>a DEF HandleType
  <2> HIDE DEF pins, f, dirty
  <2>5. frames' \in [Frames -> FrameType]
    <3>1. Fresh \in Contents
      BY DEF Contents
    <3>2. [frames EXCEPT ![f].is_dirty = dirty, ![f].pin_count = pins]
              \in [Frames -> FrameType]
      BY <1>a, <2>1, <2>2, <2>4, <3>1, FramesStayFrames
    <3> QED
      BY <2>3, <3>2
  <2>6. lru_list' \in Seq(Frames)
    BY <1>a, <2>1, <2>3, UnpinFrameProperties, PoolSizeAssumption
  <2> QED
    BY <1>a, <1>c, <2>3, <2>5, <2>6 DEF TypeOK
<1>6. ASSUME NEW p \in Pages, FetchReadFails(p)
      PROVE  TypeOK'
  BY <1>6, <1>a, <1>c, <1>v DEF FetchReadFails, TypeOK
<1>7. ASSUME NEW p \in Pages, FetchNoVictim(p)
      PROVE  TypeOK'
  BY <1>7, <1>a, <1>c DEF FetchNoVictim, TypeOK
<1>8. ASSUME EvictionFails
      PROVE  /\ disk' \in DiskType /\ versions' \in [Pages -> SUBSET Contents]
             /\ lru_list' \in Seq(Frames)
             /\ UNCHANGED <<frames, page_table, cache_hits, held>>
  <2> DEFINE f == find_victim_frame
  <2>1. f \in Frames /\ frames[f].page_id \in Pages /\ frames[f].page \in Contents
    BY <1>8, <1>b, <1>v DEF EvictionFails, must_write
  <2>2. WritePage(disk, frames[f].page_id, frames[f].page) \in DiskType
    BY <1>a, <2>1, DiskOperatorsType
  <2>3. disk' \in DiskType /\ versions' \in [Pages -> SUBSET Contents]
    BY <1>8, <1>a, <1>f, <2>1, <2>2 DEF EvictionFails
  <2> QED
    BY <1>8, <1>v, <2>3 DEF EvictionFails
<1>9. ASSUME NEW p \in Pages, FetchEvictFails(p)
      PROVE  TypeOK'
  BY <1>8, <1>9, <1>a, <1>c DEF FetchEvictFails, TypeOK
<1>10. ASSUME NEW p \in Pages, FlushPage(p)
       PROVE  TypeOK'
  <2>1. page_table[p] \in Frames /\ frames[page_table[p]].page \in Contents
    BY <1>10, <1>b, <1>c DEF FlushPage
  <2>2. disk' \in DiskType
    <3>1. WritePage(disk, p, frames[page_table[p]].page) \in DiskType
      BY <1>a, <2>1, DiskOperatorsType
    <3> QED
      BY <1>10, <3>1, <2>1, DiskOperatorsType DEF FlushPage
  <2>3. frames' \in [Frames -> FrameType]
    BY <1>10, <1>a, <2>1, FramesStayFrames DEF FlushPage
  <2>4. versions' \in [Pages -> SUBSET Contents]
    BY <1>10, <1>a, <2>1 DEF FlushPage
  <2> QED
    BY <1>10, <1>a, <2>2, <2>3, <2>4 DEF FlushPage, TypeOK
<1>11. ASSUME NEW p \in Pages, FlushPageFails(p)
       PROVE  TypeOK'
  <2>1. page_table[p] \in Frames /\ frames[page_table[p]].page \in Contents
    BY <1>11, <1>b, <1>c DEF FlushPageFails
  <2>2. WritePage(disk, p, frames[page_table[p]].page) \in DiskType
    BY <1>a, <2>1, DiskOperatorsType
  <2>3. disk' \in DiskType /\ versions' \in [Pages -> SUBSET Contents]
    BY <1>11, <1>a, <1>f, <2>2 DEF FlushPageFails
  <2> QED
    BY <1>11, <1>a, <2>3 DEF FlushPageFails, TypeOK
<1>12. ASSUME NEW p \in Pages, DeletePage(p)
       PROVE  TypeOK'
  <2>1. page_table[p] \in Frames
    BY <1>12, <1>c DEF DeletePage
  <2>2. lru_list' \in Seq(Frames)
    BY <1>12, <1>a, PinFrameProperties DEF DeletePage
  <2> QED
    BY <1>12, <1>a, <1>c, <2>1, <2>2 DEF DeletePage, TypeOK
<1>13. ASSUME NEW p \in Pages, WriteBackPage(p)
       PROVE  TypeOK'
  <2>1. disk' \in DiskType
    BY <1>13, <1>a, DiskOperatorsType DEF WriteBackPage, Contents
  <2> QED
    BY <1>13, <1>a, <2>1 DEF WriteBackPage, TypeOK
<1>14. ASSUME NewPageAllocateFails
       PROVE  TypeOK'
  BY <1>14, <1>a, <1>c, <1>v DEF NewPageAllocateFails, TypeOK
<1>15. ASSUME NewPageEvictFails
       PROVE  TypeOK'
  BY <1>8, <1>15, <1>a DEF NewPageEvictFails, TypeOK
<1>16. ASSUME FlushAll
       PROVE  TypeOK'
  <2>1. disk' \in DiskType /\ frames' \in [Frames -> FrameType]
    <3>1. 0 \in Pages /\ Hole \in Contents
      BY MaxPagesAssumption DEF Pages, Contents
    <3> QED
      BY <1>16, <1>e, <3>1, DiskOperatorsType DEF FlushAll
  <2> DEFINE written == DiskAfterLoop(pool_size).pages
  <2>a. written \in [Pages -> Contents]
    BY <1>e DEF DiskType
  <2>b. versions' = [p \in Pages |->
               IF p \in OpenPages THEN versions[p]
               ELSE {written[p]} \cup
                    (IF in_pool(p) THEN {frames[page_table[p]].page} ELSE {})]
    BY <1>16 DEF FlushAll
  <2> HIDE DEF written
  <2>2. versions' \in [Pages -> SUBSET Contents]
    BY <2>a, <2>b, <1>a, <1>b, <1>c
  <2> QED
    BY <1>16, <1>a, <2>1, <2>2 DEF FlushAll, TypeOK
<1>17. ASSUME NEW n \in 0 .. pool_size, FlushAllFails(n)
       PROVE  TypeOK'
  <2>1. n \in DirtyFrames => frames[n].page_id \in Pages
    BY <1>0, PieceTypes DEF DirtyFrames
  <2>2. disk' \in DiskType /\ versions' \in [Pages -> SUBSET Contents]
    BY <1>17, <1>a, <1>e, <1>f, <2>1 DEF FlushAllFails
  <2> QED
    BY <1>17, <1>a, <1>e, <2>2 DEF FlushAllFails, TypeOK
<1>18. ASSUME NEW n \in 0 .. pool_size, ProcessExit(n)
       PROVE  TypeOK'
  BY <1>18, <1>a, <1>c, <1>e DEF ProcessExit, Restart, TypeOK
<1>19. ASSUME ResetMetrics
       PROVE  TypeOK'
  BY <1>19, <1>a, <1>c DEF ResetMetrics, TypeOK
<1>20. ASSUME PowerLoss
       PROVE  TypeOK'
  <2>1. disk' \in DiskType
    <3>1. 0 \in Pages /\ Hole \in Contents
      BY MaxPagesAssumption DEF Pages, Contents
    <3> QED
      BY <1>20, <1>a, <3>1, DiskOperatorsType DEF PowerLoss
  <2> QED
    BY <1>20, <1>a, <1>c, <2>1 DEF PowerLoss, Restart, TypeOK
<1>21. ASSUME UNCHANGED vars
       PROVE  TypeOK'
  BY <1>21, <1>a DEF vars, TypeOK
<1> QED
  BY <1>1, <1>2, <1>3, <1>4, <1>5, <1>6, <1>7, <1>9, <1>10, <1>11, <1>12, <1>13,
     <1>14, <1>15, <1>16, <1>17, <1>18, <1>19, <1>20, <1>21 DEF Next

-----------------------------------------------------------------------------
(* The bookkeeping without the types and the file. *)
PoolShape ==
    /\ HandleShape
    /\ HandlesStable
    /\ PinAccounting
    /\ TableMirrorsFrames
    /\ VictimsEvictable

(* A step that moves no page and no pin, and at most takes frames off the
   replacer's list, keeps the bookkeeping. *)
LEMMA SamePins ==
    ASSUME PoolInv, TypeOK',
           \A f \in Frames : /\ frames'[f].page_id = frames[f].page_id
                             /\ frames'[f].pin_count = frames[f].pin_count,
           page_table' = page_table,
           \A c \in Clients : /\ held'[c].page = held[c].page
                              /\ held'[c].frame = held[c].frame,
           OnceEach(lru_list'), Listed(lru_list') \subseteq Listed(lru_list)
    PROVE  PoolShape'
<1>1. HandleShape'
  BY DEF PoolInv, HandleShape
<1>2. HandlesStable'
  BY DEF PoolInv, HandlesStable, holds
<1>3. PinAccounting'
  <2> SUFFICES ASSUME NEW f \in Frames
               PROVE  frames'[f].pin_count = Cardinality({c \in Clients : held'[c].frame = f})
    BY DEF PinAccounting
  <2>1. {c \in Clients : held'[c].frame = f} = {c \in Clients : held[c].frame = f}
    OBVIOUS
  <2> QED
    BY <2>1 DEF PoolInv, PinAccounting
<1>4. TableMirrorsFrames'
  BY DEF PoolInv, TableMirrorsFrames
<1>5. VictimsEvictable'
  <2>1. \A g \in Listed(lru_list) : ~is_free(g) /\ frames[g].pin_count = 0 /\ g \in Frames
    BY LenProperties, ElementOfSeq DEF PoolInv, TypeOK, VictimsEvictable, Listed
  <2>2. \A i \in DOMAIN lru_list' : lru_list'[i] \in Listed(lru_list)
    BY DEF Listed
  <2> QED
    BY <2>1, <2>2 DEF VictimsEvictable, OnceEach, is_free
<1> QED
  BY <1>1, <1>2, <1>3, <1>4, <1>5 DEF PoolShape

(* A step that empties a frame nobody holds keeps the bookkeeping: an eviction
   whose read or allocation fails, and delete_page. *)
LEMMA FrameEmptied ==
    ASSUME PoolInv, TypeOK', NEW f \in Frames,
           \A c \in Clients : held[c].frame # f,
           frames' = [frames EXCEPT ![f] = FreeFrame],
           \A p \in Pages : page_table'[p] = IF p = frames[f].page_id
                                             THEN INVALID_FRAME_ID ELSE page_table[p],
           held' = held,
           OnceEach(lru_list'), Listed(lru_list') = Listed(lru_list) \ {f}
    PROVE  PoolShape'
<1> USE DEF PoolInv
<1>a. /\ frames \in [Frames -> FrameType]
      /\ page_table \in [Pages -> Frames \cup {INVALID_FRAME_ID}]
      /\ lru_list' \in Seq(Frames) /\ lru_list \in Seq(Frames)
      /\ held \in [Clients -> HandleType]
  BY DEF TypeOK
<1>b. INVALID_PAGE_ID \notin Pages /\ INVALID_FRAME_ID \notin Frames
  BY MaxPagesAssumption, PoolSizeAssumption DEF INVALID_PAGE_ID, INVALID_FRAME_ID, Pages, Frames
<1>c. /\ \A g \in Frames \ {f} : frames'[g] = frames[g]
      /\ frames'[f].page_id = INVALID_PAGE_ID /\ frames'[f].pin_count = 0
  BY <1>a DEF FreeFrame
<1>1. HandleShape'
  BY DEF HandleShape
<1>2. HandlesStable'
  <2> SUFFICES ASSUME NEW c \in Clients, holds(c)
               PROVE  /\ held[c].frame \in Frames
                      /\ frames'[held[c].frame].page_id = held[c].page
                      /\ page_table'[held[c].page] = held[c].frame
    BY DEF HandlesStable, holds
  <2>1. /\ held[c].frame \in Frames \ {f} /\ held[c].page \in Pages
        /\ frames[held[c].frame].page_id = held[c].page
        /\ page_table[held[c].page] = held[c].frame
    BY <1>a DEF HandlesStable, holds, HandleType
  <2>2. held[c].page # frames[f].page_id
    BY <2>1 DEF TableMirrorsFrames
  <2> QED
    BY <2>1, <2>2, <1>c
<1>3. PinAccounting'
  <2> SUFFICES ASSUME NEW g \in Frames
               PROVE  frames'[g].pin_count = Cardinality({c \in Clients : held[c].frame = g})
    BY DEF PinAccounting
  <2>1. CASE g = f
    <3>1. {c \in Clients : held[c].frame = g} = {}
      BY <2>1
    <3> QED
      BY <2>1, <3>1, <1>c, FS_EmptySet
  <2>2. CASE g # f
    BY <2>2, <1>c DEF PinAccounting
  <2> QED
    BY <2>1, <2>2
<1>4. TableMirrorsFrames'
  <2> SUFFICES ASSUME NEW p \in Pages, NEW g \in Frames
               PROVE  page_table'[p] = g <=> frames'[g].page_id = p
    BY DEF TableMirrorsFrames
  <2>1. page_table[p] = g <=> frames[g].page_id = p
    BY DEF TableMirrorsFrames
  <2>2. page_table[p] = f <=> frames[f].page_id = p
    BY DEF TableMirrorsFrames
  <2>3. CASE g = f
    BY <2>1, <2>3, <1>b, <1>c
  <2>4. CASE g # f
    BY <2>1, <2>2, <2>4, <1>b, <1>c
  <2> QED
    BY <2>3, <2>4
<1>5. VictimsEvictable'
  <2>1. \A g \in Listed(lru_list) : ~is_free(g) /\ frames[g].pin_count = 0 /\ g \in Frames
    BY <1>a, LenProperties, ElementOfSeq DEF VictimsEvictable, Listed
  <2>2. \A i \in DOMAIN lru_list' : lru_list'[i] \in Listed(lru_list) \ {f}
    BY DEF Listed
  <2> QED
    BY <2>1, <2>2, <1>c DEF VictimsEvictable, OnceEach, is_free
<1> QED
  BY <1>1, <1>2, <1>3, <1>4, <1>5 DEF PoolShape

(* A step that gives the victim's frame to a page that is not in the pool, with
   the pin of a client that held nothing, keeps the bookkeeping: fetch_page on
   a miss and new_page. *)
LEMMA FrameOccupied ==
    ASSUME PoolInv, TypeOK', find_victim_frame # INVALID_FRAME_ID,
           NEW p \in Pages, ~in_pool(p), NEW c \in Clients, ~holds(c),
           NEW page, NEW is_dirty, Occupy(find_victim_frame, p, c, page, is_dirty)
    PROVE  PoolShape'
<1> USE DEF PoolInv
<1> DEFINE f == find_victim_frame
<1>0. /\ f \in Frames /\ \A d \in Clients : held[d].frame # f
      /\ ListAfterVictim \in Seq(Frames) /\ OnceEach(ListAfterVictim)
      /\ Listed(ListAfterVictim) = Listed(lru_list) \ {f}
      /\ Occupy(f, p, c, page, is_dirty)
  BY VictimFacts
<1> HIDE DEF f
<1>a. /\ frames \in [Frames -> FrameType]
      /\ page_table \in [Pages -> Frames \cup {INVALID_FRAME_ID}]
      /\ lru_list' \in Seq(Frames) /\ lru_list \in Seq(Frames)
      /\ held \in [Clients -> HandleType]
  BY DEF TypeOK
<1>b. INVALID_PAGE_ID \notin Pages /\ INVALID_FRAME_ID \notin Frames
  BY MaxPagesAssumption, PoolSizeAssumption DEF INVALID_PAGE_ID, INVALID_FRAME_ID, Pages, Frames
<1>c. /\ \A g \in Frames \ {f} : frames'[g] = frames[g]
      /\ frames'[f].page_id = p /\ frames'[f].pin_count = 1
  BY <1>0, <1>a DEF Occupy
<1>d. \A q \in Pages : page_table'[q] = IF q = p THEN f
                                        ELSE IF q = frames[f].page_id THEN INVALID_FRAME_ID
                                        ELSE page_table[q]
  BY <1>0 DEF Occupy, TableAfterEviction
<1>e. /\ \A d \in Clients \ {c} : held'[d] = held[d]
      /\ held'[c].page = p /\ held'[c].frame = f
  BY <1>0, <1>a DEF Occupy
<1>f. held[c].frame = INVALID_FRAME_ID /\ page_table[p] = INVALID_FRAME_ID
  BY DEF HandleShape, holds, in_pool
<1>1. HandleShape'
  BY <1>0, <1>b, <1>e DEF HandleShape
<1>2. HandlesStable'
  <2> SUFFICES ASSUME NEW d \in Clients, holds(d)'
               PROVE  /\ held'[d].frame \in Frames
                      /\ frames'[held'[d].frame].page_id = held'[d].page
                      /\ page_table'[held'[d].page] = held'[d].frame
    BY DEF HandlesStable
  <2>1. CASE d = c
    BY <2>1, <1>0, <1>c, <1>d, <1>e
  <2>2. CASE d # c
    <3>1. /\ held[d].frame \in Frames \ {f} /\ held[d].page \in Pages
          /\ frames[held[d].frame].page_id = held[d].page
          /\ page_table[held[d].page] = held[d].frame
      BY <2>2, <1>0, <1>a, <1>e DEF HandlesStable, holds, HandleType
    <3>2. held[d].page # frames[f].page_id /\ held[d].page # p
      BY <3>1, <1>0, <1>b, <1>f DEF TableMirrorsFrames
    <3> QED
      BY <2>2, <3>1, <3>2, <1>c, <1>d, <1>e
  <2> QED
    BY <2>1, <2>2
<1>3. PinAccounting'
  <2> SUFFICES ASSUME NEW g \in Frames
               PROVE  frames'[g].pin_count = Cardinality({d \in Clients : held'[d].frame = g})
    BY DEF PinAccounting
  <2>1. CASE g = f
    <3>1. {d \in Clients : held'[d].frame = g} = {c}
      BY <2>1, <1>0, <1>e
    <3> QED
      BY <2>1, <3>1, <1>c, FS_Singleton
  <2>2. CASE g # f
    <3>1. {d \in Clients : held'[d].frame = g} = {d \in Clients : held[d].frame = g}
      BY <2>2, <1>b, <1>e, <1>f
    <3> QED
      BY <2>2, <3>1, <1>c DEF PinAccounting
  <2> QED
    BY <2>1, <2>2
<1>4. TableMirrorsFrames'
  <2> SUFFICES ASSUME NEW q \in Pages, NEW g \in Frames
               PROVE  page_table'[q] = g <=> frames'[g].page_id = q
    BY DEF TableMirrorsFrames
  <2>1. page_table[q] = g <=> frames[g].page_id = q
    BY DEF TableMirrorsFrames
  <2>2. page_table[q] = f <=> frames[f].page_id = q
    BY <1>0 DEF TableMirrorsFrames
  <2>3. frames[g].page_id # p
    BY <1>b, <1>f DEF TableMirrorsFrames
  <2>4. CASE g = f
    BY <2>1, <2>4, <1>b, <1>c, <1>d
  <2>5. CASE g # f
    BY <2>1, <2>2, <2>3, <2>5, <1>b, <1>c, <1>d
  <2> QED
    BY <2>4, <2>5
<1>5. VictimsEvictable'
  <2>1. \A g \in Listed(lru_list) : ~is_free(g) /\ frames[g].pin_count = 0 /\ g \in Frames
    BY <1>a, LenProperties, ElementOfSeq DEF VictimsEvictable, Listed
  <2>2. /\ OnceEach(lru_list')
        /\ Listed(lru_list') = Listed(lru_list) \ {f}
    BY <1>0, PinFrameProperties DEF Occupy
  <2>3. \A i \in DOMAIN lru_list' : lru_list'[i] \in Listed(lru_list) \ {f}
    BY <2>2 DEF Listed
  <2> QED
    BY <2>1, <2>2, <2>3, <1>c DEF VictimsEvictable, OnceEach, is_free
<1> QED
  BY <1>1, <1>2, <1>3, <1>4, <1>5 DEF PoolShape

(* A hit adds one holder and one pin, and takes the frame off the list. *)
LEMMA HitKeepsShape ==
    ASSUME PoolInv, TypeOK', NEW p \in Pages, NEW c \in Clients, FetchHit(c, p)
    PROVE  PoolShape'
<1> USE DEF PoolInv
<1> DEFINE f == page_table[p]
<1>a. /\ frames \in [Frames -> FrameType]
      /\ page_table \in [Pages -> Frames \cup {INVALID_FRAME_ID}]
      /\ lru_list' \in Seq(Frames) /\ lru_list \in Seq(Frames) /\ OnceEach(lru_list)
      /\ held \in [Clients -> HandleType]
  BY DEF TypeOK, VictimsEvictable, OnceEach
<1>b. INVALID_PAGE_ID \notin Pages /\ INVALID_FRAME_ID \notin Frames
  BY MaxPagesAssumption, PoolSizeAssumption DEF INVALID_PAGE_ID, INVALID_FRAME_ID, Pages, Frames
<1>0. /\ f \in Frames /\ frames[f].page_id = p
      /\ held[c].frame = INVALID_FRAME_ID /\ held[c].page = INVALID_PAGE_ID
      /\ page_table' = page_table
  BY <1>a DEF FetchHit, in_pool, holds, HandleShape, TableMirrorsFrames
<1>c. /\ \A g \in Frames \ {f} : frames'[g] = frames[g]
      /\ frames'[f].page_id = p /\ frames'[f].pin_count = frames[f].pin_count + 1
  BY <1>0, <1>a DEF FetchHit, Pinned, FrameType
<1>e. /\ \A d \in Clients \ {c} : held'[d] = held[d]
      /\ held'[c].page = p /\ held'[c].frame = f
  BY <1>0, <1>a DEF FetchHit
<1>g. lru_list' = PinFrame(lru_list, f)
  BY DEF FetchHit
<1> HIDE DEF f
<1>1. HandleShape'
  BY <1>0, <1>b, <1>e DEF HandleShape
<1>2. HandlesStable'
  <2> SUFFICES ASSUME NEW d \in Clients, holds(d)'
               PROVE  /\ held'[d].frame \in Frames
                      /\ frames'[held'[d].frame].page_id = held'[d].page
                      /\ page_table'[held'[d].page] = held'[d].frame
    BY DEF HandlesStable
  <2>1. CASE d = c
    BY <2>1, <1>0, <1>c, <1>e DEF f
  <2>2. CASE d # c
    BY <2>2, <1>0, <1>c, <1>e DEF HandlesStable, holds
  <2> QED
    BY <2>1, <2>2
<1>3. PinAccounting'
  <2> SUFFICES ASSUME NEW g \in Frames
               PROVE  frames'[g].pin_count = Cardinality({d \in Clients : held'[d].frame = g})
    BY DEF PinAccounting
  <2>1. CASE g = f
    <3>1. {d \in Clients : held'[d].frame = g} = Holders(f) \cup {c}
      BY <2>1, <1>e DEF Holders
    <3>2. c \notin Holders(f) /\ IsFiniteSet(Holders(f))
          /\ frames[f].pin_count = Cardinality(Holders(f))
      BY <1>0, <1>b, NoPinNoHolder DEF Holders
    <3>3. Cardinality(Holders(f) \cup {c}) = Cardinality(Holders(f)) + 1
      BY <3>2, FS_AddElement
    <3> QED
      BY <2>1, <3>1, <3>2, <3>3, <1>c
  <2>2. CASE g # f
    <3>1. {d \in Clients : held'[d].frame = g} = {d \in Clients : held[d].frame = g}
      BY <2>2, <1>0, <1>b, <1>e
    <3> QED
      BY <2>2, <3>1, <1>c DEF PinAccounting
  <2> QED
    BY <2>1, <2>2
<1>4. TableMirrorsFrames'
  BY <1>0, <1>c DEF TableMirrorsFrames
<1>5. VictimsEvictable'
  <2>1. \A g \in Listed(lru_list) : ~is_free(g) /\ frames[g].pin_count = 0 /\ g \in Frames
    BY <1>a, LenProperties, ElementOfSeq DEF VictimsEvictable, Listed
  <2>2. OnceEach(lru_list') /\ Listed(lru_list') = Listed(lru_list) \ {f}
    BY <1>a, <1>g, PinFrameProperties
  <2>3. \A i \in DOMAIN lru_list' : lru_list'[i] \in Listed(lru_list) \ {f}
    BY <2>2 DEF Listed
  <2> QED
    BY <2>1, <2>2, <2>3, <1>c DEF VictimsEvictable, OnceEach, is_free
<1> QED
  BY <1>1, <1>2, <1>3, <1>4, <1>5 DEF PoolShape

(* unpin_page takes back one holder and one pin, and lists the frame when that
   was the last. *)
LEMMA UnpinKeepsShape ==
    ASSUME PoolInv, TypeOK', NEW c \in Clients, Unpin(c)
    PROVE  PoolShape'
<1> USE DEF PoolInv
<1> DEFINE f == held[c].frame
<1>a. /\ frames \in [Frames -> FrameType]
      /\ page_table \in [Pages -> Frames \cup {INVALID_FRAME_ID}]
      /\ lru_list' \in Seq(Frames) /\ lru_list \in Seq(Frames) /\ OnceEach(lru_list)
      /\ held \in [Clients -> HandleType]
  BY DEF TypeOK, VictimsEvictable, OnceEach
<1>b. INVALID_PAGE_ID \notin Pages /\ INVALID_FRAME_ID \notin Frames
  BY MaxPagesAssumption, PoolSizeAssumption DEF INVALID_PAGE_ID, INVALID_FRAME_ID, Pages, Frames
<1>0. /\ f \in Frames /\ page_table[held[c].page] = f
      /\ frames[f].page_id = held[c].page /\ held[c].page \in Pages
      /\ page_table' = page_table
  BY <1>a DEF Unpin, HandlesStable, holds, HandleType
<1>c. /\ \A g \in Frames \ {f} : frames'[g] = frames[g]
      /\ frames'[f].page_id = frames[f].page_id
      /\ frames'[f].pin_count = frames[f].pin_count - 1
  <2>1. frames' = [frames EXCEPT ![f].is_dirty = @ \/ held[c].wrote,
                                 ![f].pin_count = frames[f].pin_count - 1]
    BY <1>0 DEF Unpin
  <2> DEFINE dirty == frames[f].is_dirty \/ held[c].wrote
  <2>2. frames' = [frames EXCEPT ![f].is_dirty = dirty,
                                 ![f].pin_count = frames[f].pin_count - 1]
    BY <2>1
  <2> HIDE DEF dirty
  <2> QED
    BY <2>2, <1>0, <1>a DEF FrameType
<1>e. /\ \A d \in Clients \ {c} : held'[d] = held[d]
      /\ held'[c].page = INVALID_PAGE_ID /\ held'[c].frame = INVALID_FRAME_ID
  BY <1>a DEF Unpin, NoHandle
<1>g. lru_list' = IF frames'[f].pin_count = 0
                  THEN UnpinFrame(lru_list, f, pool_size) ELSE lru_list
  BY <1>0, <1>c DEF Unpin
<1> HIDE DEF f
<1>1. HandleShape'
  BY <1>b, <1>e DEF HandleShape
<1>2. HandlesStable'
  <2> SUFFICES ASSUME NEW d \in Clients, holds(d)'
               PROVE  /\ held'[d].frame \in Frames
                      /\ frames'[held'[d].frame].page_id = held'[d].page
                      /\ page_table'[held'[d].page] = held'[d].frame
    BY DEF HandlesStable
  <2>1. d # c
    BY <1>e DEF holds
  <2> QED
    BY <2>1, <1>0, <1>c, <1>e DEF HandlesStable, holds
<1>3. PinAccounting'
  <2> SUFFICES ASSUME NEW g \in Frames
               PROVE  frames'[g].pin_count = Cardinality({d \in Clients : held'[d].frame = g})
    BY DEF PinAccounting
  <2>1. CASE g = f
    <3>1. {d \in Clients : held'[d].frame = g} = Holders(f) \ {c}
      BY <2>1, <1>0, <1>b, <1>e DEF Holders
    <3>2. c \in Holders(f) /\ IsFiniteSet(Holders(f))
          /\ frames[f].pin_count = Cardinality(Holders(f))
      BY <1>0, NoPinNoHolder DEF Holders, f
    <3>3. Cardinality(Holders(f) \ {c}) = Cardinality(Holders(f)) - 1
      BY <3>2, FS_RemoveElement
    <3> QED
      BY <2>1, <3>1, <3>2, <3>3, <1>c
  <2>2. CASE g # f
    <3>1. {d \in Clients : held'[d].frame = g} = {d \in Clients : held[d].frame = g}
      BY <2>2, <1>b, <1>e DEF f
    <3> QED
      BY <2>2, <3>1, <1>c DEF PinAccounting
  <2> QED
    BY <2>1, <2>2
<1>4. TableMirrorsFrames'
  BY <1>0, <1>c DEF TableMirrorsFrames
<1>5. VictimsEvictable'
  <2>1. \A g \in Listed(lru_list) : ~is_free(g) /\ frames[g].pin_count = 0 /\ g \in Frames
    BY <1>a, LenProperties, ElementOfSeq DEF VictimsEvictable, Listed
  <2>2. f \notin Listed(lru_list)
    <3>1. frames[f].pin_count # 0
      BY <1>0, NoPinNoHolder DEF f
    <3> QED
      BY <3>1, <2>1
  <2>3. ~is_free(f)
    BY <1>0, <1>b DEF is_free
  <2>4. CASE frames'[f].pin_count = 0
    <3>1. /\ OnceEach(lru_list')
          /\ Listed(lru_list') \subseteq Listed(lru_list) \cup {f}
      <4> DEFINE unpinned == UnpinFrame(lru_list, f, pool_size)
      <4>1. pool_size \in Nat
        BY PoolSizeAssumption
      <4>2. /\ OnceEach(unpinned)
            /\ Len(PinFrame(lru_list, f)) >= pool_size => unpinned = PinFrame(lru_list, f)
            /\ Len(PinFrame(lru_list, f)) < pool_size =>
                  Listed(unpinned) = Listed(lru_list) \cup {f}
        BY <1>0, <1>a, <4>1, UnpinFrameProperties
      <4>3. /\ Len(PinFrame(lru_list, f)) \in Nat
            /\ Listed(PinFrame(lru_list, f)) = Listed(lru_list) \ {f}
        BY <1>a, PinFrameProperties, LenProperties
      <4>4. Len(PinFrame(lru_list, f)) >= pool_size \/ Len(PinFrame(lru_list, f)) < pool_size
        BY <4>1, <4>3
      <4>5. lru_list' = unpinned
        BY <2>4, <1>g
      <4> HIDE DEF unpinned
      <4> QED
        BY <4>2, <4>3, <4>4, <4>5
    <3>2. \A i \in DOMAIN lru_list' : lru_list'[i] \in Listed(lru_list) \cup {f}
      BY <3>1 DEF Listed
    <3> QED
      BY <2>1, <2>3, <2>4, <3>1, <3>2, <1>0, <1>c DEF VictimsEvictable, OnceEach, is_free
  <2>5. CASE frames'[f].pin_count # 0
    <3>1. \A i \in DOMAIN lru_list' : lru_list'[i] \in Listed(lru_list) /\ lru_list'[i] # f
      BY <2>2, <2>5, <1>g DEF Listed
    <3> QED
      BY <2>1, <2>5, <3>1, <1>a, <1>c, <1>g DEF VictimsEvictable, OnceEach, is_free
  <2> QED
    BY <2>4, <2>5
<1> QED
  BY <1>1, <1>2, <1>3, <1>4, <1>5 DEF PoolShape

(* A new process starts with an empty pool. *)
EmptyPool ==
    /\ frames = [f \in Frames |-> FreeFrame]
    /\ page_table = [p \in Pages |-> INVALID_FRAME_ID]
    /\ lru_list = <<>>
    /\ held = [c \in Clients |-> NoHandle]

LEMMA EmptyPoolShape == EmptyPool => PoolShape /\ ResidentInFile
<1> SUFFICES ASSUME EmptyPool
             PROVE  PoolShape /\ ResidentInFile
  OBVIOUS
<1> USE DEF EmptyPool
<1>b. INVALID_PAGE_ID \notin Pages /\ INVALID_FRAME_ID \notin Frames
  BY MaxPagesAssumption, PoolSizeAssumption DEF INVALID_PAGE_ID, INVALID_FRAME_ID, Pages, Frames
<1>1. HandleShape /\ HandlesStable
  BY DEF HandleShape, HandlesStable, NoHandle, holds
<1>2. PinAccounting
  <2>1. \A f \in Frames : {c \in Clients : held[c].frame = f} = {}
    BY <1>b DEF NoHandle
  <2> QED
    BY <2>1, FS_EmptySet DEF PinAccounting, FreeFrame
<1>3. TableMirrorsFrames
  BY <1>b DEF TableMirrorsFrames, FreeFrame
<1>4. VictimsEvictable
  <2>1. DOMAIN lru_list = {}
    OBVIOUS
  <2> QED
    BY <2>1 DEF VictimsEvictable
<1>5. ResidentInFile
  BY DEF ResidentInFile, in_pool
<1> QED
  BY <1>1, <1>2, <1>3, <1>4, <1>5 DEF PoolShape

LEMMA EmptyPoolShapeNext == EmptyPool' => PoolShape' /\ ResidentInFile'
  BY EmptyPoolShape, PTL

-----------------------------------------------------------------------------
(* What each operation of the disk does to the file and to the device. *)
LEMMA WriteFields ==
    ASSUME NEW d \in DiskType, NEW p \in Pages, NEW page \in Contents, p < d.page_count
    PROVE  /\ WritePage(d, p, page).page_count = d.page_count
           /\ WritePage(d, p, page).pages = [d.pages EXCEPT ![p] = page]
           /\ WritePage(d, p, page).synced = d.synced
           /\ WritePage(d, p, page).synced_count = d.synced_count
  BY DEF WritePage, DiskType

LEMMA DiskFields ==
    ASSUME NEW d \in DiskType, NEW p \in Pages
    PROVE  /\ \A page \in Contents : p < d.page_count =>
                 /\ WritePage(d, p, page).page_count = d.page_count
                 /\ WritePage(d, p, page).pages = [d.pages EXCEPT ![p] = page]
                 /\ WritePage(d, p, page).synced = d.synced
                 /\ WritePage(d, p, page).synced_count = d.synced_count
           /\ p = d.page_count =>
                 /\ AllocatePage(d).page_count = d.page_count + 1
                 /\ AllocatePage(d).pages = [d.pages EXCEPT ![p] = Fresh]
                 /\ AllocatePage(d).synced = d.synced
                 /\ AllocatePage(d).synced_count = d.synced_count
           /\ TearPage(d, p).page_count = d.page_count
           /\ TearPage(d, p).synced_count = d.synced_count
           /\ TearPage(d, p).synced = d.synced
           /\ TearPage(d, p).pages = [d.pages EXCEPT ![p] = Torn]
           /\ Flush(d).page_count = d.page_count
           /\ Flush(d).pages = d.pages
           /\ Flush(d).synced = d.pages
           /\ Flush(d).synced_count = d.page_count
           /\ WriteBack(d, p).page_count = d.page_count
           /\ WriteBack(d, p).pages = d.pages
           /\ WriteBack(d, p).synced = [d.synced EXCEPT ![p] = d.pages[p]]
           /\ WriteBack(d, p).synced_count =
                 IF p < d.synced_count THEN d.synced_count ELSE p + 1
           /\ AfterPowerLoss(d).page_count = d.synced_count
           /\ AfterPowerLoss(d).pages = d.synced
           /\ AfterPowerLoss(d).synced = d.synced
           /\ AfterPowerLoss(d).synced_count = d.synced_count
<1> USE DEF DiskType
<1>0. d.page_count \in Nat /\ ~(d.page_count < d.page_count)
  BY MaxPagesAssumption
<1>1. ASSUME NEW page \in Contents, p < d.page_count
      PROVE  /\ WritePage(d, p, page).page_count = d.page_count
             /\ WritePage(d, p, page).pages = [d.pages EXCEPT ![p] = page]
             /\ WritePage(d, p, page).synced = d.synced
             /\ WritePage(d, p, page).synced_count = d.synced_count
  BY <1>1, WriteFields
<1>2. ASSUME p = d.page_count
      PROVE  /\ AllocatePage(d).page_count = d.page_count + 1
             /\ AllocatePage(d).pages = [d.pages EXCEPT ![p] = Fresh]
             /\ AllocatePage(d).synced = d.synced
             /\ AllocatePage(d).synced_count = d.synced_count
  BY <1>0, <1>2 DEF AllocatePage, WritePage
<1>3. /\ TearPage(d, p).page_count = d.page_count
      /\ TearPage(d, p).synced_count = d.synced_count
      /\ TearPage(d, p).synced = d.synced
      /\ TearPage(d, p).pages = [d.pages EXCEPT ![p] = Torn]
  BY DEF TearPage
<1>4. /\ Flush(d).page_count = d.page_count /\ Flush(d).pages = d.pages
      /\ Flush(d).synced = d.pages /\ Flush(d).synced_count = d.page_count
  BY DEF Flush
<1>5. /\ WriteBack(d, p).page_count = d.page_count /\ WriteBack(d, p).pages = d.pages
      /\ WriteBack(d, p).synced = [d.synced EXCEPT ![p] = d.pages[p]]
      /\ WriteBack(d, p).synced_count =
            IF p < d.synced_count THEN d.synced_count ELSE p + 1
  BY DEF WriteBack
<1>6. /\ AfterPowerLoss(d).page_count = d.synced_count
      /\ AfterPowerLoss(d).pages = d.synced
      /\ AfterPowerLoss(d).synced = d.synced
      /\ AfterPowerLoss(d).synced_count = d.synced_count
  BY DEF AfterPowerLoss
<1> QED
  BY <1>1, <1>2, <1>3, <1>4, <1>5, <1>6

(* Eviction writes inside the file. *)
LEMMA EvictionFields ==
    ASSUME PoolInv, NEW f \in Frames
    PROVE  LET evicted == DiskAfterEviction(f)
           IN  /\ evicted.page_count = disk.page_count
               /\ ~must_write(f) => evicted = disk
               /\ must_write(f) =>
                     /\ frames[f].page_id \in Pages
                     /\ frames[f].page_id < disk.page_count
                     /\ evicted.pages = [disk.pages EXCEPT ![frames[f].page_id] = frames[f].page]
                     /\ evicted.synced = evicted.pages
                     /\ evicted.synced_count = disk.page_count
<1> USE DEF PoolInv
<1>1. CASE ~must_write(f)
  BY <1>1 DEF DiskAfterEviction
<1>2. CASE must_write(f)
  <2> DEFINE p == frames[f].page_id
             page == frames[f].page
             written == WritePage(disk, p, page)
  <2>1. p \in Pages /\ page \in Contents /\ disk \in DiskType
    BY <1>2 DEF TypeOK, FrameType, must_write, is_free
  <2>2. page_table[p] = f
    BY <2>1 DEF TableMirrorsFrames
  <2>3. p < disk.page_count
    BY <2>1, <2>2, PoolSizeAssumption
       DEF ResidentInFile, in_pool, Frames, INVALID_FRAME_ID
  <2>4. DiskAfterEviction(f) = Flush(written)
    BY <1>2 DEF DiskAfterEviction
  <2> HIDE DEF p, page
  <2>5. written \in DiskType
    BY <2>1, DiskOperatorsType
  <2>6. written.page_count = disk.page_count /\ written.pages = [disk.pages EXCEPT ![p] = page]
    BY <2>1, <2>3, WriteFields
  <2> HIDE DEF written
  <2>7. /\ Flush(written).page_count = written.page_count
        /\ Flush(written).pages = written.pages
        /\ Flush(written).synced = written.pages
        /\ Flush(written).synced_count = written.page_count
    BY <2>1, <2>5, DiskFields
  <2> QED
    BY <1>2, <2>1, <2>3, <2>4, <2>6, <2>7 DEF p, page
<1> QED
  BY <1>1, <1>2

-----------------------------------------------------------------------------
(* An operation that touches neither the frames' pages and pins nor the
   table, the list and the holders. *)
LEMMA SameLists ==
    ASSUME PoolInv, TypeOK', lru_list' = lru_list, page_table' = page_table,
           \A f \in Frames : /\ frames'[f].page_id = frames[f].page_id
                             /\ frames'[f].pin_count = frames[f].pin_count,
           \A c \in Clients : /\ held'[c].page = held[c].page
                              /\ held'[c].frame = held[c].frame
    PROVE  PoolShape'
  BY SamePins DEF PoolInv, VictimsEvictable, OnceEach

(* Clearing flags leaves pages and pins as they are. *)
LEMMA LoopKeepsPins ==
    ASSUME TypeOK, NEW n, NEW f \in Frames
    PROVE  /\ FramesAfterLoop(n)[f].page_id = frames[f].page_id
           /\ FramesAfterLoop(n)[f].pin_count = frames[f].pin_count
           /\ FramesAfterLoop(n)[f].page = frames[f].page
  BY DEF TypeOK, FrameType, FramesAfterLoop

(* Every step keeps the bookkeeping of frames, pins, table and list. *)
LEMMA NextPoolShape == PoolInv /\ [Next]_vars => PoolShape'
<1> SUFFICES ASSUME PoolInv, [Next]_vars
             PROVE  PoolShape'
  OBVIOUS
<1>0. TypeOK'
  BY NextTypeOK
<1>a. /\ TypeOK
      /\ frames \in [Frames -> FrameType]
      /\ page_table \in [Pages -> Frames \cup {INVALID_FRAME_ID}]
      /\ lru_list \in Seq(Frames) /\ OnceEach(lru_list)
      /\ held \in [Clients -> HandleType]
  BY DEF PoolInv, TypeOK, VictimsEvictable, OnceEach
<1>b. \A p \in Pages : in_pool(p) => page_table[p] \in Frames
  BY <1>a, PieceTypes
<1>1. ASSUME NEW c \in Clients, NEW p \in Pages, FetchHit(c, p)
      PROVE  PoolShape'
  BY <1>0, <1>1, HitKeepsShape
<1>2. ASSUME NEW c \in Clients, NEW p \in Pages, FetchMiss(c, p)
      PROVE  PoolShape'
  <2>1. PICK page : Occupy(find_victim_frame, p, c, page, FALSE)
    BY <1>2 DEF FetchMiss
  <2> QED
    BY <1>0, <1>2, <2>1, FrameOccupied DEF FetchMiss
<1>3. ASSUME NEW c \in Clients, NewPage(c)
      PROVE  PoolShape'
  <2> DEFINE p == DiskAfterEviction(find_victim_frame).page_count
  <2>1. /\ find_victim_frame # INVALID_FRAME_ID /\ find_victim_frame \in Frames
        /\ p < MaxPages /\ Occupy(find_victim_frame, p, c, Fresh, TRUE) /\ ~holds(c)
    BY <1>3, VictimFacts DEF NewPage
  <2>2. p = disk.page_count
    BY <2>1, EvictionFields
  <2>3. p \in Pages /\ ~(p < disk.page_count)
    BY <1>a, <2>1, <2>2, MaxPagesAssumption DEF TypeOK, DiskType, Pages
  <2>4. ~in_pool(p)
    BY <2>3 DEF PoolInv, ResidentInFile
  <2> HIDE DEF p
  <2> QED
    BY <1>0, <2>1, <2>3, <2>4, FrameOccupied
<1>4. ASSUME NEW c \in Clients, NEW v \in Values, ClientWrite(c, v)
      PROVE  PoolShape'
  <2>1. \A f \in Frames : /\ frames'[f].page_id = frames[f].page_id
                          /\ frames'[f].pin_count = frames[f].pin_count
    BY <1>4, <1>a DEF ClientWrite, FrameType
  <2>2. \A d \in Clients : held'[d].page = held[d].page /\ held'[d].frame = held[d].frame
    BY <1>4, <1>a DEF ClientWrite, HandleType
  <2> QED
    BY <1>0, <1>4, <2>1, <2>2, SameLists DEF ClientWrite
<1>5. ASSUME NEW c \in Clients, Unpin(c)
      PROVE  PoolShape'
  BY <1>0, <1>5, UnpinKeepsShape
<1>6. ASSUME find_victim_frame # INVALID_FRAME_ID,
             frames' = [frames EXCEPT ![find_victim_frame] = FreeFrame],
             page_table' = TableAfterEviction(find_victim_frame),
             lru_list' = ListAfterVictim, held' = held
      PROVE  PoolShape'
  <2> DEFINE f == find_victim_frame
  <2>1. /\ f \in Frames /\ \A c \in Clients : held[c].frame # f
        /\ OnceEach(lru_list') /\ Listed(lru_list') = Listed(lru_list) \ {f}
    BY <1>6, VictimFacts
  <2>2. \A p \in Pages : page_table'[p] = IF p = frames[f].page_id
                                          THEN INVALID_FRAME_ID ELSE page_table[p]
    BY <1>6 DEF TableAfterEviction
  <2>3. frames' = [frames EXCEPT ![f] = FreeFrame] /\ held' = held
    BY <1>6
  <2> HIDE DEF f
  <2> QED
    BY <1>0, <2>1, <2>2, <2>3, FrameEmptied
<1>7. ASSUME NEW p \in Pages, FetchReadFails(p)
      PROVE  PoolShape'
  BY <1>6, <1>7 DEF FetchReadFails
<1>8. ASSUME NewPageAllocateFails
      PROVE  PoolShape'
  BY <1>6, <1>8 DEF NewPageAllocateFails
<1>9. ASSUME NEW p \in Pages, FetchNoVictim(p)
      PROVE  PoolShape'
  BY <1>0, <1>9, SameLists DEF FetchNoVictim
<1>10. ASSUME EvictionFails
       PROVE  PoolShape'
  <2>1. OnceEach(lru_list') /\ Listed(lru_list') \subseteq Listed(lru_list)
    BY <1>10, VictimFacts DEF EvictionFails
  <2> QED
    BY <1>0, <1>10, <2>1, SamePins DEF EvictionFails
<1>11. ASSUME NEW p \in Pages, FlushPage(p)
       PROVE  PoolShape'
  <2>1. \A f \in Frames : /\ frames'[f].page_id = frames[f].page_id
                          /\ frames'[f].pin_count = frames[f].pin_count
    BY <1>11, <1>a, <1>b DEF FlushPage, FrameType
  <2> QED
    BY <1>0, <1>11, <2>1, SameLists DEF FlushPage
<1>12. ASSUME NEW p \in Pages, FlushPageFails(p)
       PROVE  PoolShape'
  BY <1>0, <1>12, SameLists DEF FlushPageFails
<1>13. ASSUME NEW n, frames' = FramesAfterLoop(n),
              UNCHANGED <<page_table, lru_list, held>>
       PROVE  PoolShape'
  BY <1>0, <1>a, <1>13, LoopKeepsPins, SameLists
<1>14. ASSUME NEW p \in Pages, DeletePage(p)
       PROVE  PoolShape'
  <2> DEFINE f == page_table[p]
  <2>1. f \in Frames /\ frames[f].page_id = p
    BY <1>14, <1>b DEF DeletePage, PoolInv, TableMirrorsFrames
  <2>2. \A c \in Clients : held[c].frame # f
    <3>1. frames[f].pin_count <= 0 /\ frames[f].pin_count \in Nat
      BY <1>14, <1>a, <2>1 DEF DeletePage, FrameType
    <3>2. frames[f].pin_count = 0
      BY <3>1
    <3> QED
      BY <1>a, <2>1, <3>2, NoPinNoHolder DEF PoolInv
  <2>3. OnceEach(lru_list') /\ Listed(lru_list') = Listed(lru_list) \ {f}
    BY <1>14, <1>a, PinFrameProperties DEF DeletePage
  <2>4. \A q \in Pages : page_table'[q] = IF q = frames[f].page_id
                                          THEN INVALID_FRAME_ID ELSE page_table[q]
    BY <1>14, <1>a, <2>1 DEF DeletePage
  <2>5. frames' = [frames EXCEPT ![f] = FreeFrame] /\ held' = held
    BY <1>14 DEF DeletePage
  <2> HIDE DEF f
  <2> QED
    BY <1>0, <2>1, <2>2, <2>3, <2>4, <2>5, FrameEmptied
<1>15. ASSUME UNCHANGED <<frames, page_table, lru_list, held>>
       PROVE  PoolShape'
  BY <1>0, <1>15, SameLists
<1>16. ASSUME Restart
       PROVE  PoolShape'
  <2>1. /\ frames' = [f \in Frames |-> FreeFrame]
        /\ page_table' = [p \in Pages |-> INVALID_FRAME_ID]
        /\ lru_list' = <<>> /\ held' = [c \in Clients |-> NoHandle]
    BY <1>16 DEF Restart
  <2> QED
    BY <2>1, EmptyPoolShapeNext DEF EmptyPool
<1>17. ASSUME NEW n \in 0 .. pool_size, FlushAllFails(n)
       PROVE  PoolShape'
  BY <1>13, <1>17 DEF FlushAllFails
<1>18. ASSUME NEW n \in 0 .. pool_size, ProcessExit(n)
       PROVE  PoolShape'
  BY <1>16, <1>18 DEF ProcessExit
<1>19. FlushAll => PoolShape'
  BY <1>13 DEF FlushAll
<1>20. PowerLoss => PoolShape'
  BY <1>16 DEF PowerLoss
<1>21. ASSUME NEW p \in Pages, WriteBackPage(p)
       PROVE  PoolShape'
  BY <1>15, <1>21 DEF WriteBackPage
<1>22. ResetMetrics \/ UNCHANGED vars => PoolShape'
  BY <1>15 DEF ResetMetrics, vars
<1> QED
  BY <1>1, <1>2, <1>3, <1>4, <1>5, <1>7, <1>8, <1>9, <1>10, <1>11, <1>12, <1>14,
     <1>17, <1>18, <1>19, <1>20, <1>21, <1>22
     DEF Next, FetchEvictFails, NewPageEvictFails

(* Writing a frame's page leaves the length of the file alone. *)
LEMMA WriteKeepsLength ==
    ASSUME PoolInv, NEW f \in Frames, ~is_free(f)
    PROVE  LET written == WritePage(disk, frames[f].page_id, frames[f].page)
           IN  /\ frames[f].page_id \in Pages /\ page_table[frames[f].page_id] = f
               /\ written \in DiskType
               /\ written.page_count = disk.page_count
               /\ written.pages = [disk.pages EXCEPT ![frames[f].page_id] = frames[f].page]
               /\ written.synced = disk.synced
               /\ written.synced_count = disk.synced_count
<1> USE DEF PoolInv
<1> DEFINE p == frames[f].page_id
           page == frames[f].page
<1>1. p \in Pages /\ page \in Contents /\ disk \in DiskType
  BY DEF TypeOK, FrameType, is_free
<1>2. page_table[p] = f
  BY <1>1 DEF TableMirrorsFrames
<1>3. p < disk.page_count
  BY <1>1, <1>2, PoolSizeAssumption
     DEF ResidentInFile, in_pool, Frames, INVALID_FRAME_ID
<1> HIDE DEF p, page
<1>4. WritePage(disk, p, page) \in DiskType
  BY <1>1, DiskOperatorsType
<1>5. /\ WritePage(disk, p, page).page_count = disk.page_count
      /\ WritePage(disk, p, page).pages = [disk.pages EXCEPT ![p] = page]
      /\ WritePage(disk, p, page).synced = disk.synced
      /\ WritePage(disk, p, page).synced_count = disk.synced_count
  BY <1>1, <1>3, WriteFields
<1> QED
  BY <1>1, <1>2, <1>4, <1>5 DEF p, page

(* The file never gets shorter while there are pages in the pool, and it is
   extended before a new page enters the pool. *)
LEMMA NextResidentInFile == PoolInv /\ [Next]_vars => ResidentInFile'
<1> SUFFICES ASSUME PoolInv, [Next]_vars
             PROVE  ResidentInFile'
  OBVIOUS
<1>a. /\ TypeOK /\ disk \in DiskType /\ disk.page_count \in Nat
      /\ page_table \in [Pages -> Frames \cup {INVALID_FRAME_ID}]
      /\ \A p \in Pages : p \in Nat
  BY MaxPagesAssumption DEF PoolInv, TypeOK, DiskType, Pages
<1>b. \A p \in Pages : in_pool(p) => p < disk.page_count
  BY DEF PoolInv, ResidentInFile
<1>c. \A f \in Frames : ~is_free(f) \/ frames[f].page_id = INVALID_PAGE_ID
  BY DEF is_free
<1>1. ASSUME page_table' = page_table, disk'.page_count = disk.page_count
      PROVE  ResidentInFile'
  BY <1>1, <1>b DEF ResidentInFile, in_pool
<1>2. ASSUME NEW f, page_table' = TableAfterEviction(f),
             disk'.page_count = disk.page_count
      PROVE  ResidentInFile'
  BY <1>2, <1>b DEF ResidentInFile, in_pool, TableAfterEviction
<1>3. ASSUME NEW c \in Clients, NEW p \in Pages, FetchMiss(c, p)
      PROVE  ResidentInFile'
  <2>1. disk'.page_count = disk.page_count /\ p < disk.page_count
    BY <1>3, VictimFacts, EvictionFields DEF FetchMiss
  <2>2. page_table' = [TableAfterEviction(find_victim_frame) EXCEPT ![p] = find_victim_frame]
    BY <1>3 DEF FetchMiss, Occupy
  <2> QED
    BY <2>1, <2>2, <1>b DEF ResidentInFile, in_pool, TableAfterEviction
<1>4. ASSUME NEW c \in Clients, NewPage(c)
      PROVE  ResidentInFile'
  <2> DEFINE f == find_victim_frame
             evicted == DiskAfterEviction(f)
             p == evicted.page_count
  <2>1. f \in Frames /\ p = disk.page_count /\ evicted \in DiskType
    BY <1>4, <1>a, VictimFacts, EvictionFields, PieceTypes DEF NewPage
  <2>2. p < MaxPages /\ disk' = AllocatePage(evicted) /\ Occupy(f, p, c, Fresh, TRUE)
    BY <1>4 DEF NewPage
  <2>3. p \in Pages
    BY <1>a, <2>1, <2>2, MaxPagesAssumption DEF Pages
  <2>4. disk'.page_count = disk.page_count + 1
    BY <2>1, <2>2, <2>3, DiskFields
  <2>5. page_table' = [TableAfterEviction(f) EXCEPT ![p] = f]
    BY <2>2 DEF Occupy
  <2>6. ASSUME NEW q \in Pages, page_table'[q] # INVALID_FRAME_ID
        PROVE  q < disk'.page_count
    <3>1. q = p \/ page_table[q] # INVALID_FRAME_ID
      BY <2>3, <2>5, <2>6 DEF TableAfterEviction
    <3>2. q = disk.page_count \/ q < disk.page_count
      BY <2>1, <3>1, <1>b DEF in_pool
    <3> QED
      BY <3>2, <2>4, <1>a
  <2> QED
    BY <2>6 DEF ResidentInFile, in_pool
<1>5. ASSUME NEW p \in Pages, FetchReadFails(p)
      PROVE  ResidentInFile'
  BY <1>2, <1>5, VictimFacts, EvictionFields DEF FetchReadFails
<1>6. ASSUME NewPageAllocateFails
      PROVE  ResidentInFile'
  BY <1>2, <1>6, VictimFacts, EvictionFields DEF NewPageAllocateFails
<1>7. ASSUME EvictionFails
      PROVE  ResidentInFile'
  <2> DEFINE f == find_victim_frame
  <2>1. f \in Frames /\ ~is_free(f)
    BY <1>7, VictimFacts DEF EvictionFails, must_write
  <2> HIDE DEF f
  <2>2. /\ WritePage(disk, frames[f].page_id, frames[f].page).page_count = disk.page_count
        /\ TearPage(disk, frames[f].page_id).page_count = disk.page_count
    BY <1>a, <2>1, WriteKeepsLength, DiskFields
  <2> QED
    BY <1>1, <1>7, <2>2 DEF EvictionFails, Tear, f
<1>8. ASSUME NEW p \in Pages, FlushPage(p) \/ FlushPageFails(p)
      PROVE  ResidentInFile'
  <2> DEFINE f == page_table[p]
             written == WritePage(disk, p, frames[f].page)
  <2>1. /\ f \in Frames /\ ~is_free(f) /\ frames[f].page_id = p
    <3>1. f \in Frames /\ frames[f].page_id = p
      BY <1>8, <1>a DEF FlushPage, FlushPageFails, in_pool, PoolInv, TableMirrorsFrames
    <3> QED
      BY <3>1, MaxPagesAssumption DEF is_free, INVALID_PAGE_ID, Pages
  <2>2. written \in DiskType /\ written.page_count = disk.page_count
    BY <2>1, WriteKeepsLength
  <2>3. Flush(written).page_count = disk.page_count
    BY <2>2, DiskFields
  <2>4. TearPage(disk, p).page_count = disk.page_count
    BY <1>a, DiskFields
  <2> QED
    BY <1>1, <1>8, <2>2, <2>3, <2>4 DEF FlushPage, FlushPageFails, Tear
<1>9. \A n : DiskAfterLoop(n).page_count = disk.page_count
             /\ DiskAfterLoop(n) \in DiskType
  BY <1>a, PieceTypes DEF DiskAfterLoop, DiskType
<1>10. ASSUME FlushAll
       PROVE  ResidentInFile'
  <2>1. 0 \in Pages
    BY MaxPagesAssumption DEF Pages
  <2> DEFINE looped == DiskAfterLoop(pool_size)
  <2>2. /\ looped \in DiskType /\ looped.page_count = disk.page_count
        /\ disk' = Flush(looped)
    BY <1>9, <1>10 DEF FlushAll
  <2> HIDE DEF looped
  <2>3. disk'.page_count = disk.page_count
    BY <2>1, <2>2, DiskFields
  <2> QED
    BY <1>1, <1>10, <2>3 DEF FlushAll
<1>11. ASSUME NEW n \in 0 .. pool_size, FlushAllFails(n)
       PROVE  ResidentInFile'
  <2>1. n \in DirtyFrames => frames[n].page_id \in Pages
    BY <1>a, PieceTypes DEF DirtyFrames
  <2> DEFINE looped == DiskAfterLoop(n)
  <2>2. looped \in DiskType /\ looped.page_count = disk.page_count
    BY <1>9
  <2>3. \/ disk' = looped
        \/ n \in DirtyFrames /\ disk' = TearPage(looped, frames[n].page_id)
    BY <1>11 DEF FlushAllFails, Tear
  <2> HIDE DEF looped
  <2>a. \A q \in Pages : TearPage(looped, q).page_count = looped.page_count
    BY <2>2, DiskFields
  <2>4. disk'.page_count = disk.page_count
    BY <2>1, <2>2, <2>3, <2>a
  <2> QED
    BY <1>1, <1>11, <2>4 DEF FlushAllFails
<1>12. ASSUME NEW p \in Pages, DeletePage(p)
       PROVE  ResidentInFile'
  BY <1>12, <1>a, <1>b DEF DeletePage, ResidentInFile, in_pool
<1>13. ASSUME NEW p \in Pages, WriteBackPage(p)
       PROVE  ResidentInFile'
  <2>1. disk'.page_count = disk.page_count
    BY <1>13, <1>a, DiskFields DEF WriteBackPage
  <2> QED
    BY <1>1, <1>13, <2>1 DEF WriteBackPage
<1>14. ASSUME Restart
       PROVE  ResidentInFile'
  BY <1>14, EmptyPoolShapeNext DEF Restart, EmptyPool
<1>15. ASSUME UNCHANGED <<page_table, disk>>
       PROVE  ResidentInFile'
  BY <1>1, <1>15
<1>16. ASSUME NEW c \in Clients
       PROVE  /\ \A p \in Pages : FetchHit(c, p) => ResidentInFile'
              /\ \A v \in Values : ClientWrite(c, v) => ResidentInFile'
              /\ Unpin(c) => ResidentInFile'
  BY <1>15 DEF FetchHit, ClientWrite, Unpin
<1>17. \A p \in Pages : FetchNoVictim(p) => ResidentInFile'
  BY <1>15 DEF FetchNoVictim
<1>18. ResetMetrics \/ UNCHANGED vars => ResidentInFile'
  BY <1>15 DEF ResetMetrics, vars
<1>19. PowerLoss \/ (\E n \in 0 .. pool_size : ProcessExit(n)) => ResidentInFile'
  BY <1>14 DEF PowerLoss, ProcessExit
<1> QED
  BY <1>3, <1>4, <1>5, <1>6, <1>7, <1>8, <1>10, <1>11, <1>12, <1>13,
     <1>16, <1>17, <1>18, <1>19 DEF Next, FetchEvictFails, NewPageEvictFails

-----------------------------------------------------------------------------
(* The invariant holds in every reachable state... *)
THEOREM PoolInvariant == Spec => []PoolInv
<1>1. Init => PoolInv
  <2>1. Init => EmptyPool
    BY DEF Init, EmptyPool
  <2> QED
    BY <2>1, InitTypeOK, EmptyPoolShape DEF PoolInv, PoolShape
<1>2. PoolInv /\ [Next]_vars => PoolInv'
  BY NextTypeOK, NextPoolShape, NextResidentInFile DEF PoolInv, PoolShape
<1> QED
  BY <1>1, <1>2, PTL DEF Spec

(* ... and so do its parts.  The variables keep their types (BufferManager's
   fields, whatever is called and whatever fails). *)
THEOREM TypeCorrect == Spec => []TypeOK
  BY PoolInvariant, PTL DEF PoolInv

(* Nobody's Page* is pulled away: fetch_page, new_page, evict_frame and
   delete_page never reuse a frame somebody has not unpinned. *)
THEOREM HandlesStayValid == Spec => []HandlesStable
  BY PoolInvariant, PTL DEF PoolInv

(* pin_count is the number of holders (fetch_page, new_page, unpin_page). *)
THEOREM PinsCountHolders == Spec => []PinAccounting
  BY PoolInvariant, PTL DEF PoolInv

(* page_table_ and frames_ describe the same pool after every call, the
   failed ones included. *)
THEOREM TableIsMirror == Spec => []TableMirrorsFrames
  BY PoolInvariant, PTL DEF PoolInv

(* LRUReplacer::victim never returns a pinned or a free frame to the pool. *)
THEOREM OnlyEvictableListed == Spec => []VictimsEvictable
  BY PoolInvariant, PTL DEF PoolInv

-----------------------------------------------------------------------------
(*************************************************************************)
(* What the file and the device hold: the durability contract of the pool, *)
(* and, if no write is cut short or fails, that no page and no frame is  *)
(* lost.                                                                 *)
(*************************************************************************)

(* A disk d on which every copy of a page is one of the versions vs of it, and
   which ends, as a file and on the device, where the stored pages end. *)
Sound(d, vs) ==
    /\ d \in DiskType /\ vs \in [Pages -> SUBSET Contents]
    /\ d.synced_count <= d.page_count
    /\ \A p \in Pages :
          /\ d.pages[p] \in vs[p] /\ d.synced[p] \in vs[p]
          /\ p >= d.page_count => vs[p] = {Hole}
          /\ p >= d.synced_count => Hole \in vs[p] /\ d.synced[p] = Hole
          /\ p >= d.synced_count /\ p < d.page_count => Fresh \in vs[p]

(* ... and so is every copy in a frame. *)
FramesSound ==
    \A p \in Pages : in_pool(p) => frames[page_table[p]].page \in versions[p]

DurableInv == Sound(disk, versions) /\ FramesSound

LEMMA CountTypes ==
    ASSUME NEW d \in DiskType
    PROVE  /\ d.page_count \in Nat /\ d.synced_count \in Nat
           /\ d.page_count <= MaxPages /\ d.synced_count <= MaxPages
           /\ d.pages \in [Pages -> Contents] /\ d.synced \in [Pages -> Contents]
           /\ \A p \in Pages : p \in Nat /\ p < MaxPages
           /\ d.page_count < MaxPages => d.page_count \in Pages
  BY MaxPagesAssumption DEF DiskType, Pages

(* The operators that store no page of the pool keep the type. *)
LEMMA DiskStaysDisk ==
    ASSUME NEW d \in DiskType, NEW p \in Pages
    PROVE  /\ TearPage(d, p) \in DiskType
           /\ Flush(d) \in DiskType
           /\ WriteBack(d, p) \in DiskType
           /\ AfterPowerLoss(d) \in DiskType
           /\ d.page_count < MaxPages => AllocatePage(d) \in DiskType
<1>1. Hole \in Contents
  BY DEF Contents
<1> QED
  BY <1>1, DiskOperatorsType

(* A page of the file is overwritten with one of its versions. *)
LEMMA WriteSound ==
    ASSUME NEW d, NEW vs, Sound(d, vs), NEW p \in Pages, p < d.page_count,
           NEW page \in vs[p]
    PROVE  Sound(WritePage(d, p, page), vs)
<1>1. d \in DiskType /\ vs \in [Pages -> SUBSET Contents] /\ page \in Contents
  BY DEF Sound
<1>2. WritePage(d, p, page) \in DiskType
  BY <1>1, DiskOperatorsType
<1>3. /\ WritePage(d, p, page).page_count = d.page_count
      /\ WritePage(d, p, page).pages = [d.pages EXCEPT ![p] = page]
      /\ WritePage(d, p, page).synced = d.synced
      /\ WritePage(d, p, page).synced_count = d.synced_count
  BY <1>1, WriteFields
<1>4. d.pages \in [Pages -> Contents]
  BY <1>1, CountTypes
<1> DEFINE e == WritePage(d, p, page)
<1> HIDE DEF e
<1>5. \A q \in Pages : e.pages[q] = IF q = p THEN page ELSE d.pages[q]
  BY <1>3, <1>4 DEF e
<1> QED
  BY <1>1, <1>2, <1>3, <1>5 DEF Sound, e

(* fsync, for the versions vs; and for fewer of them, ws, if what is stored is
   still among them: a flush makes the earlier versions of a page impossible. *)
LEMMA FlushSound ==
    ASSUME NEW d, NEW vs, Sound(d, vs), NEW ws \in [Pages -> SUBSET Contents],
           \A p \in Pages : ws[p] \subseteq vs[p] /\ d.pages[p] \in ws[p]
    PROVE  Sound(Flush(d), ws)
<1>1. d \in DiskType
  BY DEF Sound
<1>2. 0 \in Pages
  BY MaxPagesAssumption DEF Pages
<1>3. /\ Flush(d) \in DiskType /\ Flush(d).page_count = d.page_count
      /\ Flush(d).pages = d.pages
      /\ Flush(d).synced = d.pages
      /\ Flush(d).synced_count = d.page_count
  BY <1>1, <1>2, DiskFields, DiskStaysDisk
<1>4. d.page_count \in Nat
  BY <1>1, CountTypes
<1>5. ASSUME NEW p \in Pages, p >= d.page_count
      PROVE  ws[p] = {Hole} /\ d.pages[p] = Hole
  BY <1>5 DEF Sound
<1>6. \A p \in Pages : ~(p >= d.page_count /\ p < d.page_count)
  BY <1>1, CountTypes
<1> QED
  BY <1>3, <1>4, <1>5, <1>6 DEF Sound

(* The system writes a page back. *)
LEMMA WriteBackSound ==
    ASSUME NEW d, NEW vs, Sound(d, vs), NEW p \in Pages, p < d.page_count
    PROVE  Sound(WriteBack(d, p), vs)
<1>1. d \in DiskType
  BY DEF Sound
<1> DEFINE e == WriteBack(d, p)
<1>2. /\ e \in DiskType /\ e.page_count = d.page_count
      /\ e.pages = d.pages
      /\ e.synced = [d.synced EXCEPT ![p] = d.pages[p]]
      /\ e.synced_count = IF p < d.synced_count THEN d.synced_count ELSE p + 1
  <2>1. e \in DiskType
    BY <1>1, DiskStaysDisk
  <2> QED
    BY <1>1, <2>1, DiskFields
<1> HIDE DEF e
<1>3. /\ d.page_count \in Nat /\ d.synced_count \in Nat /\ p \in Nat
      /\ d.synced \in [Pages -> Contents] /\ \A q \in Pages : q \in Nat
  BY <1>1, CountTypes
<1>4. /\ e.synced_count <= d.page_count /\ e.synced_count >= d.synced_count
      /\ p < e.synced_count
  BY <1>2, <1>3 DEF Sound
<1>5. e.synced_count \in Nat
  BY <1>2, <1>3
<1>6. ASSUME NEW q \in Pages
      PROVE  /\ e.synced[q] \in vs[q]
             /\ q >= e.synced_count => Hole \in vs[q] /\ e.synced[q] = Hole
             /\ q >= e.synced_count /\ q < e.page_count => Fresh \in vs[q]
  <2>1. CASE q = p
    BY <2>1, <1>2, <1>3, <1>4, <1>5 DEF Sound
  <2>2. CASE q # p
    <3>1. e.synced[q] = d.synced[q]
      BY <2>2, <1>2, <1>3
    <3>2. q >= e.synced_count => q >= d.synced_count
      <4>1. q \in Nat /\ d.synced_count \in Nat /\ d.synced_count <= e.synced_count
        BY <1>3, <1>4
      <4> QED
        BY <4>1, <1>5
    <3> QED
      BY <1>2, <3>1, <3>2 DEF Sound
  <2> QED
    BY <2>1, <2>2
<1> QED
  BY <1>2, <1>4, <1>6 DEF Sound, e

(* A write of a page is cut short: it may come back torn from now on. *)
LEMMA TearSound ==
    ASSUME NEW d, NEW vs, Sound(d, vs), NEW p \in Pages, p < d.page_count
    PROVE  Sound(TearPage(d, p), [vs EXCEPT ![p] = @ \cup {Torn}])
<1>1. d \in DiskType /\ vs \in [Pages -> SUBSET Contents]
  BY DEF Sound
<1> DEFINE e == TearPage(d, p)
           ws == [vs EXCEPT ![p] = @ \cup {Torn}]
<1>2. /\ e \in DiskType /\ e.page_count = d.page_count
      /\ e.synced_count = d.synced_count /\ e.synced = d.synced
      /\ e.pages = [d.pages EXCEPT ![p] = Torn]
  BY <1>1, DiskFields, DiskStaysDisk
<1>3. ws \in [Pages -> SUBSET Contents]
  BY <1>1 DEF Contents
<1>4. d.page_count \in Nat /\ p \in Nat /\ d.pages \in [Pages -> Contents]
  BY <1>1, CountTypes
<1>5. \A q \in Pages : ws[q] = IF q = p THEN vs[q] \cup {Torn} ELSE vs[q]
  BY <1>1
<1> HIDE DEF e, ws
<1>6. \A q \in Pages : e.pages[q] = IF q = p THEN Torn ELSE d.pages[q]
  BY <1>2, <1>4
<1>7. ~(p >= d.page_count)
  BY <1>4
<1> QED
  BY <1>2, <1>3, <1>5, <1>6, <1>7 DEF Sound, e, ws

(* A holder writes a page of the file, in its frame: one version more. *)
LEMMA OneMoreSound ==
    ASSUME NEW d, NEW vs, Sound(d, vs), NEW p \in Pages, p < d.page_count,
           NEW page \in Contents
    PROVE  Sound(d, [vs EXCEPT ![p] = @ \cup {page}])
<1>1. d \in DiskType /\ vs \in [Pages -> SUBSET Contents]
  BY DEF Sound
<1> DEFINE ws == [vs EXCEPT ![p] = @ \cup {page}]
<1>2. ws \in [Pages -> SUBSET Contents]
  BY <1>1
<1>3. \A q \in Pages : ws[q] = IF q = p THEN vs[q] \cup {page} ELSE vs[q]
  BY <1>1
<1> HIDE DEF ws
<1>4. d.page_count \in Nat /\ p \in Nat /\ ~(p >= d.page_count)
  BY <1>1, CountTypes
<1> QED
  BY <1>2, <1>3, <1>4 DEF Sound, ws

(* The file grows by a formatted page. *)
LEMMA AllocateSound ==
    ASSUME NEW d, NEW vs, Sound(d, vs), NEW p \in Pages, p = d.page_count
    PROVE  Sound(AllocatePage(d), [vs EXCEPT ![p] = @ \cup {Fresh}])
<1>1. d \in DiskType /\ vs \in [Pages -> SUBSET Contents]
  BY DEF Sound
<1>a. /\ d.page_count \in Nat /\ d.synced_count \in Nat /\ d.page_count < MaxPages
      /\ d.pages \in [Pages -> Contents] /\ \A q \in Pages : q \in Nat
  BY <1>1, CountTypes
<1> DEFINE e == AllocatePage(d)
           ws == [vs EXCEPT ![p] = @ \cup {Fresh}]
<1>2. e \in DiskType
  BY <1>1, <1>a, DiskStaysDisk
<1>3. /\ e.page_count = d.page_count + 1
      /\ e.pages = [d.pages EXCEPT ![p] = Fresh]
      /\ e.synced = d.synced
      /\ e.synced_count = d.synced_count
  BY <1>1, DiskFields
<1>4. ws \in [Pages -> SUBSET Contents]
  BY <1>1 DEF Contents
<1>5. \A q \in Pages : ws[q] = IF q = p THEN vs[q] \cup {Fresh} ELSE vs[q]
  BY <1>1
<1> HIDE DEF e, ws
<1>6. \A q \in Pages : e.pages[q] = IF q = p THEN Fresh ELSE d.pages[q]
  BY <1>3, <1>a
<1>7. \A q \in Pages : q >= e.page_count => q >= d.page_count /\ q # p
  BY <1>3, <1>a
<1>8. e.synced_count <= e.page_count
  BY <1>3, <1>a DEF Sound
<1>9. ASSUME NEW q \in Pages
      PROVE  /\ e.pages[q] \in ws[q] /\ e.synced[q] \in ws[q]
             /\ q >= e.page_count => ws[q] = {Hole}
             /\ q >= e.synced_count => Hole \in ws[q] /\ e.synced[q] = Hole
             /\ q >= e.synced_count /\ q < e.page_count => Fresh \in ws[q]
  <2>1. q < e.page_count => q = p \/ q < d.page_count
    BY <1>3, <1>a
  <2>a. /\ d.pages[q] \in vs[q] /\ d.synced[q] \in vs[q] /\ vs[q] \subseteq ws[q]
        /\ q >= d.page_count => vs[q] = {Hole}
        /\ q >= d.synced_count => Hole \in vs[q] /\ d.synced[q] = Hole
    BY <1>5 DEF Sound
  <2>b. e.pages[q] \in ws[q] /\ e.synced[q] \in ws[q]
    BY <1>3, <1>5, <1>6, <2>a
  <2>c. q >= e.page_count => ws[q] = {Hole}
    BY <1>5, <1>7, <2>a
  <2>d. q >= e.synced_count => Hole \in ws[q] /\ e.synced[q] = Hole
    BY <1>3, <2>a
  <2>2. /\ e.pages[q] \in ws[q] /\ e.synced[q] \in ws[q]
        /\ q >= e.page_count => ws[q] = {Hole}
        /\ q >= e.synced_count => Hole \in ws[q] /\ e.synced[q] = Hole
    BY <2>b, <2>c, <2>d
  <2>3. q >= e.synced_count /\ q < e.page_count => Fresh \in ws[q]
    <3>1. q >= d.synced_count /\ q < d.page_count => Fresh \in vs[q]
      BY DEF Sound
    <3> QED
      BY <1>3, <1>5, <2>1, <3>1
  <2> QED
    BY <2>2, <2>3
<1> QED
  BY <1>2, <1>4, <1>8, <1>9 DEF Sound, e, ws

(* After a power loss the device's copy of each page is its only version. *)
LEMMA PowerLossSound ==
    ASSUME NEW d, NEW vs, Sound(d, vs)
    PROVE  Sound(AfterPowerLoss(d), [p \in Pages |-> {d.synced[p]}])
<1>1. d \in DiskType /\ 0 \in Pages
  BY MaxPagesAssumption DEF Sound, Pages
<1> DEFINE e == AfterPowerLoss(d)
           ws == [p \in Pages |-> {d.synced[p]}]
<1>2. /\ e \in DiskType /\ e.page_count = d.synced_count
      /\ e.pages = d.synced /\ e.synced = d.synced
      /\ e.synced_count = d.synced_count
  BY <1>1, DiskFields, DiskStaysDisk
<1>3. d.synced \in [Pages -> Contents] /\ d.synced_count \in Nat
  BY <1>1, CountTypes
<1>4. ws \in [Pages -> SUBSET Contents]
  BY <1>3
<1>5. \A p \in Pages : ws[p] = {d.synced[p]}
  OBVIOUS
<1>6. \A p \in Pages : ~(p >= d.synced_count /\ p < d.synced_count)
  BY <1>1, CountTypes
<1> HIDE DEF e, ws
<1> QED
  BY <1>2, <1>3, <1>4, <1>5, <1>6 DEF Sound, e, ws

-----------------------------------------------------------------------------
(* The page of an occupied frame: where it is, and what may be written of it. *)
LEMMA Occupied ==
    ASSUME PoolInv, DurableInv, NEW f \in Frames, ~is_free(f)
    PROVE  /\ frames[f].page_id \in Pages
           /\ page_table[frames[f].page_id] = f
           /\ in_pool(frames[f].page_id)
           /\ frames[f].page_id < disk.page_count
           /\ frames[f].page \in versions[frames[f].page_id]
<1>1. frames[f].page_id \in Pages /\ page_table[frames[f].page_id] = f
  BY WriteKeepsLength
<1>2. in_pool(frames[f].page_id)
  BY <1>1, PoolSizeAssumption DEF in_pool, Frames, INVALID_FRAME_ID
<1> QED
  BY <1>1, <1>2 DEF PoolInv, ResidentInFile, DurableInv, FramesSound

(* A page in the pool is in the frame the table says. *)
LEMMA InFrame ==
    ASSUME PoolInv, NEW p \in Pages, in_pool(p)
    PROVE  /\ page_table[p] \in Frames
           /\ frames[page_table[p]].page_id = p
           /\ ~is_free(page_table[p])
<1>1. page_table[p] \in Frames /\ frames[page_table[p]].page_id = p
  BY DEF PoolInv, TypeOK, in_pool, TableMirrorsFrames
<1> QED
  BY <1>1, MaxPagesAssumption DEF is_free, INVALID_PAGE_ID, Pages

(* Eviction stores a version of the page, or nothing. *)
LEMMA EvictionSound ==
    ASSUME PoolInv, DurableInv, NEW f \in Frames
    PROVE  /\ Sound(DiskAfterEviction(f), versions)
           /\ must_write(f) =>
                 Sound(WritePage(disk, frames[f].page_id, frames[f].page), versions)
<1>1. CASE ~must_write(f)
  BY <1>1 DEF DiskAfterEviction, DurableInv
<1>2. CASE must_write(f)
  <2> DEFINE written == WritePage(disk, frames[f].page_id, frames[f].page)
  <2>1. Sound(written, versions)
    BY <1>2, Occupied, WriteSound DEF must_write, DurableInv
  <2> HIDE DEF written
  <2>2. Sound(Flush(written), versions)
    BY <2>1, FlushSound DEF Sound
  <2> QED
    BY <1>2, <2>1, <2>2 DEF DiskAfterEviction, written
<1> QED
  BY <1>1, <1>2

(* So does the loop of flush_all, wherever it stops. *)
LEMMA LoopSound ==
    ASSUME PoolInv, DurableInv, NEW n
    PROVE  /\ Sound(DiskAfterLoop(n), versions)
           /\ DiskAfterLoop(n).page_count = disk.page_count
           /\ \A p \in Pages :
                 DiskAfterLoop(n).pages[p] =
                     IF page_table[p] \in DirtyFrames /\ page_table[p] < n
                     THEN frames[page_table[p]].page ELSE disk.pages[p]
<1> DEFINE looped == DiskAfterLoop(n)
<1>1. looped \in DiskType /\ disk \in DiskType
  BY PieceTypes DEF PoolInv, TypeOK
<1>2. /\ looped.page_count = disk.page_count /\ looped.synced = disk.synced
      /\ looped.synced_count = disk.synced_count
      /\ \A p \in Pages :
            looped.pages[p] = IF page_table[p] \in DirtyFrames /\ page_table[p] < n
                              THEN frames[page_table[p]].page ELSE disk.pages[p]
  BY <1>1 DEF DiskAfterLoop, DiskType
<1>3. \A p \in Pages : page_table[p] \in DirtyFrames => in_pool(p)
  BY PoolSizeAssumption DEF DirtyFrames, in_pool, Frames, INVALID_FRAME_ID
<1> HIDE DEF looped
<1>4. \A p \in Pages : looped.pages[p] \in versions[p]
  BY <1>2, <1>3 DEF DurableInv, FramesSound, Sound
<1> QED
  BY <1>1, <1>2, <1>4 DEF DurableInv, Sound, looped

(* Frames stay sound if each page still in the pool is as it was, and has not
   lost a version. *)
LEMMA FramesStaySound ==
    ASSUME DurableInv,
           \A p \in Pages : in_pool(p)' =>
               /\ in_pool(p) /\ page_table'[p] = page_table[p]
               /\ frames'[page_table[p]].page = frames[page_table[p]].page
               /\ versions[p] \subseteq versions'[p]
    PROVE  FramesSound'
  BY DEF DurableInv, FramesSound

(* An evicted or deleted page takes no other page along. *)
LEMMA EmptiedKeepsOthers ==
    ASSUME PoolInv, DurableInv, NEW f \in Frames,
           frames' = [frames EXCEPT ![f] = FreeFrame],
           \A p \in Pages : page_table'[p] = IF p = frames[f].page_id
                                             THEN INVALID_FRAME_ID ELSE page_table[p],
           versions' = versions
    PROVE  FramesSound'
<1>1. ASSUME NEW p \in Pages, in_pool(p)'
      PROVE  /\ in_pool(p) /\ page_table'[p] = page_table[p]
             /\ frames'[page_table[p]].page = frames[page_table[p]].page
  <2>1. p # frames[f].page_id /\ page_table'[p] = page_table[p]
    BY <1>1 DEF in_pool
  <2>2. in_pool(p)
    BY <1>1, <2>1 DEF in_pool
  <2>3. page_table[p] \in Frames /\ frames[page_table[p]].page_id = p
    BY <2>2, InFrame
  <2>4. page_table[p] # f
    BY <2>1, <2>3
  <2> QED
    BY <2>1, <2>2, <2>3, <2>4 DEF PoolInv, TypeOK
<1> QED
  BY <1>1, FramesStaySound

(* Nor does one that makes room for another, whose content is a version. *)
LEMMA OccupiedKeepsOthers ==
    ASSUME PoolInv, DurableInv, find_victim_frame # INVALID_FRAME_ID,
           NEW p \in Pages, NEW c \in Clients, NEW page, NEW is_dirty,
           Occupy(find_victim_frame, p, c, page, is_dirty),
           page \in versions'[p],
           \A q \in Pages : versions[q] \subseteq versions'[q]
    PROVE  FramesSound'
<1> DEFINE f == find_victim_frame
<1>1. f \in Frames
  BY VictimFacts
<1> HIDE DEF f
<1>2. Occupy(f, p, c, page, is_dirty)
  BY DEF f
<1>3. /\ frames'[f].page = page
      /\ \A g \in Frames \ {f} : frames'[g] = frames[g]
      /\ \A q \in Pages : page_table'[q] = IF q = p THEN f
                                          ELSE IF q = frames[f].page_id THEN INVALID_FRAME_ID
                                          ELSE page_table[q]
  BY <1>1, <1>2 DEF Occupy, TableAfterEviction, PoolInv, TypeOK
<1>4. ASSUME NEW q \in Pages, in_pool(q)'
      PROVE  frames'[page_table'[q]].page \in versions'[q]
  <2>1. CASE q = p
    BY <2>1, <1>3
  <2>2. CASE q # p
    <3>1. q # frames[f].page_id /\ page_table'[q] = page_table[q]
      BY <1>3, <1>4, <2>2 DEF in_pool
    <3>2. in_pool(q)
      BY <1>4, <3>1 DEF in_pool
    <3>3. page_table[q] \in Frames \ {f}
      BY <3>1, <3>2, InFrame
    <3> QED
      BY <1>3, <3>1, <3>2, <3>3 DEF DurableInv, FramesSound
  <2> QED
    BY <2>1, <2>2
<1> QED
  BY <1>4 DEF FramesSound

(* unpin_page changes the flag and the count of its frame only. *)
LEMMA UnpinFields ==
    ASSUME TypeOK, NEW c \in Clients, Unpin(c), NEW f \in Frames
    PROVE  LET g == page_table[held[c].page]
           IN  /\ frames'[f].page_id = frames[f].page_id
               /\ frames'[f].page = frames[f].page
               /\ f # g => frames'[f].is_dirty = frames[f].is_dirty
               /\ f = g => (frames'[f].is_dirty <=> frames[f].is_dirty \/ held[c].wrote)
<1> SUFFICES ASSUME NEW g, NEW pins, NEW wrote, g = page_table[held[c].page],
                    pins = frames[g].pin_count - 1, wrote = held[c].wrote
             PROVE  /\ frames'[f].page_id = frames[f].page_id
                    /\ frames'[f].page = frames[f].page
                    /\ f # g => frames'[f].is_dirty = frames[f].is_dirty
                    /\ f = g => (frames'[f].is_dirty <=> frames[f].is_dirty \/ wrote)
  OBVIOUS
<1>1. frames \in [Frames -> FrameType] /\ frames[f] \in FrameType
  BY DEF TypeOK
<1>2. frames' = [frames EXCEPT ![g].is_dirty = @ \/ wrote, ![g].pin_count = pins]
  BY DEF Unpin
<1>3. CASE f # g
  <2>1. frames'[f] = frames[f]
    BY <1>1, <1>2, <1>3
  <2> QED
    BY <1>3, <2>1
<1>4. CASE f = g
  <2>1. frames'[f] = [frames[f] EXCEPT !.is_dirty = @ \/ wrote, !.pin_count = pins]
    BY <1>1, <1>2, <1>4
  <2> QED
    BY <1>1, <1>4, <2>1 DEF FrameType
<1> QED
  BY <1>3, <1>4

-----------------------------------------------------------------------------
(* Every call, failure, crash and write-back keeps the contract. *)
LEMMA NextDurable == PoolInv /\ DurableInv /\ [Next]_vars => DurableInv'
<1> SUFFICES ASSUME PoolInv, DurableInv, [Next]_vars
             PROVE  DurableInv'
  OBVIOUS
<1>a. /\ frames \in [Frames -> FrameType] /\ held \in [Clients -> HandleType]
      /\ page_table \in [Pages -> Frames \cup {INVALID_FRAME_ID}]
      /\ disk \in DiskType /\ versions \in [Pages -> SUBSET Contents]
  BY DEF PoolInv, TypeOK
<1>b. Sound(disk, versions)
  BY DEF DurableInv
<1>c. ASSUME Sound(disk', versions'), versions' = versions,
             \A p \in Pages : in_pool(p)' =>
                 /\ in_pool(p) /\ page_table'[p] = page_table[p]
                 /\ frames'[page_table[p]].page = frames[page_table[p]].page
      PROVE  DurableInv'
  BY <1>c, FramesStaySound DEF DurableInv
<1>1. ASSUME NEW c \in Clients, NEW p \in Pages, FetchHit(c, p)
      PROVE  DurableInv'
  <2>1. \A f \in Frames : frames'[f].page = frames[f].page
    BY <1>1, <1>a DEF FetchHit, Pinned, FrameType
  <2>2. page_table' = page_table /\ disk' = disk /\ versions' = versions
    BY <1>1 DEF FetchHit
  <2> QED
    BY <1>b, <1>c, <2>1, <2>2, InFrame DEF in_pool
<1>2. ASSUME NEW c \in Clients, NEW p \in Pages, FetchMiss(c, p)
      PROVE  DurableInv'
  <2> DEFINE f == find_victim_frame
             evicted == DiskAfterEviction(f)
  <2>1. /\ f # INVALID_FRAME_ID /\ disk' = evicted /\ versions' = versions
        /\ Occupy(f, p, c, evicted.pages[p], FALSE)
    BY <1>2 DEF FetchMiss
  <2>2. Sound(evicted, versions)
    BY <2>1, VictimFacts, EvictionSound
  <2>3. evicted.pages[p] \in versions[p]
    BY <2>2 DEF Sound
  <2> HIDE DEF evicted
  <2>4. FramesSound'
    BY <2>1, <2>3, OccupiedKeepsOthers
  <2> QED
    BY <2>1, <2>2, <2>4 DEF DurableInv
<1>3. ASSUME NEW c \in Clients, NewPage(c)
      PROVE  DurableInv'
  <2> DEFINE f == find_victim_frame
             evicted == DiskAfterEviction(f)
             p == evicted.page_count
  <2>1. /\ f # INVALID_FRAME_ID /\ p < MaxPages /\ disk' = AllocatePage(evicted)
        /\ Occupy(f, p, c, Fresh, TRUE)
        /\ versions' = [versions EXCEPT ![p] = @ \cup {Fresh}]
    BY <1>3 DEF NewPage
  <2>2. Sound(evicted, versions)
    BY <2>1, VictimFacts, EvictionSound
  <2>3. p \in Pages
    BY <2>1, <2>2, CountTypes DEF Sound
  <2>4. Sound(disk', versions')
    BY <2>1, <2>2, <2>3, AllocateSound
  <2>5. Fresh \in versions'[p] /\ \A q \in Pages : versions[q] \subseteq versions'[q]
    BY <1>a, <2>1, <2>3
  <2> HIDE DEF p
  <2>6. FramesSound'
    BY <2>1, <2>3, <2>5, OccupiedKeepsOthers
  <2> QED
    BY <2>4, <2>6 DEF DurableInv
<1>4. ASSUME (\E p \in Pages : FetchReadFails(p)) \/ NewPageAllocateFails
      PROVE  DurableInv'
  <2> DEFINE f == find_victim_frame
  <2>1. /\ f # INVALID_FRAME_ID /\ disk' = DiskAfterEviction(f) /\ versions' = versions
        /\ frames' = [frames EXCEPT ![f] = FreeFrame]
        /\ page_table' = TableAfterEviction(f)
    BY <1>4 DEF FetchReadFails, NewPageAllocateFails
  <2>2. f \in Frames
    BY <2>1, VictimFacts
  <2>3. Sound(disk', versions')
    BY <2>1, <2>2, EvictionSound
  <2> HIDE DEF f
  <2>4. FramesSound'
    BY <2>1, <2>2, EmptiedKeepsOthers DEF TableAfterEviction
  <2> QED
    BY <2>3, <2>4 DEF DurableInv
<1>5. ASSUME NEW d, NEW p \in Pages, Sound(d, versions), p < d.page_count, Tear(d, p),
             page_table' = page_table,
             \A f \in Frames : frames'[f].page = frames[f].page
      PROVE  DurableInv'
  <2>1. Sound(disk', versions')
    BY <1>5, TearSound DEF Tear
  <2>2. \A q \in Pages : versions[q] \subseteq versions'[q]
    BY <1>5, <1>a DEF Tear
  <2>3. FramesSound'
    BY <1>5, <2>2, FramesStaySound, InFrame DEF in_pool
  <2> QED
    BY <2>1, <2>3 DEF DurableInv
<1>6. ASSUME EvictionFails
      PROVE  DurableInv'
  <2> DEFINE f == find_victim_frame
             p == frames[f].page_id
             written == WritePage(disk, p, frames[f].page)
  <2>1. /\ must_write(f) /\ f # INVALID_FRAME_ID
        /\ frames' = frames /\ page_table' = page_table
        /\ \/ disk' = disk /\ versions' = versions
           \/ Tear(disk, p)
           \/ disk' = written /\ versions' = versions
    BY <1>6 DEF EvictionFails
  <2>2. f \in Frames
    BY <2>1, VictimFacts
  <2>3. Sound(written, versions) /\ p \in Pages /\ p < disk.page_count
    BY <2>1, <2>2, EvictionSound, Occupied DEF must_write
  <2> HIDE DEF written, p, f
  <2>4. CASE Tear(disk, p)
    BY <2>1, <2>3, <2>4, <1>5, <1>b
  <2>5. CASE versions' = versions /\ (disk' = disk \/ disk' = written)
    BY <2>1, <2>3, <2>5, <1>b, <1>c DEF in_pool
  <2> QED
    BY <2>1, <2>4, <2>5
<1>7. ASSUME NEW c \in Clients, NEW v \in Values, ClientWrite(c, v)
      PROVE  DurableInv'
  <2> DEFINE p == held[c].page
             f == held[c].frame
  <2>1. f \in Frames /\ frames[f].page_id = p /\ p \in Pages /\ v \in Contents
    BY <1>7, <1>a DEF ClientWrite, PoolInv, HandlesStable, holds, HandleType, Contents
  <2> HIDE DEF p, f
  <2>2. /\ frames' = [frames EXCEPT ![f].page = v]
        /\ versions' = [versions EXCEPT ![p] = @ \cup {v}]
        /\ page_table' = page_table /\ disk' = disk
    BY <1>7 DEF ClientWrite, p, f
  <2>3. p < disk.page_count
    <3>1. ~is_free(f)
      BY <2>1, MaxPagesAssumption DEF is_free, INVALID_PAGE_ID, Pages
    <3> QED
      BY <2>1, <3>1, Occupied
  <2>4. Sound(disk', versions')
    BY <1>b, <2>1, <2>2, <2>3, OneMoreSound
  <2>5. ASSUME NEW q \in Pages, in_pool(q)'
        PROVE  frames'[page_table'[q]].page \in versions'[q]
    <3>1. in_pool(q) /\ page_table[q] \in Frames /\ frames[page_table[q]].page_id = q
      BY <2>2, <2>5, InFrame DEF in_pool
    <3>2. CASE page_table[q] = f
      BY <1>a, <2>1, <2>2, <3>1, <3>2 DEF FrameType
    <3>3. CASE page_table[q] # f
      BY <1>a, <2>2, <3>1, <3>3 DEF DurableInv, FramesSound
    <3> QED
      BY <3>2, <3>3
  <2> QED
    BY <2>4, <2>5 DEF DurableInv, FramesSound
<1>8. ASSUME NEW c \in Clients, Unpin(c)
      PROVE  DurableInv'
  <2>1. page_table' = page_table /\ disk' = disk /\ versions' = versions
    BY <1>8 DEF Unpin
  <2>2. \A f \in Frames : frames'[f].page = frames[f].page
    BY <1>8, UnpinFields DEF PoolInv
  <2> QED
    BY <1>b, <1>c, <2>1, <2>2, InFrame DEF in_pool
<1>9. ASSUME NEW p \in Pages, FlushPage(p)
      PROVE  DurableInv'
  <2> DEFINE f == page_table[p]
             page == frames[f].page
             written == WritePage(disk, p, page)
  <2>1. /\ f \in Frames /\ frames[f].page_id = p /\ ~is_free(f)
        /\ page \in versions[p] /\ p < disk.page_count
    BY <1>9, InFrame, Occupied DEF FlushPage
  <2>2. /\ disk' = Flush(written) /\ page_table' = page_table
        /\ versions' = [versions EXCEPT ![p] = {page}]
        /\ frames' = [frames EXCEPT ![f].is_dirty = FALSE]
    BY <1>9 DEF FlushPage
  <2> HIDE DEF f, page
  <2>3. Sound(written, versions)
    BY <1>b, <2>1, WriteSound
  <2>4. \A q \in Pages : versions'[q] = IF q = p THEN {page} ELSE versions[q]
    BY <1>a, <2>2
  <2>5. versions' \in [Pages -> SUBSET Contents]
    BY <1>a, <2>1, <2>2
  <2>6. written.pages[p] = page
    <3>1. disk.pages \in [Pages -> Contents]
      BY <1>a, CountTypes
    <3>2. written.pages = [disk.pages EXCEPT ![p] = page]
      BY <2>1, WriteKeepsLength DEF page
    <3> QED
      BY <3>1, <3>2
  <2> HIDE DEF written
  <2>7. Sound(disk', versions')
    <3>1. \A q \in Pages : versions'[q] \subseteq versions[q] /\ written.pages[q] \in versions'[q]
      BY <2>1, <2>3, <2>4, <2>6 DEF Sound
    <3> QED
      BY <2>2, <2>3, <2>5, <3>1, FlushSound
  <2>8. \A g \in Frames : frames'[g].page = frames[g].page
    BY <1>a, <2>2 DEF FrameType
  <2>9. ASSUME NEW q \in Pages, in_pool(q)'
        PROVE  frames'[page_table'[q]].page \in versions'[q]
    <3>1. in_pool(q) /\ page_table[q] \in Frames
      BY <2>2, <2>9, InFrame DEF in_pool
    <3> QED
      BY <2>2, <2>4, <2>8, <3>1 DEF DurableInv, FramesSound, page, f
  <2> QED
    BY <2>7, <2>9 DEF DurableInv, FramesSound
<1>10. ASSUME NEW p \in Pages, FlushPageFails(p)
       PROVE  DurableInv'
  <2> DEFINE written == WritePage(disk, p, frames[page_table[p]].page)
  <2>1. /\ in_pool(p) /\ frames' = frames /\ page_table' = page_table
        /\ \/ disk' = written /\ versions' = versions
           \/ Tear(disk, p)
    BY <1>10 DEF FlushPageFails
  <2>2. frames[page_table[p]].page \in versions[p] /\ p < disk.page_count
    BY <2>1 DEF DurableInv, FramesSound, PoolInv, ResidentInFile
  <2>3. Sound(written, versions)
    BY <1>b, <2>2, WriteSound
  <2> HIDE DEF written
  <2>4. CASE Tear(disk, p)
    BY <1>5, <1>b, <2>1, <2>2, <2>4
  <2>5. CASE disk' = written /\ versions' = versions
    BY <1>c, <2>1, <2>3, <2>5 DEF in_pool
  <2> QED
    BY <2>1, <2>4, <2>5
<1>d. \A n : \A f \in Frames : FramesAfterLoop(n)[f].page = frames[f].page
  BY LoopKeepsPins DEF PoolInv
<1>11. ASSUME FlushAll
       PROVE  DurableInv'
  <2> DEFINE looped == DiskAfterLoop(pool_size)
  <2>1. /\ disk' = Flush(looped) /\ page_table' = page_table
        /\ frames' = FramesAfterLoop(pool_size)
        /\ versions' = [p \in Pages |->
               IF p \in OpenPages THEN versions[p]
               ELSE {looped.pages[p]} \cup
                    (IF in_pool(p) THEN {frames[page_table[p]].page} ELSE {})]
    BY <1>11 DEF FlushAll
  <2>2. Sound(looped, versions)
    BY LoopSound
  <2> HIDE DEF looped
  <2>b. \A p \in Pages : versions'[p] \subseteq versions[p]
    BY <2>1, <2>2 DEF Sound, DurableInv, FramesSound
  <2>c. \A p \in Pages : looped.pages[p] \in versions'[p]
    BY <2>1, <2>2 DEF Sound
  <2>d. \A p \in Pages : in_pool(p) => frames[page_table[p]].page \in versions'[p]
    BY <2>1 DEF DurableInv, FramesSound
  <2>4. versions' \in [Pages -> SUBSET Contents]
    <3> DEFINE kept(p) == IF p \in OpenPages THEN versions[p]
                          ELSE {looped.pages[p]} \cup
                               (IF in_pool(p) THEN {frames[page_table[p]].page} ELSE {})
    <3>1. versions' = [p \in Pages |-> kept(p)]
      BY <2>1
    <3> HIDE DEF kept
    <3>2. \A p \in Pages : kept(p) \subseteq Contents
      <4>1. \A p \in Pages : versions'[p] = kept(p)
        BY <3>1
      <4> QED
        BY <1>a, <2>b, <4>1
    <3> QED
      BY <3>1, <3>2
  <2>a. disk' = Flush(looped) /\ page_table' = page_table /\ frames' = FramesAfterLoop(pool_size)
    BY <2>1
  <2>5. Sound(disk', versions')
    BY <2>a, <2>2, <2>b, <2>c, <2>4, FlushSound
  <2>6. FramesSound'
    BY <1>d, <2>a, <2>d, InFrame DEF FramesSound, in_pool
  <2> QED
    BY <2>5, <2>6 DEF DurableInv
<1>12. ASSUME NEW n \in 0 .. pool_size, FlushAllFails(n)
       PROVE  DurableInv'
  <2> DEFINE looped == DiskAfterLoop(n)
             p == frames[n].page_id
  <2>1. /\ \/ n \in DirtyFrames /\ Tear(looped, p)
           \/ disk' = looped /\ versions' = versions
        /\ frames' = FramesAfterLoop(n) /\ page_table' = page_table
    BY <1>12 DEF FlushAllFails
  <2>2. Sound(looped, versions) /\ looped.page_count = disk.page_count
    BY LoopSound
  <2>3. n \in DirtyFrames => p \in Pages /\ p < disk.page_count
    BY Occupied DEF DirtyFrames
  <2> HIDE DEF looped, p
  <2>4. \A f \in Frames : frames'[f].page = frames[f].page
    BY <1>d, <2>1
  <2>5. CASE n \in DirtyFrames /\ Tear(looped, p)
    BY <1>5, <2>1, <2>2, <2>3, <2>4, <2>5
  <2>6. CASE disk' = looped /\ versions' = versions
    BY <1>c, <2>1, <2>2, <2>4, <2>6, InFrame DEF in_pool
  <2> QED
    BY <2>1, <2>5, <2>6
<1>13. ASSUME NEW p \in Pages, DeletePage(p)
       PROVE  DurableInv'
  <2> DEFINE f == page_table[p]
  <2>1. f \in Frames /\ frames[f].page_id = p
    BY <1>13, InFrame DEF DeletePage
  <2>2. /\ frames' = [frames EXCEPT ![f] = FreeFrame] /\ disk' = disk
        /\ page_table' = [page_table EXCEPT ![p] = INVALID_FRAME_ID]
        /\ versions' = versions
    BY <1>13 DEF DeletePage
  <2> HIDE DEF f
  <2>3. FramesSound'
    BY <1>a, <2>1, <2>2, EmptiedKeepsOthers
  <2> QED
    BY <1>b, <2>2, <2>3 DEF DurableInv
<1>14. ASSUME NEW p \in Pages, WriteBackPage(p)
       PROVE  DurableInv'
  <2>1. Sound(disk', versions')
    BY <1>14, <1>b, WriteBackSound DEF WriteBackPage
  <2> QED
    BY <1>14, <1>c, <2>1 DEF WriteBackPage, in_pool
<1>e. ASSUME Restart
      PROVE  FramesSound'
  BY <1>e DEF Restart, FramesSound, in_pool
<1>15. ASSUME NEW n \in 0 .. pool_size, ProcessExit(n)
       PROVE  DurableInv'
  BY <1>15, <1>e, LoopSound DEF ProcessExit, DurableInv
<1>16. ASSUME PowerLoss
       PROVE  DurableInv'
  BY <1>16, <1>b, <1>e, PowerLossSound DEF PowerLoss, DurableInv
<1>17. ASSUME UNCHANGED <<frames, page_table, disk, versions>>
       PROVE  DurableInv'
  BY <1>17, <1>b, <1>c DEF in_pool
<1>18. (\E p \in Pages : FetchNoVictim(p)) \/ ResetMetrics \/ UNCHANGED vars => DurableInv'
  BY <1>17 DEF FetchNoVictim, ResetMetrics, vars
<1> QED
  BY <1>1, <1>2, <1>3, <1>4, <1>6, <1>7, <1>8, <1>9, <1>10, <1>11, <1>12, <1>13,
     <1>14, <1>15, <1>16, <1>18 DEF Next, FetchEvictFails, NewPageEvictFails

LEMMA InitDurable == Init => DurableInv
<1> SUFFICES ASSUME Init
             PROVE  DurableInv
  OBVIOUS
<1>1. /\ disk = EmptyDisk /\ versions = [p \in Pages |-> {Hole}]
      /\ \A p \in Pages : ~in_pool(p)
  BY DEF Init, in_pool
<1>2. disk \in DiskType /\ versions \in [Pages -> SUBSET Contents]
  BY InitTypeOK DEF TypeOK
<1>3. /\ disk.page_count = 0 /\ disk.synced_count = 0
      /\ \A p \in Pages : disk.pages[p] = Hole /\ disk.synced[p] = Hole
  BY <1>1 DEF EmptyDisk
<1>4. \A p \in Pages : ~(p >= 0 /\ p < 0)
  BY <1>2, CountTypes
<1>5. Sound(disk, versions)
  BY <1>1, <1>2, <1>3, <1>4 DEF Sound
<1> QED
  BY <1>1, <1>5 DEF DurableInv, FramesSound

THEOREM DurableInvariant == Spec => []DurableInv
<1> QED
  BY InitDurable, NextDurable, PoolInvariant, PTL DEF Spec

(* The durability contract: the frame, the file and the device never hold a
   content of a page that it may not have after a crash, whatever fails. *)
THEOREM CopiesStayVersions == Spec => []CopiesAreVersions
<1>1. DurableInv => CopiesAreVersions
  BY DEF DurableInv, FramesSound, Sound, CopiesAreVersions
<1> QED
  BY <1>1, DurableInvariant, PTL

(* No page of the pool is beyond the end of the file, and what is beyond it, or
   may be after a power loss, is known to have been never stored. *)
THEOREM FileCovers == Spec => []FileCoversPool
<1>1. PoolInv /\ DurableInv => FileCoversPool
  BY DEF PoolInv, ResidentInFile, DurableInv, Sound, FileCoversPool
<1> QED
  BY <1>1, DurableInvariant, PoolInvariant, PTL

-----------------------------------------------------------------------------
(* A frame evict_frame would drop without writing: the file has its page, or
   has it torn. *)
Clean(f) == ~is_free(f) /\ ~frames[f].is_dirty /\ frames[f].page_id \notin OpenPages

CleanOrTorn ==
    \A f \in Frames :
        Clean(f) => disk.pages[frames[f].page_id] \in {frames[f].page, Torn}

(* Who holds no page has written none. *)
QuietHandles == \A c \in Clients : ~holds(c) => ~held[c].wrote

LEMMA OpenPage ==
    ASSUME NEW p
    PROVE  p \in OpenPages <=> \E c \in Clients : held[c].page = p /\ held[c].wrote
  BY DEF OpenPages

LEMMA NotHeldNotOpen ==
    ASSUME PoolInv, NEW f \in Frames, ~is_free(f), \A c \in Clients : held[c].frame # f
    PROVE  frames[f].page_id \notin OpenPages
<1>1. frames[f].page_id \in Pages /\ page_table[frames[f].page_id] = f
  BY WriteKeepsLength
<1>2. ASSUME NEW c \in Clients, held[c].page = frames[f].page_id
      PROVE  FALSE
  <2>1. holds(c)
    BY <1>1, <1>2, MaxPagesAssumption DEF holds, INVALID_PAGE_ID, Pages
  <2> QED
    BY <1>1, <1>2, <2>1 DEF PoolInv, HandlesStable
<1> QED
  BY <1>2, OpenPage

(* What the file holds of each page once the victim is written. *)
LEMMA EvictedPages ==
    ASSUME PoolInv, NEW f \in Frames
    PROVE  \A p \in Pages : DiskAfterEviction(f).pages[p] =
               IF must_write(f) /\ p = frames[f].page_id THEN frames[f].page ELSE disk.pages[p]
<1>1. disk.pages \in [Pages -> Contents]
  BY CountTypes DEF PoolInv, TypeOK
<1> QED
  BY <1>1, EvictionFields

LEMMA NextQuiet == PoolInv /\ QuietHandles /\ [Next]_vars => QuietHandles'
<1> SUFFICES ASSUME PoolInv, QuietHandles, [Next]_vars
             PROVE  QuietHandles'
  OBVIOUS
<1>1. held \in [Clients -> HandleType]
  BY DEF PoolInv, TypeOK
<1>2. ASSUME held' = held
      PROVE  QuietHandles'
  BY <1>2 DEF QuietHandles, holds
<1>3. ASSUME NEW c \in Clients, ~held'[c].wrote,
             \A d \in Clients : d # c => held'[d] = held[d]
      PROVE  QuietHandles'
  BY <1>3 DEF QuietHandles, holds
<1>4. ASSUME NEW c \in Clients, NEW p \in Pages, FetchHit(c, p) \/ FetchMiss(c, p)
      PROVE  QuietHandles'
  <2>1. ~held'[c].wrote /\ \A d \in Clients : d # c => held'[d] = held[d]
    BY <1>1, <1>4 DEF FetchHit, FetchMiss, Occupy
  <2> QED
    BY <1>3, <2>1
<1>5. ASSUME NEW c \in Clients, NewPage(c) \/ Unpin(c)
      PROVE  QuietHandles'
  <2>1. ~held'[c].wrote /\ \A d \in Clients : d # c => held'[d] = held[d]
    BY <1>1, <1>5 DEF NewPage, Unpin, Occupy, NoHandle
  <2> QED
    BY <1>3, <2>1
<1>6. ASSUME NEW c \in Clients, NEW v \in Values, ClientWrite(c, v)
      PROVE  QuietHandles'
  BY <1>1, <1>6 DEF ClientWrite, QuietHandles, holds, HandleType
<1>7. ASSUME Restart
      PROVE  QuietHandles'
  BY <1>7 DEF Restart, NoHandle, QuietHandles
<1> QED
  BY <1>2, <1>4, <1>5, <1>6, <1>7
     DEF Next, vars, FetchReadFails, FetchNoVictim, FetchEvictFails, EvictionFails,
         NewPageAllocateFails, NewPageEvictFails, FlushPage, FlushPageFails, FlushAll,
         FlushAllFails, DeletePage, ResetMetrics, WriteBackPage, ProcessExit, PowerLoss

(* What the file holds under a frame changes by a write of that frame, or is
   torn, as long as the frame stays as it is. *)
CleanKept(f) ==
    /\ Clean(f)
    /\ frames'[f].page_id = frames[f].page_id /\ frames'[f].page = frames[f].page
    /\ disk'.pages[frames[f].page_id]
          \in {disk.pages[frames[f].page_id], frames[f].page, Torn}

LEMMA CleanStays ==
    ASSUME CleanOrTorn, NEW f \in Frames, CleanKept(f)
    PROVE  disk'.pages[frames'[f].page_id] \in {frames'[f].page, Torn}
  BY DEF CleanOrTorn, CleanKept

LEMMA NextClean ==
    PoolInv /\ DurableInv /\ QuietHandles /\ CleanOrTorn /\ [Next]_vars => CleanOrTorn'
<1> SUFFICES ASSUME PoolInv, DurableInv, QuietHandles, CleanOrTorn, [Next]_vars
             PROVE  CleanOrTorn'
  OBVIOUS
<1>a. /\ frames \in [Frames -> FrameType] /\ held \in [Clients -> HandleType]
      /\ page_table \in [Pages -> Frames \cup {INVALID_FRAME_ID}]
      /\ disk \in DiskType /\ disk.pages \in [Pages -> Contents]
  BY CountTypes DEF PoolInv, TypeOK
<1>b. \A f \in Frames : ~is_free(f) =>
          /\ frames[f].page_id \in Pages /\ page_table[frames[f].page_id] = f
          /\ frames[f].page_id < disk.page_count
  BY Occupied
<1>c. ASSUME \A f \in Frames : Clean(f)' =>
                 \/ CleanKept(f)
                 \/ disk'.pages[frames'[f].page_id] \in {frames'[f].page, Torn}
      PROVE  CleanOrTorn'
  BY <1>c, CleanStays DEF CleanOrTorn
<1>d. ASSUME held' = held
      PROVE  OpenPages' = OpenPages
  BY <1>d DEF OpenPages
(* Nothing is written, and no frame becomes clean. *)
<1>e. ASSUME disk'.pages = disk.pages,
             \A f \in Frames : Clean(f)' =>
                 /\ Clean(f) /\ frames'[f].page_id = frames[f].page_id
                 /\ frames'[f].page = frames[f].page
      PROVE  CleanOrTorn'
  BY <1>c, <1>e DEF CleanKept
<1>f. ASSUME disk'.pages = disk.pages, frames' = frames, held' = held
      PROVE  CleanOrTorn'
  BY <1>d, <1>e, <1>f DEF Clean, is_free
(* A write of page p is cut short. *)
<1>g. ASSUME NEW d \in DiskType, NEW p \in Pages, Tear(d, p), held' = held,
             \A f \in Frames : Clean(f)' =>
                 /\ ~is_free(f) /\ frames'[f].page_id = frames[f].page_id
                 /\ \/ d.pages[frames[f].page_id] = frames'[f].page
                    \/ /\ Clean(f) /\ d.pages[frames[f].page_id] = disk.pages[frames[f].page_id]
                       /\ frames'[f].page = frames[f].page
      PROVE  CleanOrTorn'
  <2>1. disk'.pages = [d.pages EXCEPT ![p] = Torn] /\ d.pages \in [Pages -> Contents]
    BY <1>g, DiskFields, CountTypes DEF Tear
  <2>2. ASSUME NEW f \in Frames, Clean(f)'
        PROVE  disk'.pages[frames'[f].page_id] \in {frames'[f].page, Torn}
    BY <1>b, <1>g, <2>1, <2>2 DEF CleanOrTorn
  <2> QED
    BY <2>2 DEF CleanOrTorn
<1>1. ASSUME NEW c \in Clients, NEW p \in Pages, FetchHit(c, p)
      PROVE  CleanOrTorn'
  <2>1. /\ disk' = disk
        /\ \A f \in Frames : /\ frames'[f].page_id = frames[f].page_id
                             /\ frames'[f].page = frames[f].page
                             /\ frames'[f].is_dirty = frames[f].is_dirty
    BY <1>1, <1>a DEF FetchHit, Pinned, FrameType
  <2>2. /\ ~held[c].wrote
        /\ \A d \in Clients : d # c => held'[d] = held[d]
    BY <1>1, <1>a DEF FetchHit, QuietHandles
  <2>3. \A q : q \in OpenPages => q \in OpenPages'
    BY <2>2 DEF OpenPages
  <2> QED
    BY <1>e, <2>1, <2>3 DEF Clean, is_free
<1>2. ASSUME NEW c \in Clients, NEW p \in Pages, NEW page, NEW is_dirty,
             find_victim_frame # INVALID_FRAME_ID, ~holds(c),
             Occupy(find_victim_frame, p, c, page, is_dirty),
             is_dirty \/ disk'.pages[p] = page,
             \A q \in Pages : q < disk.page_count =>
                 disk'.pages[q] = DiskAfterEviction(find_victim_frame).pages[q]
      PROVE  CleanOrTorn'
  <2> DEFINE f == find_victim_frame
  <2>1. f \in Frames
    BY <1>2, VictimFacts
  <2>2. \A q \in Pages : q < disk.page_count => disk'.pages[q] =
            IF must_write(f) /\ q = frames[f].page_id THEN frames[f].page ELSE disk.pages[q]
    BY <1>2, <2>1, EvictedPages
  <2> HIDE DEF f
  <2>3. Occupy(f, p, c, page, is_dirty)
    BY <1>2 DEF f
  <2>4. /\ frames'[f].page = page /\ frames'[f].page_id = p /\ frames'[f].is_dirty = is_dirty
        /\ \A g \in Frames \ {f} : frames'[g] = frames[g]
        /\ \A d \in Clients : d # c => held'[d] = held[d]
    BY <1>a, <2>1, <2>3 DEF Occupy
  <2>5. \A q : q \in OpenPages => q \in OpenPages'
    BY <1>2, <2>4 DEF OpenPages, QuietHandles
  <2>6. ASSUME NEW g \in Frames, Clean(g)', g # f
        PROVE  CleanKept(g)
    <3>1. Clean(g) /\ frames'[g] = frames[g]
      BY <2>4, <2>5, <2>6 DEF Clean, is_free
    <3>2. /\ frames[g].page_id \in Pages /\ frames[g].page_id < disk.page_count
          /\ page_table[frames[g].page_id] = g
      BY <3>1, <1>b DEF Clean
    <3>3. must_write(f) => frames[g].page_id # frames[f].page_id
      BY <2>1, <2>6, <3>2, <1>b DEF must_write
    <3> QED
      BY <2>2, <3>1, <3>2, <3>3 DEF CleanKept
  <2>7. ASSUME NEW g \in Frames, Clean(g)', g = f
        PROVE  disk'.pages[frames'[g].page_id] = frames'[g].page
    BY <1>2, <2>4, <2>7 DEF Clean
  <2> QED
    BY <1>c, <2>6, <2>7
<1>3. ASSUME NEW c \in Clients, NEW p \in Pages, FetchMiss(c, p)
      PROVE  CleanOrTorn'
  BY <1>2, <1>3 DEF FetchMiss
<1>4. ASSUME NEW c \in Clients, NewPage(c)
      PROVE  CleanOrTorn'
  <2> DEFINE f == find_victim_frame
             evicted == DiskAfterEviction(f)
             p == evicted.page_count
  <2>1. /\ f # INVALID_FRAME_ID /\ p < MaxPages /\ disk' = AllocatePage(evicted)
        /\ Occupy(f, p, c, Fresh, TRUE) /\ ~holds(c)
    BY <1>4 DEF NewPage
  <2>2. f \in Frames /\ evicted \in DiskType /\ p = disk.page_count
    BY <2>1, VictimFacts, EvictionSound, EvictionFields DEF Sound
  <2>3. p \in Pages /\ p \in Nat /\ evicted.pages \in [Pages -> Contents]
    BY <2>1, <2>2, CountTypes
  <2>4. disk'.pages = [evicted.pages EXCEPT ![p] = Fresh]
    BY <2>1, <2>2, <2>3, DiskFields
  <2> HIDE DEF p, evicted
  <2>5. \A q \in Pages : q < disk.page_count => disk'.pages[q] = evicted.pages[q]
    BY <2>2, <2>3, <2>4
  <2> QED
    BY <1>2, <2>1, <2>3, <2>5 DEF evicted
<1>5. ASSUME (\E p \in Pages : FetchReadFails(p)) \/ NewPageAllocateFails
      PROVE  CleanOrTorn'
  <2> DEFINE f == find_victim_frame
  <2>1. /\ f # INVALID_FRAME_ID /\ disk' = DiskAfterEviction(f) /\ held' = held
        /\ frames' = [frames EXCEPT ![f] = FreeFrame]
    BY <1>5 DEF FetchReadFails, NewPageAllocateFails
  <2>2. f \in Frames
    BY <2>1, VictimFacts
  <2>3. \A q \in Pages : disk'.pages[q] =
            IF must_write(f) /\ q = frames[f].page_id THEN frames[f].page ELSE disk.pages[q]
    BY <2>1, <2>2, EvictedPages
  <2> HIDE DEF f
  <2>4. ASSUME NEW g \in Frames, Clean(g)'
        PROVE  CleanKept(g)
    <3>1. g # f /\ frames'[g] = frames[g] /\ Clean(g)
      BY <1>a, <1>d, <2>1, <2>2, <2>4 DEF Clean, is_free, FreeFrame
    <3>2. frames[g].page_id \in Pages /\ page_table[frames[g].page_id] = g
      BY <3>1, <1>b DEF Clean
    <3>3. must_write(f) => frames[g].page_id # frames[f].page_id
      BY <2>2, <3>1, <3>2, <1>b DEF must_write
    <3> QED
      BY <2>3, <3>1, <3>2, <3>3 DEF CleanKept
  <2> QED
    BY <1>c, <2>4
<1>6. ASSUME NEW p \in Pages, in_pool(p), held' = held,
             disk'.pages = [disk.pages EXCEPT ![p] = frames[page_table[p]].page],
             \A f \in Frames : /\ frames'[f].page_id = frames[f].page_id
                               /\ frames'[f].page = frames[f].page
                               /\ frames'[f].is_dirty = frames[f].is_dirty
                                    \/ f = page_table[p]
      PROVE  CleanOrTorn'
  <2>1. page_table[p] \in Frames /\ frames[page_table[p]].page_id = p
    BY <1>6, InFrame
  <2>2. ASSUME NEW f \in Frames, Clean(f)'
        PROVE  \/ CleanKept(f)
               \/ disk'.pages[frames'[f].page_id] \in {frames'[f].page, Torn}
    <3>1. CASE f = page_table[p]
      BY <1>6, <1>a, <2>1, <3>1
    <3>2. CASE f # page_table[p]
      <4>1. Clean(f)
        BY <1>6, <1>d, <2>2, <3>2 DEF Clean, is_free
      <4>2. frames[f].page_id \in Pages /\ frames[f].page_id # p
        BY <4>1, <1>b, <3>2 DEF Clean
      <4> QED
        BY <1>6, <1>a, <4>1, <4>2 DEF CleanKept
    <3> QED
      BY <3>1, <3>2
  <2> QED
    BY <1>c, <2>2
<1>7. ASSUME EvictionFails
      PROVE  CleanOrTorn'
  <2> DEFINE f == find_victim_frame
             p == frames[f].page_id
             written == WritePage(disk, p, frames[f].page)
  <2>1. /\ must_write(f) /\ f # INVALID_FRAME_ID /\ frames' = frames /\ held' = held
        /\ disk' = disk \/ Tear(disk, p) \/ disk' = written
    BY <1>7 DEF EvictionFails
  <2>2. f \in Frames
    BY <2>1, VictimFacts
  <2>3. /\ p \in Pages /\ in_pool(p) /\ page_table[p] = f
        /\ written.pages = [disk.pages EXCEPT ![p] = frames[f].page]
    BY <2>1, <2>2, Occupied, WriteKeepsLength DEF must_write
  <2> HIDE DEF written, p, f
  <2>4. CASE disk' = disk
    BY <1>f, <2>1, <2>4
  <2>5. CASE disk' = written
    BY <1>6, <2>1, <2>3, <2>5
  <2>6. CASE Tear(disk, p)
    BY <1>a, <1>d, <1>g, <2>1, <2>3, <2>6 DEF Clean, is_free
  <2> QED
    BY <2>1, <2>4, <2>5, <2>6
<1>8. ASSUME NEW c \in Clients, NEW v \in Values, ClientWrite(c, v)
      PROVE  CleanOrTorn'
  <2>1. /\ held[c].frame \in Frames /\ held[c].page = frames[held[c].frame].page_id
        /\ disk' = disk /\ frames' = [frames EXCEPT ![held[c].frame].page = v]
        /\ held' = [held EXCEPT ![c].wrote = TRUE]
    BY <1>8 DEF ClientWrite, PoolInv, HandlesStable
  <2>2. \A d \in Clients : /\ held'[d].page = held[d].page
                           /\ held[d].wrote => held'[d].wrote
                           /\ d = c => held'[d].wrote
    BY <1>a, <2>1 DEF HandleType
  <2>3. /\ \A q : q \in OpenPages => q \in OpenPages'
        /\ held[c].page \in OpenPages'
    BY <2>2 DEF OpenPages
  <2>4. \A f \in Frames : /\ frames'[f].page_id = frames[f].page_id
                          /\ frames'[f].is_dirty = frames[f].is_dirty
                          /\ f # held[c].frame => frames'[f].page = frames[f].page
    BY <1>a, <2>1 DEF FrameType
  <2> QED
    BY <1>e, <2>1, <2>3, <2>4 DEF Clean, is_free
<1>9. ASSUME NEW c \in Clients, Unpin(c)
      PROVE  CleanOrTorn'
  <2> DEFINE g == page_table[held[c].page]
  <2>1. /\ g \in Frames /\ held[c].page = frames[g].page_id /\ disk' = disk
        /\ held' = [held EXCEPT ![c] = NoHandle]
    BY <1>9 DEF Unpin, PoolInv, HandlesStable
  <2>2. \A f \in Frames : /\ frames'[f].page_id = frames[f].page_id
                          /\ frames'[f].page = frames[f].page
                          /\ f # g => frames'[f].is_dirty = frames[f].is_dirty
                          /\ f = g => (frames'[f].is_dirty <=> frames[f].is_dirty \/ held[c].wrote)
    BY <1>9, UnpinFields DEF PoolInv
  <2>3. \A d \in Clients : d # c => held'[d] = held[d]
    BY <1>a, <2>1
  <2> HIDE DEF g
  <2>4. ASSUME NEW f \in Frames, Clean(f)'
        PROVE  Clean(f)
    <3>1. ~is_free(f) /\ ~frames[f].is_dirty /\ (f = g => ~held[c].wrote)
      BY <2>2, <2>4 DEF Clean, is_free
    <3>2. ASSUME NEW d \in Clients, held[d].page = frames[f].page_id, held[d].wrote
          PROVE  FALSE
      <4>1. d # c
        <5>1. frames[f].page_id = held[c].page => f = g
          BY <2>1, <3>1, <1>b DEF g
        <5> QED
          BY <3>1, <3>2, <5>1
      <4> QED
        BY <2>2, <2>3, <2>4, <3>2, <4>1 DEF Clean, OpenPages
    <3> QED
      BY <3>1, <3>2 DEF Clean, OpenPages
  <2> QED
    BY <1>e, <2>1, <2>2, <2>4
<1>10. ASSUME NEW p \in Pages, FlushPage(p) \/ FlushPageFails(p)
       PROVE  CleanOrTorn'
  <2> DEFINE f == page_table[p]
             written == WritePage(disk, p, frames[f].page)
  <2>1. f \in Frames /\ frames[f].page_id = p /\ ~is_free(f) /\ in_pool(p) /\ held' = held
    BY <1>10, InFrame DEF FlushPage, FlushPageFails
  <2>2. written \in DiskType /\ written.pages = [disk.pages EXCEPT ![p] = frames[f].page]
    BY <2>1, WriteKeepsLength
  <2>3. Flush(written).pages = written.pages
    BY <2>1, <2>2, DiskFields
  <2>4. \/ FlushPage(p) /\ disk' = Flush(written)
        \/ frames' = frames /\ disk' = written
        \/ frames' = frames /\ Tear(disk, p)
    BY <1>10 DEF FlushPage, FlushPageFails
  <2> HIDE DEF written
  <2>5. CASE FlushPage(p) /\ disk' = Flush(written)
    <3>1. \A g \in Frames : /\ frames'[g].page_id = frames[g].page_id
                            /\ frames'[g].page = frames[g].page
                            /\ frames'[g].is_dirty = frames[g].is_dirty \/ g = f
      BY <1>a, <2>1, <2>5 DEF FlushPage, FrameType
    <3> QED
      BY <1>6, <2>1, <2>2, <2>3, <2>5, <3>1
  <2>6. CASE frames' = frames /\ disk' = written
    BY <1>6, <2>1, <2>2, <2>6
  <2>7. CASE frames' = frames /\ Tear(disk, p)
    BY <1>a, <1>d, <1>g, <2>1, <2>7 DEF Clean, is_free
  <2> QED
    BY <2>4, <2>5, <2>6, <2>7
<1>11. ASSUME NEW n, NEW f \in Frames, held' = held, frames' = FramesAfterLoop(n), Clean(f)'
       PROVE  /\ ~is_free(f) /\ frames'[f].page_id = frames[f].page_id
              /\ frames'[f].page = frames[f].page
              /\ \/ DiskAfterLoop(n).pages[frames[f].page_id] = frames'[f].page
                 \/ /\ Clean(f)
                    /\ DiskAfterLoop(n).pages[frames[f].page_id] = disk.pages[frames[f].page_id]
  <2>1. /\ frames'[f].page_id = frames[f].page_id /\ frames'[f].page = frames[f].page
        /\ ~is_free(f)
    BY <1>11, LoopKeepsPins DEF PoolInv, Clean, is_free
  <2>2. frames[f].page_id \in Pages /\ page_table[frames[f].page_id] = f
    BY <2>1, <1>b
  <2>3. DiskAfterLoop(n).pages[frames[f].page_id] =
            IF f \in DirtyFrames /\ f < n THEN frames[f].page ELSE disk.pages[frames[f].page_id]
    BY <2>2, LoopSound
  <2>4. CASE f \in DirtyFrames /\ f < n
    BY <2>1, <2>3, <2>4
  <2>5. CASE ~(f \in DirtyFrames /\ f < n)
    <3>1. frames'[f] = frames[f]
      BY <1>11, <2>5 DEF FramesAfterLoop
    <3> QED
      BY <1>11, <1>d, <2>1, <2>3, <2>5, <3>1 DEF Clean
  <2> QED
    BY <2>4, <2>5
<1>12. ASSUME NEW n, held' = held, frames' = FramesAfterLoop(n),
              disk'.pages = DiskAfterLoop(n).pages
       PROVE  CleanOrTorn'
  BY <1>c, <1>11, <1>12 DEF CleanKept
<1>13. ASSUME FlushAll
       PROVE  CleanOrTorn'
  <2> DEFINE looped == DiskAfterLoop(pool_size)
  <2>1. disk' = Flush(looped) /\ looped \in DiskType /\ 0 \in Pages
    BY <1>13, LoopSound, MaxPagesAssumption DEF FlushAll, Sound, Pages
  <2> HIDE DEF looped
  <2>2. disk'.pages = looped.pages
    BY <2>1, DiskFields
  <2> QED
    BY <1>12, <1>13, <2>2 DEF FlushAll, looped
<1>14. ASSUME NEW n \in 0 .. pool_size, FlushAllFails(n)
       PROVE  CleanOrTorn'
  <2> DEFINE looped == DiskAfterLoop(n)
             p == frames[n].page_id
  <2>1. /\ \/ n \in DirtyFrames /\ Tear(looped, p)
           \/ disk' = looped
        /\ frames' = FramesAfterLoop(n) /\ held' = held
    BY <1>14 DEF FlushAllFails
  <2>2. looped \in DiskType
    BY LoopSound DEF Sound
  <2>3. n \in DirtyFrames => p \in Pages
    BY <1>b DEF DirtyFrames
  <2>4. CASE disk' = looped
    BY <1>12, <2>1, <2>4
  <2>5. CASE n \in DirtyFrames /\ Tear(looped, p)
    BY <1>g, <1>11, <2>1, <2>2, <2>3, <2>5
  <2> QED
    BY <2>1, <2>4, <2>5
<1>15. ASSUME NEW p \in Pages, DeletePage(p)
       PROVE  CleanOrTorn'
  <2> DEFINE f == page_table[p]
  <2>1. /\ f \in Frames /\ frames' = [frames EXCEPT ![f] = FreeFrame]
        /\ disk' = disk /\ held' = held
    BY <1>15, InFrame DEF DeletePage
  <2> HIDE DEF f
  <2>2. \A g \in Frames : Clean(g)' => Clean(g) /\ frames'[g] = frames[g]
    BY <1>a, <1>d, <2>1 DEF Clean, is_free, FreeFrame
  <2> QED
    BY <1>e, <2>1, <2>2
<1>16. ASSUME NEW p \in Pages, WriteBackPage(p)
       PROVE  CleanOrTorn'
  <2>1. disk'.pages = disk.pages /\ frames' = frames /\ held' = held
    BY <1>16, <1>a, DiskFields DEF WriteBackPage
  <2> QED
    BY <1>f, <2>1
<1>17. ASSUME Restart
       PROVE  CleanOrTorn'
  <2>1. \A f \in Frames : ~Clean(f)'
    BY <1>17 DEF Restart, Clean, is_free, FreeFrame
  <2> QED
    BY <1>c, <2>1
<1>18. (\E p \in Pages : FetchNoVictim(p)) \/ ResetMetrics \/ UNCHANGED vars => CleanOrTorn'
  BY <1>f DEF FetchNoVictim, ResetMetrics, vars
<1>19. PowerLoss \/ (\E n \in 0 .. pool_size : ProcessExit(n)) => CleanOrTorn'
  BY <1>17 DEF PowerLoss, ProcessExit
<1> QED
  BY <1>1, <1>3, <1>4, <1>5, <1>7, <1>8, <1>9, <1>10, <1>13, <1>14, <1>15, <1>16, <1>18, <1>19
     DEF Next, FetchEvictFails, NewPageEvictFails

LEMMA InitClean == Init => QuietHandles /\ CleanOrTorn
  BY DEF Init, QuietHandles, CleanOrTorn, Clean, is_free, FreeFrame, NoHandle

THEOREM CleanInvariant == Spec => [](QuietHandles /\ CleanOrTorn)
<1> QED
  BY InitClean, NextQuiet, NextClean, PoolInvariant, DurableInvariant, PTL DEF Spec

-----------------------------------------------------------------------------
(* If no write is cut short, no page is ever torn. *)
NoneTorn == \A p \in Pages : Torn \notin versions[p]

LEMMA NextNoneTorn ==
    ASSUME "tear" \notin Faults
    PROVE  TypeOK /\ DurableInv /\ NoneTorn /\ [Next]_vars => NoneTorn'
<1> SUFFICES ASSUME TypeOK, DurableInv, NoneTorn, [Next]_vars
             PROVE  NoneTorn'
  OBVIOUS
<1>a. versions \in [Pages -> SUBSET Contents] /\ Sound(disk, versions)
  BY DEF TypeOK, DurableInv
<1>1. ASSUME NEW p \in Pages, NEW page, page # Torn,
             versions' = [versions EXCEPT ![p] = @ \cup {page}]
      PROVE  NoneTorn'
  BY <1>1, <1>a DEF NoneTorn
<1>2. ASSUME NEW c \in Clients, NewPage(c)
      PROVE  NoneTorn'
  <2>1. PICK p : versions' = [versions EXCEPT ![p] = @ \cup {Fresh}]
    BY <1>2 DEF NewPage
  <2>2. CASE p \in Pages
    BY <1>1, <2>1, <2>2, ContentsAssumption
  <2>3. CASE p \notin Pages
    BY <1>a, <2>1, <2>3 DEF NoneTorn
  <2> QED
    BY <2>2, <2>3
<1>3. ASSUME NEW c \in Clients, NEW v \in Values, ClientWrite(c, v)
      PROVE  NoneTorn'
  <2>1. held[c].page \in Pages
    BY <1>3, PieceTypes DEF ClientWrite
  <2> QED
    BY <1>1, <1>3, <2>1, ContentsAssumption DEF ClientWrite
<1>4. ASSUME NEW p \in Pages, FlushPage(p)
      PROVE  NoneTorn'
  <2>1. frames[page_table[p]].page # Torn
    BY <1>4 DEF FlushPage, DurableInv, FramesSound, NoneTorn
  <2> QED
    BY <1>4, <1>a, <2>1 DEF FlushPage, NoneTorn
<1>5. ASSUME FlushAll
      PROVE  NoneTorn'
  <2>1. \A p \in Pages : /\ disk.pages[p] # Torn
                         /\ in_pool(p) => frames[page_table[p]].page # Torn
    BY <1>a DEF Sound, DurableInv, FramesSound, NoneTorn
  <2>2. \A p \in Pages : page_table[p] \in DirtyFrames => in_pool(p)
    BY PoolSizeAssumption DEF DirtyFrames, in_pool, Frames, INVALID_FRAME_ID
  <2>3. \A p \in Pages : DiskAfterLoop(pool_size).pages[p] # Torn
    <3> DEFINE looped == [p \in Pages |->
            IF page_table[p] \in DirtyFrames /\ page_table[p] < pool_size
            THEN frames[page_table[p]].page ELSE disk.pages[p]]
    <3>1. DiskAfterLoop(pool_size).pages = looped
      BY DEF DiskAfterLoop, TypeOK, DiskType
    <3> QED
      BY <2>1, <2>2, <3>1
  <2> QED
    BY <1>5, <2>1, <2>3 DEF FlushAll, NoneTorn
<1>6. ASSUME PowerLoss
      PROVE  NoneTorn'
  BY <1>6, <1>a DEF PowerLoss, Sound, NoneTorn
<1>7. ASSUME versions' = versions
      PROVE  NoneTorn'
  BY <1>7 DEF NoneTorn
<1> QED
  BY <1>2, <1>3, <1>4, <1>5, <1>6, <1>7
     DEF Next, vars, FetchHit, FetchMiss, FetchReadFails, FetchNoVictim, FetchEvictFails,
         EvictionFails, NewPageAllocateFails, NewPageEvictFails, Unpin, FlushPageFails,
         FlushAllFails, DeletePage, ResetMetrics, WriteBackPage, ProcessExit

(* If no write is cut short, a clean frame nobody is changing has the page the
   file has: evict_frame may drop it without writing. *)
THEOREM CleanFramesMatch == "tear" \notin Faults => (Spec => []CleanFramesMatchFile)
<1> SUFFICES ASSUME "tear" \notin Faults
             PROVE  Spec => []CleanFramesMatchFile
  OBVIOUS
<1>1. Init => NoneTorn
  BY ContentsAssumption DEF Init, NoneTorn
<1>2. PoolInv /\ DurableInv /\ NoneTorn /\ [Next]_vars => NoneTorn'
  BY NextNoneTorn DEF PoolInv
<1>3. PoolInv /\ DurableInv /\ NoneTorn /\ CleanOrTorn => CleanFramesMatchFile
  <2> SUFFICES ASSUME PoolInv, DurableInv, NoneTorn, CleanOrTorn, NEW f \in Frames, Clean(f)
               PROVE  frames[f].page = disk.pages[frames[f].page_id]
    BY DEF CleanFramesMatchFile, Clean
  <2>1. frames[f].page_id \in Pages
    BY Occupied DEF Clean
  <2> QED
    BY <2>1 DEF DurableInv, Sound, NoneTorn, CleanOrTorn
<1> QED
  BY <1>1, <1>2, <1>3, PoolInvariant, DurableInvariant, CleanInvariant, PTL DEF Spec

-----------------------------------------------------------------------------
(* The capacity of the list is never what keeps a frame off it: all frames but
   the one to be listed fit in. *)
LEMMA RoomForTheLast ==
    ASSUME PoolInv, NEW f \in Frames
    PROVE  Listed(UnpinFrame(lru_list, f, pool_size)) = Listed(lru_list) \cup {f}
<1> DEFINE rest == PinFrame(lru_list, f)
<1>1. lru_list \in Seq(Frames) /\ OnceEach(lru_list) /\ pool_size \in Nat
  BY PoolSizeAssumption DEF PoolInv, TypeOK, VictimsEvictable, OnceEach
<1>2. rest \in Seq(Frames) /\ OnceEach(rest) /\ Listed(rest) = Listed(lru_list) \ {f}
  BY <1>1, PinFrameProperties
<1> HIDE DEF rest
<1>3. Cardinality(Listed(rest)) = Len(rest) /\ Len(rest) \in Nat
  BY <1>2, ListedCardinality, LenProperties
<1>4. IsFiniteSet(Frames) /\ Cardinality(Frames) = pool_size
  <2>1. /\ IsFiniteSet(0 .. pool_size - 1)
        /\ Cardinality(0 .. pool_size - 1) =
               IF 0 > pool_size - 1 THEN 0 ELSE (pool_size - 1) - 0 + 1
    BY <1>1, FS_Interval
  <2> QED
    BY <2>1, PoolSizeAssumption DEF Frames
<1>5. Listed(rest) \subseteq Frames \ {f}
  BY <1>2, LenProperties, ElementOfSeq DEF Listed
<1>6. IsFiniteSet(Frames \ {f}) /\ Cardinality(Frames \ {f}) = pool_size - 1
  BY <1>4, FS_RemoveElement
<1>7. Cardinality(Listed(rest)) <= Cardinality(Frames \ {f})
  BY <1>5, <1>6, FS_Subset
<1>8. Len(rest) < pool_size
  BY <1>1, <1>3, <1>6, <1>7
<1> QED
  BY <1>1, <1>8, UnpinFrameProperties DEF rest

(* NoFrameLost, with the list as a set. *)
AllListed == \A f \in Frames : ~is_free(f) /\ frames[f].pin_count = 0 => f \in Listed(lru_list)

LEMMA NextAllListed ==
    ASSUME Faults \cap {"write", "fsync", "tear"} = {}
    PROVE  PoolInv /\ AllListed /\ [Next]_vars => AllListed'
<1> SUFFICES ASSUME PoolInv, AllListed, [Next]_vars
             PROVE  AllListed'
  OBVIOUS
<1>a. /\ frames \in [Frames -> FrameType]
      /\ page_table \in [Pages -> Frames \cup {INVALID_FRAME_ID}]
      /\ lru_list \in Seq(Frames) /\ OnceEach(lru_list)
  BY DEF PoolInv, TypeOK, VictimsEvictable, OnceEach
<1>b. \A f \in Frames : Listed(PinFrame(lru_list, f)) = Listed(lru_list) \ {f}
  BY <1>a, PinFrameProperties
<1>1. ASSUME NEW f \in Frames, Listed(lru_list') = Listed(lru_list) \ {f},
             frames'[f].page_id = INVALID_PAGE_ID \/ frames'[f].pin_count # 0,
             \A g \in Frames : g # f => frames'[g] = frames[g]
      PROVE  AllListed'
  BY <1>1 DEF AllListed, is_free
<1>2. ASSUME lru_list' = lru_list,
             \A f \in Frames : /\ frames'[f].page_id = frames[f].page_id
                               /\ frames'[f].pin_count = frames[f].pin_count
      PROVE  AllListed'
  BY <1>2 DEF AllListed, is_free
<1>3. ASSUME NEW c \in Clients, NEW p \in Pages, FetchHit(c, p)
      PROVE  AllListed'
  <2> DEFINE f == page_table[p]
  <2>1. /\ f \in Frames /\ lru_list' = PinFrame(lru_list, f)
        /\ frames' = [frames EXCEPT ![f] = Pinned(f)]
    BY <1>3, InFrame DEF FetchHit
  <2> HIDE DEF f
  <2>2. frames[f].pin_count \in Nat /\ Pinned(f).pin_count = frames[f].pin_count + 1
    BY <1>a, <2>1 DEF Pinned, FrameType
  <2>3. Pinned(f).pin_count # 0
    BY <2>2
  <2> QED
    BY <1>1, <1>a, <1>b, <2>1, <2>3
<1>4. ASSUME NEW c \in Clients, NEW p, NEW page, NEW is_dirty,
             find_victim_frame # INVALID_FRAME_ID,
             Occupy(find_victim_frame, p, c, page, is_dirty)
      PROVE  AllListed'
  <2> DEFINE f == find_victim_frame
  <2>1. /\ f \in Frames /\ ListAfterVictim \in Seq(Frames) /\ OnceEach(ListAfterVictim)
        /\ Listed(ListAfterVictim) = Listed(lru_list) \ {f}
    BY <1>4, VictimFacts
  <2> HIDE DEF f
  <2>2. Listed(PinFrame(ListAfterVictim, f)) = Listed(lru_list) \ {f}
    BY <2>1, PinFrameProperties
  <2>3. /\ lru_list' = PinFrame(ListAfterVictim, f)
        /\ frames' = [frames EXCEPT ![f] = [page_id |-> p, pin_count |-> 1,
                                            is_dirty |-> is_dirty, page |-> page]]
    BY <1>4 DEF Occupy, f
  <2> QED
    BY <1>1, <1>a, <2>1, <2>2, <2>3
<1>5. ASSUME (\E p \in Pages : FetchReadFails(p)) \/ NewPageAllocateFails
      PROVE  AllListed'
  <2> DEFINE f == find_victim_frame
  <2>1. /\ f # INVALID_FRAME_ID /\ lru_list' = ListAfterVictim
        /\ frames' = [frames EXCEPT ![f] = FreeFrame]
    BY <1>5 DEF FetchReadFails, NewPageAllocateFails
  <2>2. f \in Frames /\ Listed(lru_list') = Listed(lru_list) \ {f}
    BY <2>1, VictimFacts
  <2> HIDE DEF f
  <2> QED
    BY <1>1, <1>a, <2>1, <2>2 DEF FreeFrame
<1>6. ~EvictionFails
  BY DEF EvictionFails
<1>7. ASSUME NEW c \in Clients, NEW v \in Values, ClientWrite(c, v)
      PROVE  AllListed'
  <2>1. \A f \in Frames : /\ frames'[f].page_id = frames[f].page_id
                          /\ frames'[f].pin_count = frames[f].pin_count
    BY <1>7, <1>a DEF ClientWrite, FrameType
  <2> QED
    BY <1>2, <1>7, <2>1 DEF ClientWrite
<1>8. ASSUME NEW c \in Clients, Unpin(c)
      PROVE  AllListed'
  <2> DEFINE f == page_table[held[c].page]
             pins == frames[f].pin_count - 1
  <2>1. /\ f \in Frames
        /\ lru_list' = IF pins = 0 THEN UnpinFrame(lru_list, f, pool_size) ELSE lru_list
    BY <1>8 DEF Unpin, PoolInv, HandlesStable
  <2>2. \A g \in Frames : /\ frames'[g].page_id = frames[g].page_id
                          /\ g # f => frames'[g].pin_count = frames[g].pin_count
                          /\ g = f => frames'[g].pin_count = pins
    BY <1>8, <1>a, <2>1 DEF Unpin, FrameType
  <2> HIDE DEF f, pins
  <2>3. CASE pins = 0
    <3>1. Listed(lru_list') = Listed(lru_list) \cup {f}
      BY <2>1, <2>3, RoomForTheLast
    <3> QED
      BY <2>2, <3>1 DEF AllListed, is_free
  <2>4. CASE pins # 0
    BY <2>1, <2>2, <2>4 DEF AllListed, is_free
  <2> QED
    BY <2>3, <2>4
<1>9. ASSUME NEW p \in Pages, FlushPage(p)
      PROVE  AllListed'
  <2>1. \A f \in Frames : /\ frames'[f].page_id = frames[f].page_id
                          /\ frames'[f].pin_count = frames[f].pin_count
    BY <1>9, <1>a DEF FlushPage, FrameType
  <2> QED
    BY <1>2, <1>9, <2>1 DEF FlushPage
<1>10. ASSUME NEW n, frames' = FramesAfterLoop(n), lru_list' = lru_list
       PROVE  AllListed'
  BY <1>2, <1>10, LoopKeepsPins DEF PoolInv
<1>11. FlushAll \/ (\E n \in 0 .. pool_size : FlushAllFails(n)) => AllListed'
  BY <1>10 DEF FlushAll, FlushAllFails
<1>12. ASSUME NEW p \in Pages, DeletePage(p)
       PROVE  AllListed'
  <2> DEFINE f == page_table[p]
  <2>1. /\ f \in Frames /\ lru_list' = PinFrame(lru_list, f)
        /\ frames' = [frames EXCEPT ![f] = FreeFrame]
    BY <1>12, InFrame DEF DeletePage
  <2> HIDE DEF f
  <2> QED
    BY <1>1, <1>a, <1>b, <2>1 DEF FreeFrame
<1>13. ASSUME Restart
       PROVE  AllListed'
  BY <1>13 DEF Restart, AllListed, is_free, FreeFrame
<1>14. ASSUME UNCHANGED <<frames, lru_list>>
       PROVE  AllListed'
  BY <1>2, <1>14
<1>15. UNCHANGED vars \/ ResetMetrics => AllListed'
  BY <1>14 DEF vars, ResetMetrics
<1>16. ASSUME NEW p \in Pages, FetchNoVictim(p) \/ FlushPageFails(p) \/ WriteBackPage(p)
       PROVE  AllListed'
  BY <1>14, <1>16 DEF FetchNoVictim, FlushPageFails, WriteBackPage
<1>17. PowerLoss \/ (\E n \in 0 .. pool_size : ProcessExit(n)) => AllListed'
  BY <1>13 DEF PowerLoss, ProcessExit
<1>18. ASSUME NEW c \in Clients, NewPage(c) \/ (\E p \in Pages : FetchMiss(c, p))
       PROVE  AllListed'
  BY <1>4, <1>18 DEF NewPage, FetchMiss
<1> QED
  BY <1>3, <1>5, <1>6, <1>7, <1>8, <1>9, <1>11, <1>12, <1>15, <1>16, <1>17, <1>18
     DEF Next, FetchEvictFails, NewPageEvictFails

(* If every write and fsync succeeds, a frame is free, pinned or on the list,
   whatever else fails, and however full the pool is. *)
THEOREM FramesNotLost ==
    Faults \cap {"write", "fsync", "tear"} = {} => (Spec => []NoFrameLost)
<1> SUFFICES ASSUME Faults \cap {"write", "fsync", "tear"} = {}
             PROVE  Spec => []NoFrameLost
  OBVIOUS
<1>1. Init => AllListed
  BY DEF Init, AllListed, is_free, FreeFrame
<1>2. PoolInv /\ AllListed /\ [Next]_vars => AllListed'
  BY NextAllListed
<1>3. PoolInv /\ AllListed => NoFrameLost
  <2>1. ASSUME NEW f \in Listed(lru_list)
        PROVE  Contains(lru_list, f)
    BY DEF Listed, Contains
  <2>2. AllListed => NoFrameLost
    BY <2>1 DEF AllListed, NoFrameLost
  <2> QED
    BY <2>2
<1> QED
  BY <1>1, <1>2, <1>3, PoolInvariant, PTL DEF Spec

-----------------------------------------------------------------------------
(*************************************************************************)
(* The pool implements PageStore: each step is the step of the store that  *)
(* its call stands for, or changes nothing a user of it can see.         *)
(*************************************************************************)

(* The pool, its handles, its file and the clean frames are as they must be. *)
StoreInv == PoolInv /\ DurableInv /\ QuietHandles /\ CleanOrTorn

LEMMA StoreInvariant == Spec => []StoreInv
<1> QED
  BY PoolInvariant, DurableInvariant, CleanInvariant, PTL DEF StoreInv

LEMMA StoreInit == Init => Store!Init
<1> SUFFICES ASSUME Init
             PROVE  Store!Init
  OBVIOUS
<1>1. disk.page_count = 0 /\ \A p \in Pages : ~in_pool(p) /\ disk.pages[p] = Hole
  BY DEF Init, in_pool, EmptyDisk
<1>2. Visible = [p \in Pages |-> Hole]
  BY <1>1 DEF Visible
<1>3. OpenPages = {}
  BY DEF Init, OpenPages, NoHandle
<1> QED
  BY <1>1, <1>2, <1>3 DEF Init, Store!Init, Store!Pages, Pages

(* What is seen of a page. *)
LEMMA VisibleIs ==
    /\ \A p \in Pages : Visible[p] = IF in_pool(p) THEN frames[page_table[p]].page
                                                  ELSE disk.pages[p]
    /\ Visible = [p \in Pages |-> Visible[p]]
  BY DEF Visible

(* The file, seen beyond the pool, is as the frames are. *)
LEMMA VisibleType == StoreInv => Visible \in [Pages -> Contents]
<1> SUFFICES ASSUME StoreInv, NEW p \in Pages
             PROVE  Visible[p] \in Contents
  BY DEF Visible
<1>1. /\ versions[p] \subseteq Contents /\ disk.pages[p] \in versions[p]
      /\ in_pool(p) => frames[page_table[p]].page \in versions[p]
  BY DEF StoreInv, DurableInv, Sound, FramesSound
<1> QED
  BY <1>1, VisibleIs

(* Nothing a user sees has changed. *)
LEMMA Unseen ==
    ASSUME StoreInv, disk'.page_count = disk.page_count, versions' = versions,
           OpenPages' = OpenPages,
           \A p \in Pages : Visible'[p] = Visible[p]
    PROVE  UNCHANGED Store!vars
<1>1. Visible' = Visible
  BY DEF Visible
<1> QED
  BY <1>1 DEF Store!vars

-----------------------------------------------------------------------------
(* What is seen once frame f is evicted. *)
SeenWithout(f, p) ==
    IF ~is_free(f) /\ p = frames[f].page_id THEN DiskAfterEviction(f).pages[p] ELSE Visible[p]

(* Evicting a frame without holders shows every page as before, but for one that
   was torn in the file below a clean frame. *)
LEMMA EvictionSeen ==
    ASSUME StoreInv, NEW f \in Frames, \A c \in Clients : held[c].frame # f
    PROVE  /\ DiskAfterEviction(f).page_count = disk.page_count
           /\ \A p \in Pages : ~in_pool(p) => DiskAfterEviction(f).pages[p] = Visible[p]
           /\ \A p \in Pages : SeenWithout(f, p) # Visible[p] =>
                  /\ p = frames[f].page_id /\ p \notin OpenPages
                  /\ SeenWithout(f, p) = Torn /\ Torn \in versions[p]
<1>1. DiskAfterEviction(f).page_count = disk.page_count
  BY EvictionFields DEF StoreInv
<1>2. \A p \in Pages : DiskAfterEviction(f).pages[p] =
          IF must_write(f) /\ p = frames[f].page_id THEN frames[f].page ELSE disk.pages[p]
  BY EvictedPages DEF StoreInv
<1>3. ASSUME ~is_free(f)
      PROVE  /\ frames[f].page_id \in Pages /\ in_pool(frames[f].page_id)
             /\ page_table[frames[f].page_id] = f
             /\ frames[f].page_id \notin OpenPages
             /\ Visible[frames[f].page_id] = frames[f].page
  BY <1>3, Occupied, NotHeldNotOpen, VisibleIs DEF StoreInv
<1>4. ASSUME NEW p \in Pages, ~in_pool(p)
      PROVE  DiskAfterEviction(f).pages[p] = Visible[p]
  BY <1>2, <1>3, <1>4, VisibleIs DEF must_write
<1>5. ASSUME NEW p \in Pages, SeenWithout(f, p) # Visible[p]
      PROVE  /\ p = frames[f].page_id /\ p \notin OpenPages
             /\ SeenWithout(f, p) = Torn /\ Torn \in versions[p]
  <2>1. ~is_free(f) /\ p = frames[f].page_id /\ SeenWithout(f, p) = DiskAfterEviction(f).pages[p]
    BY <1>5 DEF SeenWithout
  <2>2. ~frames[f].is_dirty /\ SeenWithout(f, p) = disk.pages[p]
    BY <1>2, <1>3, <1>5, <2>1 DEF must_write
  <2>3. disk.pages[p] \in {frames[f].page, Torn} /\ disk.pages[p] \in versions[p]
    BY <1>3, <2>1, <2>2 DEF StoreInv, CleanOrTorn, Clean, DurableInv, Sound
  <2> QED
    BY <1>3, <1>5, <2>1, <2>2, <2>3
<1> QED
  BY <1>1, <1>4, <1>5

(* So a call that makes room and does nothing else that is seen is a step of
   the store, or none. *)
LEMMA EvictionStep ==
    ASSUME StoreInv, NEW f \in Frames, \A c \in Clients : held[c].frame # f,
           disk'.page_count = disk.page_count, versions' = versions,
           OpenPages' = OpenPages,
           \A p \in Pages : Visible'[p] = SeenWithout(f, p)
    PROVE  StoreStep \/ UNCHANGED Store!vars
<1>1. CASE \A p \in Pages : SeenWithout(f, p) = Visible[p]
  BY <1>1, Unseen
<1>2. CASE \E p \in Pages : SeenWithout(f, p) # Visible[p]
  <2>1. PICK p \in Pages : SeenWithout(f, p) # Visible[p]
    BY <1>2
  <2>2. p \notin OpenPages /\ SeenWithout(f, p) = Torn /\ Torn \in versions[p]
    BY <2>1, EvictionSeen
  <2>3. \A q \in Pages : q # p => Visible'[q] = Visible[q]
    BY <2>1, EvictionSeen
  <2>4. Visible' = [Visible EXCEPT ![p] = Torn]
    BY <2>2, <2>3 DEF Visible
  <2>5. Store!Forget(p)
    BY <2>2, <2>4 DEF Store!Forget, Store!TornPages, Store!Pages, Pages
  <2> QED
    BY <2>5 DEF StoreStep
<1> QED
  BY <1>1, <1>2

(* The pages of the other frames are seen as before when frame f is emptied, or
   taken by page p, which was not in the pool. *)
LEMMA OthersSeen ==
    ASSUME StoreInv, NEW f \in Frames, NEW p,
           p \in Pages => ~in_pool(p),
           \A g \in Frames : g # f => frames'[g] = frames[g],
           \A q \in Pages : q # p => page_table'[q] = IF q = frames[f].page_id
                                                 THEN INVALID_FRAME_ID ELSE page_table[q],
           \A q \in Pages : q # p => disk'.pages[q] = DiskAfterEviction(f).pages[q]
    PROVE  \A q \in Pages : q # p => Visible'[q] = SeenWithout(f, q)
<1> SUFFICES ASSUME NEW q \in Pages, q # p
             PROVE  Visible'[q] = SeenWithout(f, q)
  OBVIOUS
<1>1. Visible'[q] = IF in_pool(q)' THEN frames'[page_table'[q]].page ELSE disk'.pages[q]
  BY DEF Visible
<1>2. DiskAfterEviction(f).pages[q] =
          IF must_write(f) /\ q = frames[f].page_id THEN frames[f].page ELSE disk.pages[q]
  BY EvictedPages DEF StoreInv
<1>3. CASE q = frames[f].page_id
  <2>1. ~is_free(f)
    BY <1>3, MaxPagesAssumption DEF is_free, INVALID_PAGE_ID, Pages
  <2> QED
    BY <1>1, <1>3, <2>1 DEF in_pool, SeenWithout
<1>4. CASE q # frames[f].page_id
  <2>1. page_table'[q] = page_table[q] /\ SeenWithout(f, q) = Visible[q]
        /\ disk'.pages[q] = disk.pages[q]
    BY <1>2, <1>4 DEF SeenWithout
  <2>2. in_pool(q) => page_table[q] \in Frames /\ page_table[q] # f
    BY <1>4, InFrame DEF StoreInv
  <2> QED
    BY <1>1, <2>1, <2>2, VisibleIs DEF in_pool
<1> QED
  BY <1>3, <1>4

-----------------------------------------------------------------------------
(* fetch_page on a miss. *)
LEMMA MissStep ==
    ASSUME StoreInv, NEW c \in Clients, NEW p \in Pages, FetchMiss(c, p)
    PROVE  StoreStep \/ UNCHANGED Store!vars
<1> DEFINE f == find_victim_frame
           evicted == DiskAfterEviction(f)
<1>1. /\ f # INVALID_FRAME_ID /\ disk' = evicted /\ versions' = versions
      /\ ~holds(c) /\ ~in_pool(p) /\ Occupy(f, p, c, evicted.pages[p], FALSE)
  BY DEF FetchMiss
<1>2. f \in Frames /\ \A d \in Clients : held[d].frame # f
  BY <1>1, VictimFacts DEF StoreInv
<1>3. evicted.page_count = disk.page_count /\ evicted.pages[p] = Visible[p]
  BY <1>1, <1>2, EvictionSeen
<1> HIDE DEF evicted, f
<1>4. /\ frames' = [frames EXCEPT ![f] = [page_id |-> p, pin_count |-> 1,
                                         is_dirty |-> FALSE, page |-> evicted.pages[p]]]
      /\ page_table' = [TableAfterEviction(f) EXCEPT ![p] = f]
      /\ held' = [held EXCEPT ![c] = [page |-> p, frame |-> f, wrote |-> FALSE]]
  BY <1>1 DEF Occupy
<1>5. /\ \A g \in Frames : g # f => frames'[g] = frames[g]
      /\ frames'[f].page = evicted.pages[p]
      /\ page_table'[p] = f
      /\ \A q \in Pages : q # p => page_table'[q] = IF q = frames[f].page_id
                                                 THEN INVALID_FRAME_ID ELSE page_table[q]
  BY <1>2, <1>4 DEF StoreInv, PoolInv, TypeOK, TableAfterEviction
<1>6. \A q \in Pages : q # p => Visible'[q] = SeenWithout(f, q)
  BY <1>1, <1>2, <1>5, OthersSeen DEF evicted
<1>7. Visible'[p] = SeenWithout(f, p)
  <2>1. p # frames[f].page_id \/ is_free(f)
    BY <1>1, <1>2, Occupied DEF StoreInv
  <2>2. in_pool(p)'
    BY <1>2, <1>5, PoolSizeAssumption DEF in_pool, Frames, INVALID_FRAME_ID
  <2> QED
    BY <1>3, <1>5, <2>1, <2>2 DEF SeenWithout, Visible
<1>8. OpenPages' = OpenPages
  <2>1. /\ \A d \in Clients : d # c => held'[d] = held[d]
        /\ ~held[c].wrote /\ ~held'[c].wrote
    BY <1>1, <1>4 DEF StoreInv, QuietHandles, PoolInv, TypeOK
  <2> QED
    BY <2>1 DEF OpenPages
<1> QED
  BY <1>1, <1>2, <1>3, <1>6, <1>7, <1>8, EvictionStep

(* fetch_page or new_page fails after the eviction. *)
LEMMA FreedStep ==
    ASSUME StoreInv, (\E p \in Pages : FetchReadFails(p)) \/ NewPageAllocateFails
    PROVE  StoreStep \/ UNCHANGED Store!vars
<1> DEFINE f == find_victim_frame
<1>1. /\ f # INVALID_FRAME_ID /\ disk' = DiskAfterEviction(f) /\ versions' = versions
      /\ frames' = [frames EXCEPT ![f] = FreeFrame] /\ held' = held
      /\ page_table' = TableAfterEviction(f)
  BY DEF FetchReadFails, NewPageAllocateFails
<1>2. f \in Frames /\ \A d \in Clients : held[d].frame # f
  BY <1>1, VictimFacts DEF StoreInv
<1> HIDE DEF f
<1>3. DiskAfterEviction(f).page_count = disk.page_count
  BY <1>2, EvictionSeen
<1>4. \A g \in Frames : g # f => frames'[g] = frames[g]
  BY <1>1, <1>2 DEF StoreInv, PoolInv, TypeOK
<1>5. \A q \in Pages : Visible'[q] = SeenWithout(f, q)
  <2>1. -1 \notin Pages
    BY MaxPagesAssumption DEF Pages
  <2> QED
    BY <1>1, <1>2, <1>4, <2>1, OthersSeen DEF TableAfterEviction
<1>6. OpenPages' = OpenPages
  BY <1>1 DEF OpenPages
<1> QED
  BY <1>1, <1>2, <1>3, <1>5, <1>6, EvictionStep

(* new_page: the store allocates, and may lose its copy of a torn page. *)
LEMMA NewPageStep ==
    ASSUME StoreInv, NEW c \in Clients, NewPage(c)
    PROVE  Store!Allocate
<1> SUFFICES ASSUME NEW f, NEW evicted, NEW p, f = find_victim_frame,
                    evicted = DiskAfterEviction(f), p = evicted.page_count
             PROVE  Store!Allocate
  OBVIOUS
<1>1. /\ f # INVALID_FRAME_ID /\ p < MaxPages /\ disk' = AllocatePage(evicted)
      /\ ~holds(c) /\ Occupy(f, p, c, Fresh, TRUE)
      /\ versions' = [versions EXCEPT ![p] = @ \cup {Fresh}]
  BY DEF NewPage
<1>2. f \in Frames /\ \A d \in Clients : held[d].frame # f
  BY <1>1, VictimFacts DEF StoreInv
<1>3. p = disk.page_count /\ evicted \in DiskType
  BY <1>2, EvictionSeen, EvictionSound DEF StoreInv, Sound
<1>4. /\ p \in Pages /\ p \in Nat /\ ~in_pool(p)
      /\ evicted.pages \in [Pages -> Contents]
  <2>1. evicted.page_count < MaxPages
    BY <1>1
  <2>2. p \in Pages /\ p \in Nat /\ evicted.pages \in [Pages -> Contents]
    BY <1>3, <2>1, CountTypes
  <2>3. ~(p < disk.page_count)
    BY <1>3, <2>2
  <2> QED
    BY <2>2, <2>3 DEF StoreInv, PoolInv, ResidentInFile
<1>5. disk'.page_count = p + 1 /\ disk'.pages = [evicted.pages EXCEPT ![p] = Fresh]
  <2>1. /\ AllocatePage(evicted).page_count = evicted.page_count + 1
        /\ AllocatePage(evicted).pages = [evicted.pages EXCEPT ![p] = Fresh]
    BY <1>3, <1>4, DiskFields
  <2> QED
    BY <1>1, <2>1
<1>6. /\ frames' = [frames EXCEPT ![f] = [page_id |-> p, pin_count |-> 1,
                                         is_dirty |-> TRUE, page |-> Fresh]]
      /\ page_table' = [TableAfterEviction(f) EXCEPT ![p] = f]
      /\ held' = [held EXCEPT ![c] = [page |-> p, frame |-> f, wrote |-> FALSE]]
  BY <1>1 DEF Occupy
<1>7. /\ \A g \in Frames : g # f => frames'[g] = frames[g]
      /\ frames'[f].page = Fresh
      /\ page_table'[p] = f
      /\ \A q \in Pages : q # p => page_table'[q] = IF q = frames[f].page_id
                                                 THEN INVALID_FRAME_ID ELSE page_table[q]
  BY <1>2, <1>4, <1>6 DEF StoreInv, PoolInv, TypeOK, TableAfterEviction
<1>8. \A q \in Pages : q # p => disk'.pages[q] = DiskAfterEviction(f).pages[q]
  BY <1>4, <1>5
<1>9. \A q \in Pages : q # p => Visible'[q] = SeenWithout(f, q)
  BY <1>2, <1>4, <1>7, <1>8, OthersSeen
<1>10. Visible'[p] = Fresh
  <2>1. page_table'[p] # INVALID_FRAME_ID
    BY <1>2, <1>7, PoolSizeAssumption DEF Frames, INVALID_FRAME_ID
  <2> QED
    BY <1>4, <1>7, <2>1 DEF Visible, in_pool
<1>11. OpenPages' = OpenPages
  <2>1. /\ \A d \in Clients : d # c => held'[d] = held[d]
        /\ ~held[c].wrote /\ ~held'[c].wrote
    BY <1>1, <1>6 DEF StoreInv, QuietHandles, PoolInv, TypeOK
  <2> QED
    BY <2>1 DEF OpenPages
<1>12. \E t \in Store!TornPages \cup {p} :
          Visible' = [Visible EXCEPT ![t] = Torn, ![p] = Fresh]
  <2>1. CASE \A q \in Pages : q # p => SeenWithout(f, q) = Visible[q]
    <3>1. \A q \in Pages : Visible'[q] = IF q = p THEN Fresh ELSE Visible[q]
      BY <1>9, <1>10, <2>1
    <3>2. Visible' = [Visible EXCEPT ![p] = Torn, ![p] = Fresh]
      BY <1>4, <3>1 DEF Visible
    <3> QED
      BY <3>2
  <2>2. CASE \E q \in Pages : q # p /\ SeenWithout(f, q) # Visible[q]
    <3>1. PICK t \in Pages : t # p /\ SeenWithout(f, t) # Visible[t]
      BY <2>2
    <3>2. /\ t \in Store!TornPages /\ SeenWithout(f, t) = Torn
          /\ \A q \in Pages : q # t => SeenWithout(f, q) = Visible[q]
      BY <1>2, <3>1, EvictionSeen DEF Store!TornPages, Store!Pages, Pages
    <3>3. \A q \in Pages : Visible'[q] = IF q = p THEN Fresh
                                        ELSE IF q = t THEN Torn ELSE Visible[q]
      BY <1>9, <1>10, <3>2
    <3>4. Visible' = [Visible EXCEPT ![t] = Torn, ![p] = Fresh]
      BY <1>4, <3>1, <3>3 DEF Visible
    <3> QED
      BY <3>2, <3>4
  <2> QED
    BY <2>1, <2>2
<1> QED
  BY <1>1, <1>3, <1>5, <1>11, <1>12 DEF Store!Allocate

-----------------------------------------------------------------------------
(* The table stays, and the file changes below pages of the pool only. *)
LEMMA SeenInFrames ==
    ASSUME StoreInv, page_table' = page_table,
           \A f \in Frames : frames'[f].page = frames[f].page,
           \A p \in Pages : in_pool(p) \/ disk'.pages[p] = disk.pages[p]
    PROVE  Visible' = Visible
<1>1. ASSUME NEW p \in Pages
      PROVE  Visible'[p] = Visible[p]
  BY InFrame DEF Visible, in_pool, StoreInv
<1> QED
  BY <1>1 DEF Visible

(* Nor is anything else a user sees changed. *)
LEMMA SameSeen ==
    ASSUME StoreInv, Visible' = Visible, held' = held, versions' = versions,
           disk'.page_count = disk.page_count
    PROVE  UNCHANGED Store!vars
<1>1. OpenPages' = OpenPages
  BY DEF OpenPages
<1> QED
  BY <1>1 DEF Store!vars

(* A write of a page of the pool is cut short. *)
LEMMA TornStep ==
    ASSUME StoreInv, NEW d \in DiskType, d.page_count = disk.page_count,
           NEW p \in Pages, in_pool(p), Tear(d, p), held' = held,
           page_table' = page_table,
           \A f \in Frames : frames'[f].page = frames[f].page,
           \A q \in Pages : in_pool(q) \/ d.pages[q] = disk.pages[q]
    PROVE  StoreStep
<1>1. /\ d.pages \in [Pages -> Contents]
      /\ disk'.pages = [d.pages EXCEPT ![p] = Torn] /\ disk'.page_count = disk.page_count
      /\ versions' = [versions EXCEPT ![p] = @ \cup {Torn}]
  BY CountTypes, DiskFields DEF Tear
<1>2. \A q \in Pages : in_pool(q) \/ disk'.pages[q] = disk.pages[q]
  BY <1>1
<1>3. Visible' = Visible
  BY <1>2, SeenInFrames
<1>4. p < disk.page_count
  BY DEF StoreInv, PoolInv, ResidentInFile
<1>5. OpenPages' = OpenPages
  BY DEF OpenPages
<1>6. Store!Tear(p)
  BY <1>1, <1>3, <1>4, <1>5 DEF Store!Tear
<1> QED
  BY <1>6 DEF StoreStep

(* evict_frame throws: the file may have the page, whole or torn. *)
LEMMA EvictionFailsStep ==
    ASSUME StoreInv, EvictionFails
    PROVE  StoreStep \/ UNCHANGED Store!vars
<1> SUFFICES ASSUME NEW f, NEW p, NEW written, f = find_victim_frame,
                    p = frames[f].page_id,
                    written = WritePage(disk, p, frames[f].page)
             PROVE  StoreStep \/ UNCHANGED Store!vars
  OBVIOUS
<1>1. /\ must_write(f) /\ f # INVALID_FRAME_ID
      /\ frames' = frames /\ page_table' = page_table /\ held' = held
      /\ \/ disk' = disk /\ versions' = versions
         \/ Tear(disk, p)
         \/ disk' = written /\ versions' = versions
  BY DEF EvictionFails
<1>2. f \in Frames /\ ~is_free(f)
  BY <1>1, VictimFacts DEF StoreInv, must_write
<1>3. /\ p \in Pages /\ in_pool(p) /\ disk \in DiskType
      /\ disk.pages \in [Pages -> Contents]
      /\ written.page_count = disk.page_count
      /\ written.pages = [disk.pages EXCEPT ![p] = frames[f].page]
  BY <1>2, Occupied, WriteKeepsLength, CountTypes DEF StoreInv, PoolInv, TypeOK
<1>4. CASE Tear(disk, p)
  BY <1>1, <1>3, <1>4, TornStep
<1>5. CASE versions' = versions /\ (disk' = disk \/ disk' = written)
  <2>1. \A q \in Pages : in_pool(q) \/ disk'.pages[q] = disk.pages[q]
    BY <1>3, <1>5
  <2>2. disk'.page_count = disk.page_count
    BY <1>3, <1>5
  <2> QED
    BY <1>1, <1>5, <2>1, <2>2, SeenInFrames, SameSeen
<1> QED
  BY <1>1, <1>4, <1>5

-----------------------------------------------------------------------------
(* A holder writes: what it writes is seen at once. *)
LEMMA ClientWriteStep ==
    ASSUME StoreInv, NEW c \in Clients, NEW v \in Values, ClientWrite(c, v)
    PROVE  StoreStep
<1> SUFFICES ASSUME NEW p, NEW f, p = held[c].page, f = held[c].frame
             PROVE  StoreStep
  OBVIOUS
<1>a. /\ frames \in [Frames -> FrameType] /\ held \in [Clients -> HandleType]
  BY DEF StoreInv, PoolInv, TypeOK
<1>1. /\ holds(c) /\ frames' = [frames EXCEPT ![f].page = v]
      /\ held' = [held EXCEPT ![c].wrote = TRUE]
      /\ versions' = [versions EXCEPT ![p] = @ \cup {v}]
      /\ page_table' = page_table /\ disk' = disk
  BY DEF ClientWrite
<1>2. p \in Pages /\ f \in Frames /\ page_table[p] = f /\ in_pool(p)
  <2>1. p \in Pages
    BY <1>1, PieceTypes DEF StoreInv, PoolInv
  <2>2. f \in Frames /\ page_table[p] = f
    BY <1>1 DEF StoreInv, PoolInv, HandlesStable
  <2> QED
    BY <2>1, <2>2, PoolSizeAssumption DEF in_pool, Frames, INVALID_FRAME_ID
<1>3. p < disk.page_count
  BY <1>2 DEF StoreInv, PoolInv, ResidentInFile
<1>4. \A q \in Pages : Visible'[q] = IF q = p THEN v ELSE Visible[q]
  <2>1. ASSUME NEW q \in Pages, in_pool(q)
        PROVE  frames'[page_table[q]].page = IF q = p THEN v ELSE frames[page_table[q]].page
    <3>1. page_table[q] \in Frames /\ (page_table[q] = f => q = p)
      BY <1>2, <2>1, InFrame DEF StoreInv
    <3> QED
      BY <1>a, <1>1, <1>2, <3>1 DEF FrameType
  <2> QED
    BY <1>1, <1>2, <2>1 DEF Visible, in_pool
<1>5. Visible' = [Visible EXCEPT ![p] = v]
  BY <1>4 DEF Visible
<1>6. OpenPages' = OpenPages \cup {p}
  <2>1. /\ \A d \in Clients : held'[d].page = held[d].page
        /\ \A d \in Clients : held'[d].wrote <=> d = c \/ held[d].wrote
    BY <1>a, <1>1 DEF HandleType
  <2> QED
    BY <2>1 DEF OpenPages
<1>7. Store!Write(p, v)
  BY <1>1, <1>3, <1>5, <1>6 DEF Store!Write
<1> QED
  BY <1>7 DEF StoreStep

(* unpin_page: the last writer of a page reports it. *)
LEMMA UnpinStep ==
    ASSUME StoreInv, NEW c \in Clients, Unpin(c)
    PROVE  StoreStep \/ UNCHANGED Store!vars
<1> SUFFICES ASSUME NEW p, p = held[c].page
             PROVE  StoreStep \/ UNCHANGED Store!vars
  OBVIOUS
<1>a. /\ frames \in [Frames -> FrameType] /\ held \in [Clients -> HandleType]
  BY DEF StoreInv, PoolInv, TypeOK
<1>1. /\ held' = [held EXCEPT ![c] = NoHandle]
      /\ page_table' = page_table /\ disk' = disk /\ versions' = versions
      /\ p \in Pages
  BY PieceTypes DEF Unpin, StoreInv, PoolInv
<1>2. \A f \in Frames : frames'[f].page = frames[f].page
  BY <1>a DEF Unpin, FrameType
<1>3. Visible' = Visible
  BY <1>1, <1>2, SeenInFrames
<1>4. /\ \A d \in Clients : d # c => held'[d] = held[d]
      /\ ~held'[c].wrote
  BY <1>a, <1>1 DEF NoHandle
<1>5. OpenPages' \subseteq OpenPages /\ OpenPages \subseteq OpenPages' \cup {p}
  BY <1>4 DEF OpenPages
<1>6. CASE p \in OpenPages' \/ p \notin OpenPages
  <2>1. OpenPages' = OpenPages
    BY <1>5, <1>6
  <2> QED
    BY <1>1, <1>3, <2>1 DEF Store!vars
<1>7. CASE p \in OpenPages /\ p \notin OpenPages'
  <2>1. OpenPages' = OpenPages \ {p}
    BY <1>5, <1>7
  <2>2. Store!Report(p)
    BY <1>1, <1>3, <2>1 DEF Store!Report
  <2> QED
    BY <2>2 DEF StoreStep
<1> QED
  BY <1>6, <1>7

-----------------------------------------------------------------------------
(* flush_page: what is seen of the page is all a crash may bring back. *)
LEMMA FlushPageStep ==
    ASSUME StoreInv, NEW p \in Pages, FlushPage(p)
    PROVE  StoreStep
<1> SUFFICES ASSUME NEW f, NEW written, f = page_table[p],
                    written = WritePage(disk, p, frames[f].page)
             PROVE  StoreStep
  OBVIOUS
<1>a. frames \in [Frames -> FrameType]
  BY DEF StoreInv, PoolInv, TypeOK
<1>1. /\ in_pool(p) /\ disk' = Flush(written) /\ page_table' = page_table /\ held' = held
      /\ frames' = [frames EXCEPT ![f].is_dirty = FALSE]
      /\ versions' = [versions EXCEPT ![p] = {frames[f].page}]
  BY DEF FlushPage
<1>2. /\ f \in Frames /\ frames[f].page_id = p /\ ~is_free(f)
  BY <1>1, InFrame DEF StoreInv
<1>3. /\ written \in DiskType /\ written.page_count = disk.page_count
      /\ written.pages = [disk.pages EXCEPT ![p] = frames[f].page]
      /\ disk.pages \in [Pages -> Contents]
  BY <1>2, WriteKeepsLength, CountTypes DEF StoreInv, PoolInv, TypeOK
<1>4. disk'.page_count = disk.page_count /\ disk'.pages = written.pages
  BY <1>1, <1>3, DiskFields
<1>5. \A g \in Frames : frames'[g].page = frames[g].page
  BY <1>a, <1>1 DEF FrameType
<1>6. \A q \in Pages : in_pool(q) \/ disk'.pages[q] = disk.pages[q]
  BY <1>1, <1>3, <1>4
<1>7. Visible' = Visible /\ Visible[p] = frames[f].page
  BY <1>1, <1>5, <1>6, SeenInFrames, VisibleIs
<1>8. OpenPages' = OpenPages
  BY <1>1 DEF OpenPages
<1>9. Store!Flush(p)
  BY <1>1, <1>4, <1>7, <1>8 DEF Store!Flush
<1> QED
  BY <1>9 DEF StoreStep

LEMMA FlushPageFailsStep ==
    ASSUME StoreInv, NEW p \in Pages, FlushPageFails(p)
    PROVE  StoreStep \/ UNCHANGED Store!vars
<1> SUFFICES ASSUME NEW f, NEW written, f = page_table[p],
                    written = WritePage(disk, p, frames[f].page)
             PROVE  StoreStep \/ UNCHANGED Store!vars
  OBVIOUS
<1>1. /\ in_pool(p) /\ frames' = frames /\ page_table' = page_table /\ held' = held
      /\ \/ disk' = written /\ versions' = versions
         \/ Tear(disk, p)
  BY DEF FlushPageFails
<1>2. /\ f \in Frames /\ frames[f].page_id = p /\ ~is_free(f)
  BY <1>1, InFrame DEF StoreInv
<1>3. /\ disk \in DiskType /\ disk.pages \in [Pages -> Contents]
      /\ written.page_count = disk.page_count
      /\ written.pages = [disk.pages EXCEPT ![p] = frames[f].page]
  BY <1>2, WriteKeepsLength, CountTypes DEF StoreInv, PoolInv, TypeOK
<1>4. CASE Tear(disk, p)
  BY <1>1, <1>3, <1>4, TornStep
<1>5. CASE disk' = written /\ versions' = versions
  <2>1. \A q \in Pages : in_pool(q) \/ disk'.pages[q] = disk.pages[q]
    BY <1>1, <1>3, <1>5
  <2> QED
    BY <1>1, <1>3, <1>5, <2>1, SeenInFrames, SameSeen
<1> QED
  BY <1>1, <1>4, <1>5

(* What the loop of flush_all leaves alone. *)
LEMMA LoopSeen ==
    ASSUME StoreInv, NEW n
    PROVE  /\ DiskAfterLoop(n) \in DiskType
           /\ DiskAfterLoop(n).page_count = disk.page_count
           /\ \A f \in Frames : FramesAfterLoop(n)[f].page = frames[f].page
           /\ \A p \in Pages : in_pool(p) \/ DiskAfterLoop(n).pages[p] = disk.pages[p]
<1>1. \A p \in Pages : page_table[p] \in DirtyFrames => in_pool(p)
  BY PoolSizeAssumption DEF DirtyFrames, in_pool, Frames, INVALID_FRAME_ID
<1> QED
  BY <1>1, LoopSound, LoopKeepsPins DEF StoreInv, PoolInv, Sound

LEMMA FlushAllStep ==
    ASSUME StoreInv, FlushAll
    PROVE  StoreStep
<1> SUFFICES ASSUME NEW looped, looped = DiskAfterLoop(pool_size)
             PROVE  StoreStep
  OBVIOUS
<1>1. /\ disk' = Flush(looped) /\ page_table' = page_table /\ held' = held
      /\ frames' = FramesAfterLoop(pool_size)
      /\ versions' = [p \in Pages |->
             IF p \in OpenPages THEN versions[p]
             ELSE {looped.pages[p]} \cup
                  (IF in_pool(p) THEN {frames[page_table[p]].page} ELSE {})]
  BY DEF FlushAll
<1>2. /\ looped \in DiskType /\ looped.page_count = disk.page_count /\ 0 \in Pages
      /\ \A f \in Frames : frames'[f].page = frames[f].page
      /\ \A p \in Pages : in_pool(p) \/ looped.pages[p] = disk.pages[p]
  BY <1>1, LoopSeen, MaxPagesAssumption DEF Pages
<1>3. disk'.page_count = disk.page_count /\ disk'.pages = looped.pages
  BY <1>1, <1>2, DiskFields
<1>4. Visible' = Visible
  BY <1>1, <1>2, <1>3, SeenInFrames
<1>5. OpenPages' = OpenPages
  BY <1>1 DEF OpenPages
<1> DEFINE torn == {p \in Pages \ OpenPages :
                       in_pool(p) /\ looped.pages[p] # frames[page_table[p]].page}
<1>6. ASSUME NEW p \in torn
      PROVE  looped.pages[p] = Torn /\ Torn \in versions[p]
  <2>1. /\ p \in Pages /\ p \notin OpenPages /\ in_pool(p)
        /\ looped.pages[p] # frames[page_table[p]].page
    OBVIOUS
  <2>2. /\ page_table[p] \in Frames /\ frames[page_table[p]].page_id = p
        /\ ~is_free(page_table[p]) /\ page_table[p] < pool_size
    BY <2>1, InFrame, PoolSizeAssumption DEF StoreInv, Frames
  <2>3. page_table[p] \notin DirtyFrames /\ looped.pages[p] = disk.pages[p]
    BY <2>1, <2>2, LoopSound DEF StoreInv
  <2>4. Clean(page_table[p])
    BY <2>1, <2>2, <2>3 DEF Clean, DirtyFrames
  <2>5. disk.pages[p] = Torn
    BY <2>1, <2>2, <2>3, <2>4 DEF StoreInv, CleanOrTorn
  <2> QED
    BY <2>1, <2>3, <2>5 DEF StoreInv, DurableInv, Sound
<1>7. torn \subseteq Store!TornPages
  BY <1>6 DEF Store!TornPages, Store!Pages, Pages
<1>8. ASSUME NEW p \in Pages \ OpenPages
      PROVE  {looped.pages[p]} \cup (IF in_pool(p) THEN {frames[page_table[p]].page} ELSE {})
                 = {Visible[p]} \cup (IF p \in torn THEN {Torn} ELSE {})
  BY <1>2, <1>6, VisibleIs
<1> HIDE DEF torn
<1>9. versions' = [p \in Pages |-> IF p \in OpenPages THEN versions[p]
                       ELSE {Visible[p]} \cup (IF p \in torn THEN {Torn} ELSE {})]
  BY <1>1, <1>8
<1>10. Store!FlushAll
  BY <1>3, <1>4, <1>5, <1>7, <1>9 DEF Store!FlushAll, Store!Pages, Pages
<1> QED
  BY <1>10 DEF StoreStep

LEMMA FlushAllFailsStep ==
    ASSUME StoreInv, NEW n \in 0 .. pool_size, FlushAllFails(n)
    PROVE  StoreStep \/ UNCHANGED Store!vars
<1> SUFFICES ASSUME NEW looped, NEW p, looped = DiskAfterLoop(n), p = frames[n].page_id
             PROVE  StoreStep \/ UNCHANGED Store!vars
  OBVIOUS
<1>1. /\ \/ n \in DirtyFrames /\ Tear(looped, p)
         \/ disk' = looped /\ versions' = versions
      /\ frames' = FramesAfterLoop(n) /\ page_table' = page_table /\ held' = held
  BY DEF FlushAllFails
<1>2. /\ looped \in DiskType /\ looped.page_count = disk.page_count
      /\ \A f \in Frames : frames'[f].page = frames[f].page
      /\ \A q \in Pages : in_pool(q) \/ looped.pages[q] = disk.pages[q]
  BY <1>1, LoopSeen
<1>3. CASE disk' = looped /\ versions' = versions
  BY <1>1, <1>2, <1>3, SeenInFrames, SameSeen
<1>4. CASE n \in DirtyFrames /\ Tear(looped, p)
  <2>1. p \in Pages /\ in_pool(p)
    BY <1>4, Occupied DEF DirtyFrames, StoreInv
  <2> QED
    BY <1>1, <1>2, <1>4, <2>1, TornStep
<1> QED
  BY <1>1, <1>3, <1>4

-----------------------------------------------------------------------------
(* delete_page: nobody holds the page, which falls back to what the file has. *)
LEMMA DeleteStep ==
    ASSUME StoreInv, NEW p \in Pages, DeletePage(p)
    PROVE  StoreStep
<1> SUFFICES ASSUME NEW f, f = page_table[p]
             PROVE  StoreStep
  OBVIOUS
<1>a. /\ frames \in [Frames -> FrameType]
      /\ page_table \in [Pages -> Frames \cup {INVALID_FRAME_ID}]
  BY DEF StoreInv, PoolInv, TypeOK
<1>1. /\ in_pool(p) /\ frames[f].pin_count <= 0
      /\ page_table' = [page_table EXCEPT ![p] = INVALID_FRAME_ID]
      /\ frames' = [frames EXCEPT ![f] = FreeFrame]
      /\ disk' = disk /\ held' = held /\ versions' = versions
  BY DEF DeletePage
<1>2. f \in Frames /\ frames[f].page_id = p /\ ~is_free(f)
  BY <1>1, InFrame DEF StoreInv
<1>3. p \notin OpenPages
  <2>1. frames[f].pin_count \in Nat
    BY <1>a, <1>2 DEF FrameType
  <2>2. frames[f].pin_count = 0
    BY <1>1, <2>1
  <2>3. \A c \in Clients : held[c].frame # f
    BY <1>2, <2>2, NoPinNoHolder DEF StoreInv, PoolInv
  <2> QED
    BY <1>2, <2>3, NotHeldNotOpen DEF StoreInv
<1>4. \A q \in Pages : Visible'[q] = IF q = p THEN disk.pages[p] ELSE Visible[q]
  <2>1. ASSUME NEW q \in Pages, q # p
        PROVE  /\ page_table'[q] = page_table[q]
               /\ in_pool(q) => frames'[page_table[q]] = frames[page_table[q]]
    <3>1. in_pool(q) => page_table[q] \in Frames /\ page_table[q] # f
      BY <1>2, <2>1, InFrame DEF StoreInv
    <3> QED
      BY <1>a, <1>1, <2>1, <3>1
  <2>2. page_table'[p] = INVALID_FRAME_ID
    BY <1>a, <1>1
  <2> QED
    BY <1>1, <2>1, <2>2 DEF Visible, in_pool
<1>5. Visible' = [Visible EXCEPT ![p] = disk.pages[p]]
  BY <1>4 DEF Visible
<1>6. disk.pages[p] \in versions[p]
  BY DEF StoreInv, DurableInv, Sound
<1>7. OpenPages' = OpenPages
  BY <1>1 DEF OpenPages
<1>8. Store!Discard(p)
  BY <1>1, <1>3, <1>5, <1>6, <1>7 DEF Store!Discard
<1> QED
  BY <1>8 DEF StoreStep

(* A new process sees what the file holds, and no page is held. *)
LEMMA RestartSeen ==
    ASSUME StoreInv, Restart
    PROVE  /\ OpenPages' = {}
           /\ Visible' = [p \in Pages |-> disk'.pages[p]]
<1>1. \A c \in Clients : ~held'[c].wrote
  BY DEF Restart, NoHandle
<1>2. \A p \in Pages : page_table'[p] = INVALID_FRAME_ID
  BY DEF Restart
<1> QED
  BY <1>1, <1>2 DEF OpenPages, Visible, in_pool

LEMMA ExitStep ==
    ASSUME StoreInv, NEW n \in 0 .. pool_size, ProcessExit(n)
    PROVE  StoreStep
<1>1. Restart /\ disk' = DiskAfterLoop(n) /\ versions' = versions
  BY DEF ProcessExit
<1>2. /\ disk'.page_count = disk.page_count
      /\ \A p \in Pages : disk'.pages[p] \in versions[p]
  BY <1>1, LoopSound DEF StoreInv, Sound
<1>3. OpenPages' = {} /\ Visible' = [p \in Pages |-> disk'.pages[p]]
  BY <1>1, RestartSeen
<1>4. /\ \A p \in Pages : Visible'[p] \in versions[p]
      /\ Visible' \in [Pages -> UNION {versions[p] : p \in Pages}]
  BY <1>2, <1>3
<1>5. Store!Exit
  BY <1>1, <1>2, <1>3, <1>4 DEF Store!Exit, Store!Pages, Pages
<1> QED
  BY <1>5 DEF StoreStep

(* A page with one version only is on the device: one that is not may still be
   a hole, or as it was allocated. *)
LEMMA PowerLossStep ==
    ASSUME StoreInv, PowerLoss
    PROVE  StoreStep
<1>1. /\ Restart /\ disk' = AfterPowerLoss(disk)
      /\ versions' = [p \in Pages |-> {disk.synced[p]}]
  BY DEF PowerLoss
<1>2. Sound(disk, versions) /\ disk \in DiskType /\ 0 \in Pages
  BY MaxPagesAssumption DEF StoreInv, DurableInv, Sound, Pages
<1>3. disk'.page_count = disk.synced_count /\ disk'.pages = disk.synced
  BY <1>1, <1>2, DiskFields
<1>4. /\ disk.page_count \in Nat /\ disk.synced_count \in Nat
      /\ disk.synced_count <= disk.page_count /\ \A p \in Pages : p \in Nat
  BY <1>2, CountTypes DEF Sound
<1>5. OpenPages' = {} /\ Visible' = [p \in Pages |-> disk.synced[p]]
  BY <1>1, <1>3, RestartSeen
<1>6. ASSUME NEW p \in Pages
      PROVE  /\ Visible'[p] \in versions[p]
             /\ p >= disk.synced_count => Visible'[p] = Hole
             /\ p < disk.page_count /\ (\E v \in versions[p] : versions[p] = {v})
                    => p < disk.synced_count
  <2>1. /\ Visible'[p] \in versions[p]
        /\ p >= disk.synced_count => Visible'[p] = Hole
    BY <1>2, <1>5 DEF Sound
  <2>2. ASSUME p < disk.page_count, NEW v \in versions[p], versions[p] = {v},
               p >= disk.synced_count
        PROVE  FALSE
    <3>1. Hole \in versions[p] /\ Fresh \in versions[p]
      BY <1>2, <2>2 DEF Sound
    <3> QED
      BY <2>2, <3>1, ContentsAssumption
  <2> QED
    BY <1>4, <2>1, <2>2
<1>7. Visible' \in [Pages -> UNION {versions[p] : p \in Pages}]
  BY <1>5, <1>6
<1>8. versions' = [p \in Pages |-> {Visible'[p]}]
  BY <1>1, <1>5
<1>9. disk'.page_count \in 0 .. disk.page_count
  BY <1>3, <1>4
<1>10. Store!PowerLoss
  BY <1>3, <1>5, <1>6, <1>7, <1>8, <1>9 DEF Store!PowerLoss, Store!Pages, Pages
<1> QED
  BY <1>10 DEF StoreStep

-----------------------------------------------------------------------------
LEMMA NextStore == StoreInv /\ [Next]_vars => [StoreStep]_(Store!vars)
<1> SUFFICES ASSUME StoreInv, [Next]_vars
             PROVE  StoreStep \/ UNCHANGED Store!vars
  OBVIOUS
<1>1. ASSUME UNCHANGED <<frames, page_table, disk, held, versions>>
      PROVE  UNCHANGED Store!vars
  BY <1>1, SeenInFrames, SameSeen
<1>2. ASSUME NEW c \in Clients, NEW p \in Pages, FetchHit(c, p)
      PROVE  UNCHANGED Store!vars
  <2>a. frames \in [Frames -> FrameType] /\ held \in [Clients -> HandleType]
    BY DEF StoreInv, PoolInv, TypeOK
  <2>1. \A f \in Frames : frames'[f].page = frames[f].page
    BY <1>2, <2>a DEF FetchHit, Pinned, FrameType
  <2>2. /\ ~holds(c) /\ page_table' = page_table /\ disk' = disk /\ versions' = versions
        /\ held' = [held EXCEPT ![c] = [page |-> p, frame |-> page_table[p], wrote |-> FALSE]]
    BY <1>2 DEF FetchHit
  <2>3. Visible' = Visible
    BY <2>1, <2>2, SeenInFrames
  <2>4. OpenPages' = OpenPages
    <3>1. /\ \A d \in Clients : d # c => held'[d] = held[d]
          /\ ~held[c].wrote /\ ~held'[c].wrote
      BY <2>a, <2>2 DEF StoreInv, QuietHandles
    <3> QED
      BY <3>1 DEF OpenPages
  <2> QED
    BY <2>2, <2>3, <2>4 DEF Store!vars
<1>3. ASSUME NEW p \in Pages, WriteBackPage(p)
      PROVE  UNCHANGED Store!vars
  <2>1. /\ frames' = frames /\ page_table' = page_table /\ held' = held
        /\ versions' = versions /\ disk' = WriteBack(disk, p) /\ disk \in DiskType
    BY <1>3 DEF WriteBackPage, StoreInv, PoolInv, TypeOK
  <2>2. disk'.page_count = disk.page_count /\ disk'.pages = disk.pages
    BY <2>1, DiskFields
  <2> QED
    BY <2>1, <2>2, SeenInFrames, SameSeen
<1>4. (\E p \in Pages : FetchNoVictim(p)) \/ ResetMetrics \/ UNCHANGED vars
          => UNCHANGED Store!vars
  BY <1>1 DEF FetchNoVictim, ResetMetrics, vars
<1>5. ASSUME NEW c \in Clients, NewPage(c)
      PROVE  StoreStep
  BY <1>5, NewPageStep DEF StoreStep
<1> QED
  BY <1>2, <1>3, <1>4, <1>5, MissStep, FreedStep, EvictionFailsStep, ClientWriteStep,
     UnpinStep, FlushPageStep, FlushPageFailsStep, FlushAllStep, FlushAllFailsStep,
     DeleteStep, ExitStep, PowerLossStep
     DEF Next, FetchEvictFails, NewPageEvictFails

(* The pool implements paged storage with the store's durability contract. *)
THEOREM PoolImplementsStore == Spec => ImplementsPageStore
<1> QED
  BY StoreInvariant, StoreInit, NextStore, PTL DEF Spec, ImplementsPageStore

=============================================================================
