----------------------------- MODULE BPlusTree -----------------------------
(***************************************************************************)
(* The B+ tree index (src/index/bplus_tree.cpp) over the pages of a        *)
(* buffer pool.                                                            *)
(*                                                                         *)
(* insert reads its way down and then writes page after page; every write  *)
(* is a step here, because each one is a call of the pool that may throw   *)
(* (Fails) and leave the tree as it is at that point.  search and          *)
(* range_scan only read; they are operators, used in the properties.       *)
(*                                                                         *)
(* pages is what the pool shows of the index file (PageStore's content);   *)
(* every helper of the tree pins, copies and unpins one page.              *)
(***************************************************************************)
EXTENDS BPlusNode

CONSTANTS Keys,      \* the keys inserted
          Rids,      \* and their RIDs
          None,      \* std::nullopt
          MaxPages,  \* pages the device has room for
          MayFail    \* whether the calls of the pool may throw

ASSUME KeysAssumption == Keys \subseteq Int
ASSUME NoneAssumption == None \notin Rids
ASSUME TreePagesAssumption == MaxPages \in Nat \ {0}
ASSUME MayFailAssumption == MayFail \in BOOLEAN

HEADER_PAGE_ID == 0

Pages == 0 .. MaxPages - 1

VARIABLES
    pages,           \* the content of each page of the index file
    page_count,      \* disk_page_count()
    root_page_id_, height_,
    at,              \* the next write of the running call; "idle": none was made
                     \*   yet, or no call runs; "none": no tree is open
    split,           \* the node being split: its halves, where they go, the separator
    path,            \* the internal nodes above it, the root first
    inserting        \* the key and RID of the running insertion, what the index
                     \*   was when it began to write (for the refinement), and
                     \*   whether the last one threw

vars == <<pages, page_count, root_page_id_, height_, at, split, path, inserting>>

NoSplit == [page |-> INVALID_PAGE_ID, left |-> Blank, right_page |-> INVALID_PAGE_ID,
            right |-> Blank, separator |-> 0]

NoInsert == [key |-> 0, rid |-> None, before |-> [key \in Keys |-> None], threw |-> FALSE]

Thrown == [NoInsert EXCEPT !.threw = TRUE]

\* insert is on its way down.
Begun == at = "idle" /\ inserting.rid # None

-----------------------------------------------------------------------------
(* find_leaf_page, search, range_scan *)

IsLeaf(page_id) == pages[page_id].kind = "leaf"

IsInternal(page_id) == pages[page_id].kind = "internal"

Child(page_id, key) ==
    pages[page_id].children[child_index(pages[page_id].keys, key) + 1]

\* One turn of the loop; a leaf ends it.
Below(key) == [p \in Pages |-> IF IsInternal(p) THEN Child(p, key) ELSE p]

\* The pages visited from root on the way to key; the last one repeats.
Descent(root, key) ==
    LET visited[i \in 0 .. MaxPages] ==
            IF i = 0 THEN root ELSE Below(key)[visited[i - 1]]
    IN  visited

\* Where the descent ends: a leaf, or a page that is no node (the call throws).
find_leaf_page(root, key) == Descent(root, key)[MaxPages]

\* How many internal nodes are on the way.
Depth(root, key) ==
    Cardinality({i \in 0 .. MaxPages : IsInternal(Descent(root, key)[i])})

PathTo(root, key) == [i \in 1 .. Depth(root, key) |-> Descent(root, key)[i - 1]]

search(root, key) ==
    LET leaf == pages[find_leaf_page(root, key)]
        here == {i \in DOMAIN leaf.entries : leaf.entries[i].key = key}
    IN  IF leaf.kind # "leaf" \/ here = {} THEN None
        ELSE leaf.entries[CHOOSE i \in here : \A j \in here : i <= j].rid

\* The entries of one leaf that range_scan collects.
InRange(entries, start_key, end_key) ==
    LET taken[i \in 0 .. Len(entries)] ==
            IF i = 0 THEN <<>>
            ELSE IF start_key <= entries[i].key /\ entries[i].key <= end_key
                 THEN Append(taken[i - 1], entries[i])
                 ELSE taken[i - 1]
    IN  taken[Len(entries)]

\* The entries range_scan collects, leaf after leaf, until a key beyond the
\* end of the range; read_leaf throws on a page that is no leaf.
Scan(root, start_key, end_key) ==
    LET scanned[i \in 0 .. MaxPages] ==
            IF i = 0
            THEN [page |-> find_leaf_page(root, start_key), found |-> <<>>]
            ELSE LET so_far == scanned[i - 1]
                     leaf == pages[so_far.page]
                     past == \E j \in DOMAIN leaf.entries : leaf.entries[j].key > end_key
                 IN  IF so_far.page = INVALID_PAGE_ID \/ ~IsLeaf(so_far.page)
                     THEN so_far
                     ELSE [page  |-> IF past THEN INVALID_PAGE_ID ELSE leaf.next,
                           found |-> so_far.found \o InRange(leaf.entries, start_key, end_key)]
    IN  scanned[MaxPages]

range_scan(root, start_key, end_key) ==
    IF end_key < start_key THEN <<>> ELSE Scan(root, start_key, end_key).found

-----------------------------------------------------------------------------
(* Opening *)

Init ==
    /\ pages = [p \in Pages |-> Blank]
    /\ page_count = 0
    /\ root_page_id_ = INVALID_PAGE_ID /\ height_ = 1
    /\ at = "none"
    /\ split = NoSplit /\ path = <<>> /\ inserting = NoInsert

\* buffer_->new_page, then what the helper copies into the page.
NewPage(content) ==
    /\ page_count < MaxPages
    /\ pages' = [pages EXCEPT ![page_count] = content]
    /\ page_count' = page_count + 1

WritePage(page_id, content) ==
    /\ pages' = [pages EXCEPT ![page_id] = content]
    /\ UNCHANGED page_count

\* initialize_new_tree: the header page, zeroed...
OpenNew ==
    /\ at = "none" /\ page_count = 0
    /\ NewPage(Blank)
    /\ at' = "first_leaf"
    /\ UNCHANGED <<root_page_id_, height_, split, path, inserting>>

\* ... an empty leaf as the root ...
CreateFirstLeaf ==
    /\ at = "first_leaf"
    /\ NewPage(EmptyLeaf)
    /\ root_page_id_' = page_count /\ height_' = 1
    /\ at' = "first_header"
    /\ UNCHANGED <<split, path, inserting>>

\* Mutant: the height is not stored.
HeaderOfLeaf == HeaderPage(root_page_id_, 1)

Header == HeaderPage(root_page_id_, height_)

\* ... and write_header, also the last step of an insertion that made a root.
WriteHeader ==
    /\ at \in {"first_header", "header"}
    /\ WritePage(HEADER_PAGE_ID, Header)
    /\ at' = "idle" /\ inserting' = NoInsert
    /\ UNCHANGED <<root_page_id_, height_, split, path>>

\* load_header; a page without the header's magic is refused.
CanOpen == page_count > 0 /\ pages[HEADER_PAGE_ID].kind = "header"

LoadHeader ==
    /\ at = "none" /\ CanOpen
    /\ root_page_id_' = pages[HEADER_PAGE_ID].root_page_id
    /\ height_' = pages[HEADER_PAGE_ID].height
    /\ at' = "idle"
    /\ UNCHANGED <<pages, page_count, split, path, inserting>>

\* flush_all, and the end of the tree object.
Close ==
    /\ at = "idle" /\ ~Begun
    /\ at' = "none" /\ inserting' = NoInsert
    /\ UNCHANGED <<pages, page_count, root_page_id_, height_, split, path>>

-----------------------------------------------------------------------------
(* insert *)

SearchAll(root) == [key \in Keys |-> search(root, key)]

LeafFor(key) == find_leaf_page(root_page_id_, key)

Values(key, rid) == PutEntry(pages[LeafFor(key)].entries, key, rid)

\* The call of insert; nothing is written on the way down.
BeginInsert(key, rid) ==
    /\ at = "idle" /\ ~Begun
    /\ inserting' = [NoInsert EXCEPT !.key = key, !.rid = rid]
    /\ UNCHANGED <<pages, page_count, root_page_id_, height_, at, split, path>>

\* A leaf with room is written, and insert returns.
InsertInLeaf(key, rid) ==
    LET values == Values(key, rid)
    IN  /\ at = "idle" /\ IsLeaf(LeafFor(key))
        /\ LeafFits(values)
        /\ WritePage(LeafFor(key), LeafNode(values, pages[LeafFor(key)].next))
        /\ inserting' = NoInsert
        /\ UNCHANGED <<root_page_id_, height_, at, split, path>>

\* Mutant: the left half keeps pointing past the new leaf.
LeafSplitUnlinked(leaf, values) ==
    [page |-> leaf, left |-> LeafNode(Left(values), pages[leaf].next),
     right_page |-> page_count, right |-> LeafNode(Right(values), pages[leaf].next),
     separator |-> Right(values)[1].key]

\* Mutant: leaf.next is overwritten before the new leaf takes it over.
LeafSplitSwapped(leaf, values) ==
    [page |-> leaf, left |-> LeafNode(Left(values), page_count),
     right_page |-> page_count, right |-> LeafNode(Right(values), page_count),
     separator |-> Right(values)[1].key]

LeafSplit(leaf, values) ==
    [page |-> leaf, left |-> LeafNode(Left(values), page_count),
     right_page |-> page_count, right |-> LeafNode(Right(values), pages[leaf].next),
     separator |-> Right(values)[1].key]

\* The leaf is full: a new one is created first.
SplitLeaf(key, rid) ==
    LET values == Values(key, rid)
    IN  /\ at = "idle" /\ IsLeaf(LeafFor(key))
        /\ ~LeafFits(values)
        /\ split' = LeafSplit(LeafFor(key), values)
        /\ NewPage(EmptyLeaf)
        /\ path' = PathTo(root_page_id_, key)
        /\ inserting' = [key |-> key, rid |-> rid, before |-> SearchAll(root_page_id_),
                         threw |-> FALSE]
        /\ at' = "left"
        /\ UNCHANGED <<root_page_id_, height_>>

WriteLeft ==
    /\ at = "left"
    /\ WritePage(split.page, split.left)
    /\ at' = "right"
    /\ UNCHANGED <<root_page_id_, height_, split, path, inserting>>

WriteRight ==
    /\ at = "right"
    /\ WritePage(split.right_page, split.right)
    /\ at' = "up"
    /\ UNCHANGED <<root_page_id_, height_, split, path, inserting>>

Parent == Last(path)

ParentNode == PutChild(pages[Parent], split.separator, split.right_page)

\* insert_into_internal without a split ends the insertion.
InsertInParent ==
    /\ at = "up" /\ path # <<>>
    /\ InternalFits(ParentNode)
    /\ WritePage(Parent, ParentNode)
    /\ at' = "idle" /\ split' = NoSplit /\ path' = <<>> /\ inserting' = NoInsert
    /\ UNCHANGED <<root_page_id_, height_>>

\* A full parent is split the same way: create, write left, write right.
SplitParent ==
    /\ at = "up" /\ path # <<>>
    /\ ~InternalFits(ParentNode)
    /\ split' = [page |-> Parent, left |-> LeftInternal(ParentNode),
                 right_page |-> page_count, right |-> RightInternal(ParentNode),
                 separator |-> promoted(ParentNode)]
    /\ NewPage(EmptyInternal)
    /\ path' = Front(path)
    /\ at' = "left"
    /\ UNCHANGED <<root_page_id_, height_, inserting>>

\* insert: the root was split.
CreateRoot ==
    /\ at = "up" /\ path = <<>>
    /\ NewPage(EmptyInternal)
    /\ at' = "root"
    /\ UNCHANGED <<root_page_id_, height_, split, path, inserting>>

\* The members change before write_header, which may still fail.
WriteRoot ==
    LET new_root == page_count - 1
    IN  /\ at = "root"
        /\ WritePage(new_root, InternalNode(<<split.separator>>,
                                            <<root_page_id_, split.right_page>>))
        /\ root_page_id_' = new_root /\ height_' = height_ + 1
        /\ at' = "header" /\ split' = NoSplit
        /\ UNCHANGED <<path, inserting>>

Inserts ==
    /\ Begun
    /\ \/ InsertInLeaf(inserting.key, inserting.rid)
       \/ SplitLeaf(inserting.key, inserting.rid)

\* The leaf of the running insertion is there, and full.
LeafFull ==
    /\ Begun /\ IsLeaf(LeafFor(inserting.key))
    /\ ~LeafFits(Values(inserting.key, inserting.rid))

\* new_page may always throw: it evicts a page and extends the file.
Creates == at \in {"first_leaf", "up"} \/ LeafFull

\* fetch_page throws only for a page that has to be read or needs a victim.
\* Both halves of a split have just been used, and stay in the pool: the tree
\* is assumed to have two frames or more for itself.
MayMiss == at \in {"up", "header"} \/ Begun

\* The descent ends on a page that is no node, and insert throws.
NoLeaf == Begun /\ ~IsLeaf(LeafFor(inserting.key))

\* A call of the pool throws, or the device is full: the step is not done and
\* the exception leaves insert, or the constructor.
Fails ==
    /\ \/ MayFail /\ (Creates \/ MayMiss)
       \/ Creates /\ page_count = MaxPages
       \/ NoLeaf
    /\ IF at = "first_leaf"
       THEN at' = "none" /\ inserting' = NoInsert
       ELSE at' = "idle" /\ inserting' = Thrown
    /\ split' = NoSplit /\ path' = <<>>
    /\ UNCHANGED <<pages, page_count, root_page_id_, height_>>

\* The steps of a call that has begun, and the constructor.
Continues ==
    \/ OpenNew
    \/ CreateFirstLeaf
    \/ WriteHeader
    \/ LoadHeader
    \/ Inserts
    \/ WriteLeft
    \/ WriteRight
    \/ InsertInParent
    \/ SplitParent
    \/ CreateRoot
    \/ WriteRoot
    \/ Fails

Next ==
    \/ \E key \in Keys, rid \in Rids : BeginInsert(key, rid)
    \/ Continues
    \/ Close

Spec == Init /\ [][Next]_vars

-----------------------------------------------------------------------------
(* Every page of the file is a node, the header or blank; a node fits in its
   page and an internal one has one child more than keys. *)
TypeOK ==
    /\ page_count \in 0 .. MaxPages
    /\ \A p \in Pages :
          \/ p >= page_count /\ pages[p] = Blank
          \/ p = HEADER_PAGE_ID /\ pages[p].kind \in {"blank", "header"}
          \/ /\ IsLeaf(p)
             /\ LeafFits(pages[p].entries)
             /\ pages[p].next \in 1 .. page_count - 1 \cup {INVALID_PAGE_ID}
          \/ /\ IsInternal(p)
             /\ InternalFits(pages[p])
             /\ Len(pages[p].children) = Len(pages[p].keys) + 1
             /\ \A i \in DOMAIN pages[p].children : pages[p].children[i] \in 0 .. page_count - 1

(* While no insertion runs, all leaves are height_ - 1 nodes below the root
   (insert, insert_into_internal). *)
Balanced ==
    at = "idle" => \A key \in Keys :
        IsLeaf(LeafFor(key)) /\ Depth(root_page_id_, key) = height_ - 1

(* No page of the file is lost to the tree: each is the header or a node on
   the way to some key. *)
NoPageLost ==
    at = "idle" =>
        1 .. page_count - 1 =
            {Descent(root_page_id_, key)[i] : key \in Keys, i \in 0 .. MaxPages}
            \ (IF page_count = 2 THEN {} ELSE {HEADER_PAGE_ID})

Found(key) == search(root_page_id_, key)

(* The two ways into the tree agree: range_scan, along the leaf chain, returns
   exactly the keys that search finds from the root, each once and in order
   (the separators, leaf.next and the early return at a larger key). *)
ScanIsIndex ==
    at = "idle" => \A start_key, end_key \in Keys :
        LET scanned == range_scan(root_page_id_, start_key, end_key)
        IN  /\ \A i, j \in DOMAIN scanned : i < j => scanned[i].key < scanned[j].key
            /\ {scanned[i] : i \in DOMAIN scanned} =
                  {[key |-> key, rid |-> Found(key)] :
                     key \in {k \in Keys : start_key <= k /\ k <= end_key /\ Found(k) # None}}

(* "... avanzan por la cadena de hojas hasta superar la clave final"
   (docs/semana_08_bplus_split_rango.md): whatever fails, a key that search
   finds is found by every range that contains it; neither entries left behind
   by a failed split hide it nor does the chain end early (insert_into_leaf).
   A range may also return such entries: a key that is inserted again after its
   split failed comes twice. *)
FoundIsScanned ==
    at = "idle" => \A start_key, end_key \in Keys :
        LET scanned == range_scan(root_page_id_, start_key, end_key)
        IN  \A key \in {k \in Keys : start_key <= k /\ k <= end_key /\ Found(k) # None} :
                \E i \in DOMAIN scanned : scanned[i] = [key |-> key, rid |-> Found(key)]

\* The leaf chain from a page, as range_scan follows it.
NextLeaf == [p \in Pages \cup {INVALID_PAGE_ID} |->
                IF p # INVALID_PAGE_ID /\ IsLeaf(p) THEN pages[p].next ELSE p]

Chain(page_id) ==
    LET linked[i \in 0 .. MaxPages] ==
            IF i = 0 THEN page_id ELSE NextLeaf[linked[i - 1]]
    IN  linked

(* No loop of the code runs for ever, and none ends on a page that is no node,
   after any sequence of failed insertions: every descent reaches a leaf and
   every leaf chain its end (find_leaf_page, range_scan). *)
LoopsEnd ==
    at = "idle" => \A key \in Keys :
        /\ IsLeaf(LeafFor(key))
        /\ Chain(LeafFor(key))[MaxPages] = INVALID_PAGE_ID

-----------------------------------------------------------------------------
\* What the index is, for its user: what search answers, or what it would
\* answer in the next process; during an insertion, what it was before.
Index ==
    IF at = "idle" THEN SearchAll(root_page_id_)
    ELSE IF at = "none" /\ CanOpen THEN SearchAll(pages[HEADER_PAGE_ID].root_page_id)
    ELSE inserting.before

Call == [key |-> inserting.key, rid |-> inserting.rid, threw |-> inserting.threw]

Map == INSTANCE IndexMap WITH index <- Index, call <- Call

(* The tree implements the map: an insertion that returns has taken effect once,
   on its key and with its RID only, however many nodes it splits; one that
   throws may lose keys and never makes search answer with an RID that is not
   the key's last.  Nothing else changes what search answers, but closing a tree
   some insertion of which failed (insert, write_header). *)
ImplementsIndexMap == Map!Spec

=============================================================================
