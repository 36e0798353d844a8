-------------------------- MODULE BPlusTree_proofs --------------------------
(***************************************************************************)
(* Theorems of the B+ tree, for every set of keys and RIDs, every size of  *)
(* node and number of pages, and every choice of failing calls.            *)
(*                                                                         *)
(* The first part is the shape of the file: TreeInv gives every node a     *)
(* height and every leaf a rank.  The second is what the tree answers:     *)
(* MapInv gives every page of the tree the interval of keys whose descent  *)
(* visits it, from which the refinement of IndexMap follows.  The last is  *)
(* what range_scan collects: MapInv also gives every leaf the keys that    *)
(* the leaves after it in the chain have.                                  *)
(***************************************************************************)
EXTENDS BPlusTree, FiniteSetTheorems, SequenceTheorems, WellFoundedInduction, TLAPS

Entry == [key : Keys, rid : Rids]

Leaves == [kind : {"leaf"}, entries : Seq(Entry), next : Int]

Internals == [kind : {"internal"}, keys : Seq(Keys), children : Seq(Int)]

Headers == [kind : {"header"}, root_page_id : Int, height : Int]

(* A leaf and an internal node of a file of count pages. *)
LeafOK(node, count) ==
    /\ node \in Leaves
    /\ LeafFits(node.entries)
    /\ node.next \in 1 .. count - 1 \cup {INVALID_PAGE_ID}

InternalOK(node, count) ==
    /\ node \in Internals
    /\ InternalFits(node)
    /\ Len(node.children) = Len(node.keys) + 1
    /\ \A i \in DOMAIN node.children : node.children[i] \in 0 .. count - 1

NodeOK(node, count) == LeafOK(node, count) \/ InternalOK(node, count)

Nodes == 1 .. page_count - 1

(* Page 0 is the header, or blank until it is written; the others of the file
   are nodes. *)
PagesOK ==
    /\ page_count \in 0 .. MaxPages
    /\ \A p \in Pages : p >= page_count => pages[p] = Blank
    /\ page_count > 0 => pages[HEADER_PAGE_ID] \in {Blank} \cup Headers
    /\ \A p \in Nodes : NodeOK(pages[p], page_count)
    /\ pages = [p \in Pages |-> pages[p]]

(* An internal node that was created and not written yet: its only child is
   page 0. *)
Unwritten(p) ==
    \/ at \in {"left", "right"} /\ p = split.right_page
    \/ at = "root" /\ p = page_count - 1

(* The height of each node above the leaves: the children of a node are one
   below it.  Pages that a failed call left behind count as well. *)
Leveled(level) ==
    /\ level \in [Pages -> Nat]
    /\ \A p \in Nodes :
          /\ IsLeaf(p) => level[p] = 0
          /\ IsInternal(p) => level[p] > 0
          /\ IsInternal(p) /\ ~Unwritten(p) =>
                \A i \in DOMAIN pages[p].children :
                    /\ pages[p].children[i] \in Nodes
                    /\ level[pages[p].children[i]] = level[p] - 1

(* The order of the leaves along leaf.next. *)
Ranked(rank) ==
    /\ rank \in [Pages -> Nat]
    /\ \A p \in Nodes :
          /\ rank[p] < page_count
          /\ IsLeaf(p) /\ pages[p].next # INVALID_PAGE_ID =>
                IsLeaf(pages[p].next) /\ rank[p] < rank[pages[p].next]

(* A tree of that height has its root there. *)
RootOK(level, root, height, count) ==
    /\ root \in 1 .. count - 1
    /\ height \in 1 .. count - 1
    /\ level[root] = height - 1

\* The root of the open tree; a new one counts once it is written.
MembersOK(level) ==
    at \notin {"none", "first_leaf"} =>
        RootOK(level, root_page_id_, height_,
               IF at = "root" THEN page_count - 1 ELSE page_count)

\* The root in the file.
HeaderOK(level) ==
    page_count > 0 /\ pages[HEADER_PAGE_ID].kind = "header" =>
        RootOK(level, pages[HEADER_PAGE_ID].root_page_id,
               pages[HEADER_PAGE_ID].height, page_count)

(* The halves of a node that is being split. *)
HalvesAreLeaves(rank) ==
    /\ IsLeaf(split.page) /\ IsLeaf(split.right_page)
    /\ LeafOK(split.left, page_count) /\ LeafOK(split.right, page_count)
    /\ split.left.next = split.right_page
    /\ rank[split.page] < rank[split.right_page]
    /\ split.right.next # INVALID_PAGE_ID =>
          IsLeaf(split.right.next) /\ rank[split.right_page] < rank[split.right.next]

HalvesAreInternal(level) ==
    /\ IsInternal(split.page) /\ IsInternal(split.right_page)
    /\ \A half \in {split.left, split.right} :
          /\ InternalOK(half, page_count)
          /\ \A i \in DOMAIN half.children :
                half.children[i] \in Nodes /\ level[half.children[i]] = level[split.page] - 1

(* The node that was split and the new one, and the nodes above them. *)
WayUp(level) ==
    /\ split.page \in Nodes /\ split.right_page \in Nodes
    /\ split.page # split.right_page
    /\ level[split.page] = level[split.right_page]
    /\ split.separator \in Keys
    /\ path \in Seq(Nodes)
    /\ Len(path) + level[split.page] = height_ - 1
    /\ \A i \in DOMAIN path : IsInternal(path[i]) /\ level[path[i]] = height_ - i

SplitOK(level, rank) ==
    /\ at \in {"left", "right"} => HalvesAreLeaves(rank) \/ HalvesAreInternal(level)
    /\ at \in {"left", "right", "up", "root"} => WayUp(level)
    /\ at = "root" =>
          /\ path = <<>>
          /\ split.right_page < page_count - 1
          /\ IsInternal(page_count - 1)
          /\ level[page_count - 1] = height_

AtOK ==
    /\ at \in {"none", "first_leaf", "first_header", "idle", "left", "right", "up",
               "root", "header"}
    /\ at = "first_leaf" => page_count = 1 /\ pages[HEADER_PAGE_ID] = Blank

Shape(level, rank) ==
    /\ Leveled(level) /\ Ranked(rank)
    /\ MembersOK(level) /\ HeaderOK(level)
    /\ SplitOK(level, rank)

TreeInv == PagesOK /\ AtOK /\ \E level, rank \in [Pages -> Nat] : Shape(level, rank)

\* What the running insertion was called with.
CallOK == inserting.rid = None \/ (inserting.key \in Keys /\ inserting.rid \in Rids)

-----------------------------------------------------------------------------
(* Nodes and the pages they are in *)

LEMMA KindOf ==
    ASSUME NEW node, NEW count
    PROVE  /\ LeafOK(node, count) => /\ node.kind = "leaf" /\ node.entries \in Seq(Entry)
                                     /\ node = LeafNode(node.entries, node.next)
           /\ InternalOK(node, count) =>
                /\ node.kind = "internal" /\ node.keys \in Seq(Keys)
                /\ node.children \in Seq(Int)
                /\ node = InternalNode(node.keys, node.children)
           /\ Blank.kind = "blank"
           /\ node \in Headers => node.kind = "header"
  BY DEF LeafOK, InternalOK, Leaves, Internals, Headers, Blank, LeafNode, InternalNode

LEMMA NodesInPages ==
    ASSUME PagesOK
    PROVE  /\ page_count \in Nat /\ MaxPages \in Nat /\ page_count <= MaxPages
           /\ Nodes \subseteq Pages /\ \A p \in Nodes : p \in Nat /\ p > 0 /\ p < page_count
           /\ page_count < MaxPages => page_count \in Pages
           /\ HEADER_PAGE_ID \in Pages /\ HEADER_PAGE_ID \notin Nodes
  BY TreePagesAssumption DEF PagesOK, Pages, Nodes, HEADER_PAGE_ID

(* Each page of the file but the first is a leaf or an internal node. *)
LEMMA NodeKinds ==
    ASSUME PagesOK
    PROVE  /\ \A p \in Nodes :
                 /\ IsLeaf(p) <=> LeafOK(pages[p], page_count)
                 /\ IsInternal(p) <=> InternalOK(pages[p], page_count)
                 /\ IsLeaf(p) <=> ~IsInternal(p)
           /\ \A p \in Pages : p \notin Nodes => ~IsLeaf(p) /\ ~IsInternal(p)
<1>1. ASSUME NEW p \in Nodes
      PROVE  /\ IsLeaf(p) <=> LeafOK(pages[p], page_count)
             /\ IsInternal(p) <=> InternalOK(pages[p], page_count)
             /\ IsLeaf(p) <=> ~IsInternal(p)
  <2>1. LeafOK(pages[p], page_count) \/ InternalOK(pages[p], page_count)
    BY DEF PagesOK, NodeOK
  <2> QED
    BY <2>1, KindOf DEF IsLeaf, IsInternal
<1>2. ASSUME NEW p \in Pages, p \notin Nodes
      PROVE  ~IsLeaf(p) /\ ~IsInternal(p)
  <2>1. p = HEADER_PAGE_ID \/ p >= page_count
    BY <1>2, NodesInPages DEF Pages, Nodes, HEADER_PAGE_ID
  <2>2. pages[p] \in {Blank} \cup Headers
    <3>1. CASE p >= page_count
      BY <3>1 DEF PagesOK
    <3>2. CASE p < page_count
      BY <2>1, <3>2, NodesInPages DEF PagesOK, Pages, HEADER_PAGE_ID
    <3> QED
      BY <3>1, <3>2, NodesInPages DEF Pages
  <2>3. pages[p].kind \in {"blank", "header"}
    BY <2>2, KindOf
  <2> QED
    BY <2>3 DEF IsLeaf, IsInternal
<1> QED
  BY <1>1, <1>2

(* A node of a file is one of a larger file. *)
LEMMA NodeOfLarger ==
    ASSUME NEW node, NEW count \in Nat, NEW larger \in Nat, count <= larger
    PROVE  /\ LeafOK(node, count) => LeafOK(node, larger)
           /\ InternalOK(node, count) => InternalOK(node, larger)
  BY DEF LeafOK, InternalOK

(* A page is added to the file. *)
LEMMA PageAdded ==
    ASSUME PagesOK, page_count > 0, NEW content, NewPage(content),
           NodeOK(content, page_count + 1)
    PROVE  /\ PagesOK'
           /\ page_count < MaxPages /\ page_count' = page_count + 1
           /\ page_count \in Pages /\ pages'[page_count] = content
           /\ \A p \in Pages : p # page_count => pages'[p] = pages[p]
           /\ Nodes' = Nodes \cup {page_count} /\ page_count \notin Nodes
<1>1. /\ page_count < MaxPages /\ page_count' = page_count + 1
      /\ pages' = [pages EXCEPT ![page_count] = content]
  BY DEF NewPage
<1>2. pages'[page_count] = content /\ \A p \in Pages : p # page_count => pages'[p] = pages[p]
  BY <1>1, NodesInPages DEF PagesOK
<1>3. Nodes' = Nodes \cup {page_count} /\ page_count \notin Nodes
  BY <1>1, NodesInPages DEF Nodes
<1>4. PagesOK'
  <2>1. page_count' \in 0 .. MaxPages
    BY <1>1, NodesInPages
  <2>2. \A p \in Pages : p >= page_count' => pages'[p] = Blank
    BY <1>1, <1>2, NodesInPages DEF PagesOK, Pages
  <2>3. pages'[HEADER_PAGE_ID] \in {Blank} \cup Headers
    BY <1>2, NodesInPages DEF PagesOK, HEADER_PAGE_ID
  <2>4. ASSUME NEW p \in Nodes'
        PROVE  NodeOK(pages'[p], page_count')
    <3>1. CASE p = page_count
      BY <1>1, <1>2, <3>1
    <3>2. CASE p \in Nodes
      <4>1. NodeOK(pages[p], page_count)
        BY <3>2 DEF PagesOK
      <4>2. pages'[p] = pages[p]
        BY <1>2, <1>3, <3>2, NodesInPages
      <4> QED
        BY <1>1, <4>1, <4>2, NodesInPages, NodeOfLarger DEF NodeOK
    <3> QED
      BY <1>3, <3>1, <3>2
  <2>5. pages' = [p \in Pages |-> pages'[p]]
    BY <1>1 DEF PagesOK
  <2> QED
    BY <2>1, <2>2, <2>3, <2>4, <2>5 DEF PagesOK
<1> QED
  BY <1>1, <1>2, <1>3, <1>4, NodesInPages

(* A node is overwritten. *)
LEMMA NodeWritten ==
    ASSUME PagesOK, NEW p \in Nodes, NEW content, WritePage(p, content),
           NodeOK(content, page_count)
    PROVE  /\ PagesOK'
           /\ page_count' = page_count /\ Nodes' = Nodes
           /\ pages'[p] = content
           /\ \A q \in Pages : q # p => pages'[q] = pages[q]
<1>1. page_count' = page_count /\ pages' = [pages EXCEPT ![p] = content]
  BY DEF WritePage
<1>2. pages'[p] = content /\ \A q \in Pages : q # p => pages'[q] = pages[q]
  BY <1>1, NodesInPages DEF PagesOK
<1>3. Nodes' = Nodes
  BY <1>1 DEF Nodes
<1>4. PagesOK'
  <2>1. \A q \in Pages : q >= page_count' => pages'[q] = Blank
    BY <1>1, <1>2, NodesInPages DEF PagesOK
  <2>2. page_count' > 0 => pages'[HEADER_PAGE_ID] \in {Blank} \cup Headers
    BY <1>1, <1>2, NodesInPages DEF PagesOK
  <2>3. \A q \in Nodes' : NodeOK(pages'[q], page_count')
    BY <1>1, <1>2, <1>3, NodesInPages DEF PagesOK
  <2>4. pages' = [q \in Pages |-> pages'[q]]
    BY <1>1 DEF PagesOK
  <2> QED
    BY <1>1, <2>1, <2>2, <2>3, <2>4 DEF PagesOK
<1> QED
  BY <1>1, <1>2, <1>3, <1>4

-----------------------------------------------------------------------------
(* What insertion and splitting do to a node *)

LEMMA CountInRange ==
    ASSUME NEW n \in Nat, NEW T \in SUBSET (1 .. n)
    PROVE  IsFiniteSet(T) /\ Cardinality(T) \in 0 .. n
<1>1. IsFiniteSet(1 .. n) /\ Cardinality(1 .. n) = n
  <2>1. Cardinality(1 .. n) = IF 1 > n THEN 0 ELSE n - 1 + 1
    BY FS_Interval
  <2> QED
    BY <2>1, FS_Interval
<1>2. IsFiniteSet(T) /\ Cardinality(T) <= Cardinality(1 .. n)
  BY <1>1, FS_Subset
<1> QED
  BY <1>1, <1>2, FS_CardinalityType

LEMMA RetypedSeq ==
    ASSUME NEW S, NEW T, NEW s \in Seq(S), \A i \in DOMAIN s : s[i] \in T
    PROVE  s \in Seq(T)
<1>1. Len(s) \in Nat /\ DOMAIN s = 1 .. Len(s) /\ s \in [1 .. Len(s) -> S]
  BY LenProperties
<1>2. s \in [1 .. Len(s) -> T]
  BY <1>1
<1> QED
  BY <1>1, <1>2, SeqDef

(* A part of a sequence, as BPlusNode cuts it. *)
LEMMA PartOfSeq ==
    ASSUME NEW S, NEW s \in Seq(S), NEW m \in 1 .. Len(s) + 1, NEW n \in m - 1 .. Len(s)
    PROVE  /\ SubSeq(s, m, n) \in Seq(S)
           /\ Len(SubSeq(s, m, n)) = n - m + 1
           /\ \A i \in 1 .. n - m + 1 : SubSeq(s, m, n)[i] = s[m + i - 1]
<1>1. Len(s) \in Nat /\ \A i \in 1 .. Len(s) : s[i] \in S
  BY LenProperties, ElementOfSeq
<1>2. \A i \in m .. n : s[i] \in S
  BY <1>1
<1>3. /\ SubSeq(s, m, n) \in Seq(S)
      /\ Len(SubSeq(s, m, n)) = IF m <= n THEN n - m + 1 ELSE 0
      /\ \A i \in 1 .. n - m + 1 : SubSeq(s, m, n)[i] = s[m + i - 1]
  BY <1>1, <1>2, SubSeqProperties
<1> QED
  BY <1>1, <1>3

(* All but the last element. *)
LEMMA FrontOfSeq ==
    ASSUME NEW S, NEW s \in Seq(S), Len(s) # 0
    PROVE  /\ Front(s) \in Seq(S)
           /\ Len(Front(s)) = Len(s) - 1 /\ DOMAIN Front(s) = 1 .. Len(s) - 1
           /\ \A i \in 1 .. Len(s) - 1 : Front(s)[i] = s[i]
<1>1. PICK n : n = Len(s)
  OBVIOUS
<1>2. PICK last : last = n - 1
  OBVIOUS
<1>3. n \in Nat \ {0} /\ 1 \in 1 .. n + 1 /\ last \in 0 .. n /\ last \in 1 - 1 .. n
  BY <1>1, <1>2, LenProperties
<1>4. Front(s) = SubSeq(s, 1, last)
  BY <1>1, <1>2 DEF Front
<1>5. /\ SubSeq(s, 1, last) \in Seq(S)
      /\ Len(SubSeq(s, 1, last)) = last - 1 + 1
      /\ \A i \in 1 .. last - 1 + 1 : SubSeq(s, 1, last)[i] = s[1 + i - 1]
  BY <1>1, <1>3, PartOfSeq
<1>6. last - 1 + 1 = last /\ \A i \in 1 .. last : 1 + i - 1 = i
  BY <1>3
<1> QED
  BY <1>1, <1>2, <1>4, <1>5, <1>6, LenProperties

(* InsertAt, of the community modules. *)
LEMMA InsertAtProperties ==
    ASSUME NEW S, NEW s \in Seq(S), NEW n \in 1 .. Len(s) + 1, NEW e \in S
    PROVE  /\ InsertAt(s, n, e) \in Seq(S)
           /\ Len(InsertAt(s, n, e)) = Len(s) + 1
<1>1. Len(s) \in Nat /\ \A i \in 1 .. Len(s) : s[i] \in S
  BY LenProperties, ElementOfSeq
<1>2. SubSeq(s, 1, n - 1) \in Seq(S) /\ Len(SubSeq(s, 1, n - 1)) = n - 1
  <2>1. n - 1 \in Int /\ \A i \in 1 .. n - 1 : s[i] \in S
    BY <1>1
  <2>2. /\ SubSeq(s, 1, n - 1) \in Seq(S)
        /\ Len(SubSeq(s, 1, n - 1)) = IF 1 <= n - 1 THEN n - 1 - 1 + 1 ELSE 0
    BY <2>1, SubSeqProperties
  <2> QED
    BY <1>1, <2>2
<1>3. SubSeq(s, n, Len(s)) \in Seq(S) /\ Len(SubSeq(s, n, Len(s))) = Len(s) - n + 1
  <2>1. \A i \in n .. Len(s) : s[i] \in S
    BY <1>1
  <2>2. /\ SubSeq(s, n, Len(s)) \in Seq(S)
        /\ Len(SubSeq(s, n, Len(s))) = IF n <= Len(s) THEN Len(s) - n + 1 ELSE 0
    BY <1>1, <2>1, SubSeqProperties
  <2> QED
    BY <1>1, <2>2
<1>4. <<e>> \in Seq(S) /\ Len(<<e>>) = 1
  OBVIOUS
<1> DEFINE front == SubSeq(s, 1, n - 1)
           back == SubSeq(s, n, Len(s))
           one == <<e>>
           begun == front \o one
           all == begun \o back
<1>5. /\ front \in Seq(S) /\ Len(front) = n - 1
      /\ one \in Seq(S) /\ Len(one) = 1
      /\ back \in Seq(S) /\ Len(back) = Len(s) - n + 1
  BY <1>2, <1>3, <1>4
<1> HIDE DEF front, back, one
<1>6. begun \in Seq(S) /\ Len(begun) = n - 1 + 1
  <2>1. begun \in Seq(S) /\ Len(begun) = Len(front) + Len(one)
    BY <1>5, ConcatProperties
  <2> QED
    BY <1>5, <2>1
<1> HIDE DEF begun
<1>7. all \in Seq(S) /\ Len(all) = n - 1 + 1 + (Len(s) - n + 1)
  BY <1>5, <1>6, ConcatProperties
<1>8. n - 1 + 1 + (Len(s) - n + 1) = Len(s) + 1
  BY <1>1
<1>9. InsertAt(s, n, e) = all
  BY DEF InsertAt, front, one, back, begun
<1> HIDE DEF all
<1> QED
  BY <1>7, <1>8, <1>9

(* A leaf gets at most one entry more. *)
LEMMA PutEntryProperties ==
    ASSUME NEW entries \in Seq(Entry), NEW key \in Keys, NEW rid \in Rids
    PROVE  /\ PutEntry(entries, key, rid) \in Seq(Entry)
           /\ Len(PutEntry(entries, key, rid)) \in {Len(entries), Len(entries) + 1}
<1> DEFINE i == lower_bound(entries, key)
           entry == [key |-> key, rid |-> rid]
<1>1. Len(entries) \in Nat /\ DOMAIN entries = 1 .. Len(entries)
  BY LenProperties
<1>2. i \in 1 .. Len(entries) + 1
  BY <1>1, CountInRange DEF lower_bound
<1>3. entry \in Entry
  BY DEF Entry
<1> HIDE DEF i, entry
<1>4. CASE i <= Len(entries) /\ entries[i].key = key
  <2>1. i \in 1 .. Len(entries)
    BY <1>1, <1>2, <1>4
  <2>2. entries[i] \in Entry
    BY <2>1, ElementOfSeq
  <2>3. [entries[i] EXCEPT !.rid = rid] \in Entry
    BY <2>2 DEF Entry
  <2>4. PutEntry(entries, key, rid) = [entries EXCEPT ![i] = [entries[i] EXCEPT !.rid = rid]]
    BY <1>1, <1>4, <2>1 DEF PutEntry, i
  <2> QED
    BY <2>1, <2>3, <2>4, ExceptSeq
<1>5. CASE ~(i <= Len(entries) /\ entries[i].key = key)
  <2>1. PutEntry(entries, key, rid) = InsertAt(entries, i, entry)
    BY <1>5 DEF PutEntry, i, entry
  <2> QED
    BY <1>2, <1>3, <2>1, InsertAtProperties
<1> QED
  BY <1>4, <1>5

(* Each half of a leaf that was full fits, and the right one has entries. *)
LEMMA HalvesFit ==
    ASSUME NEW values \in Seq(Entry), Len(values) = MAX_LEAF_ENTRIES + 1
    PROVE  /\ Left(values) \in Seq(Entry) /\ LeafFits(Left(values))
           /\ Right(values) \in Seq(Entry) /\ LeafFits(Right(values))
           /\ Right(values)[1].key \in Keys
<1> DEFINE n == Len(values)
           m == n \div 2
<1>1. n \in Nat /\ n >= 2 /\ m \in Nat /\ 1 <= m /\ m < n /\ m <= MAX_LEAF_ENTRIES
      /\ n - m <= MAX_LEAF_ENTRIES
  BY LeafSizeAssumption
<1>2. \A i \in 1 .. n : values[i] \in Entry
  BY ElementOfSeq
<1> HIDE DEF m
<1>3. Left(values) \in Seq(Entry) /\ Len(Left(values)) = m
  <2>1. \A i \in 1 .. m : values[i] \in Entry
    BY <1>1, <1>2
  <2>2. /\ SubSeq(values, 1, m) \in Seq(Entry)
        /\ Len(SubSeq(values, 1, m)) = IF 1 <= m THEN m - 1 + 1 ELSE 0
    BY <1>1, <2>1, SubSeqProperties
  <2> QED
    BY <1>1, <2>2 DEF Left, m
<1>4. /\ Right(values) \in Seq(Entry) /\ Len(Right(values)) = n - m
      /\ Right(values)[1] = values[m + 1]
  <2>1. \A i \in m + 1 .. n : values[i] \in Entry
    BY <1>1, <1>2
  <2>2. /\ SubSeq(values, m + 1, n) \in Seq(Entry)
        /\ Len(SubSeq(values, m + 1, n)) = IF m + 1 <= n THEN n - (m + 1) + 1 ELSE 0
        /\ \A i \in 1 .. n - (m + 1) + 1 : SubSeq(values, m + 1, n)[i] = values[m + 1 + i - 1]
    BY <1>1, <2>1, SubSeqProperties
  <2>3. 1 \in 1 .. n - (m + 1) + 1 /\ m + 1 + 1 - 1 = m + 1
    BY <1>1
  <2> QED
    BY <1>1, <2>2, <2>3, SMTT(30) DEF Right, m
<1>5. values[m + 1].key \in Keys
  BY <1>1, <1>2 DEF Entry
<1> QED
  BY <1>1, <1>3, <1>4, <1>5 DEF LeafFits

(* An internal node gets one key and one child more. *)
LEMMA PutChildProperties ==
    ASSUME NEW C \in SUBSET Int, NEW keys \in Seq(Keys), NEW children \in Seq(C),
           Len(children) = Len(keys) + 1, NEW separator \in Keys, NEW right_page \in C
    PROVE  LET put == PutChild(InternalNode(keys, children), separator, right_page)
           IN  /\ put = InternalNode(put.keys, put.children)
               /\ put.keys \in Seq(Keys) /\ Len(put.keys) = Len(keys) + 1
               /\ put.children \in Seq(C) /\ Len(put.children) = Len(put.keys) + 1
<1> DEFINE pos == upper_bound(keys, separator)
<1>1. Len(keys) \in Nat /\ DOMAIN keys = 1 .. Len(keys)
  BY LenProperties
<1>2. pos \in 0 .. Len(keys)
  BY <1>1, CountInRange DEF upper_bound
<1> HIDE DEF pos
<1>3. /\ InsertAt(keys, pos + 1, separator) \in Seq(Keys)
      /\ Len(InsertAt(keys, pos + 1, separator)) = Len(keys) + 1
  <2>1. pos + 1 \in 1 .. Len(keys) + 1
    BY <1>1, <1>2
  <2> QED
    BY <2>1, InsertAtProperties
<1>4. /\ InsertAt(children, pos + 2, right_page) \in Seq(C)
      /\ Len(InsertAt(children, pos + 2, right_page)) = Len(children) + 1
  <2>1. pos + 2 \in 1 .. Len(children) + 1
    BY <1>1, <1>2
  <2> QED
    BY <2>1, InsertAtProperties
<1>5. PutChild(InternalNode(keys, children), separator, right_page)
        = InternalNode(InsertAt(keys, pos + 1, separator),
                       InsertAt(children, pos + 2, right_page))
  BY DEF PutChild, InternalNode, pos
<1> QED
  BY <1>1, <1>3, <1>4, <1>5 DEF InternalNode

LEMMA InternalFields ==
    \A keys, children : /\ InternalNode(keys, children).kind = "internal"
                        /\ InternalNode(keys, children).keys = keys
                        /\ InternalNode(keys, children).children = children
  BY DEF InternalNode

(* Both halves of an internal node that was full are nodes that fit. *)
LEMMA InternalHalves ==
    ASSUME NEW C \in SUBSET Int, NEW keys \in Seq(Keys), NEW children \in Seq(C),
           Len(keys) = MAX_INTERNAL_KEYS + 1, Len(children) = Len(keys) + 1,
           NEW node, node = InternalNode(keys, children)
    PROVE  /\ promoted(node) \in Keys
           /\ \A half \in {LeftInternal(node), RightInternal(node)} :
                 /\ half = InternalNode(half.keys, half.children)
                 /\ half.keys \in Seq(Keys) /\ Len(half.keys) <= MAX_INTERNAL_KEYS
                 /\ half.children \in Seq(C)
                 /\ Len(half.children) = Len(half.keys) + 1
<1> DEFINE n == Len(keys)
           m == middle(node)
<1>1. node.keys = keys /\ node.children = children
  BY DEF InternalNode
<1>2. /\ n \in Nat /\ m \in Nat /\ 2 <= m /\ m <= n /\ m - 1 <= MAX_INTERNAL_KEYS
      /\ n - m <= MAX_INTERNAL_KEYS
  <2>1. n \in Nat /\ n >= 3 /\ n = MAX_INTERNAL_KEYS + 1
    BY InternalSizeAssumption
  <2>2. m = n \div 2 + 1
    BY <1>1 DEF middle
  <2> QED
    BY <2>1, <2>2, InternalSizeAssumption
<1> HIDE DEF m
<1>3. \A i \in 1 .. n : keys[i] \in Keys
  BY ElementOfSeq
<1>4. \A i \in 1 .. n + 1 : children[i] \in C
  BY ElementOfSeq
<1>5. promoted(node) \in Keys
  BY <1>1, <1>2, <1>3 DEF promoted, m
<1>6. SubSeq(keys, 1, m - 1) \in Seq(Keys) /\ Len(SubSeq(keys, 1, m - 1)) = m - 1
  <2>1. \A i \in 1 .. m - 1 : keys[i] \in Keys
    BY <1>2, <1>3
  <2>2. /\ SubSeq(keys, 1, m - 1) \in Seq(Keys)
        /\ Len(SubSeq(keys, 1, m - 1)) = IF 1 <= m - 1 THEN m - 1 - 1 + 1 ELSE 0
    BY <1>2, <2>1, SubSeqProperties
  <2> QED
    BY <1>2, <2>2
<1>7. SubSeq(children, 1, m) \in Seq(C) /\ Len(SubSeq(children, 1, m)) = m
  <2>1. \A i \in 1 .. m : children[i] \in C
    BY <1>2, <1>4
  <2>2. /\ SubSeq(children, 1, m) \in Seq(C)
        /\ Len(SubSeq(children, 1, m)) = IF 1 <= m THEN m - 1 + 1 ELSE 0
    BY <1>2, <2>1, SubSeqProperties
  <2> QED
    BY <1>2, <2>2
<1>8. SubSeq(keys, m + 1, n) \in Seq(Keys) /\ Len(SubSeq(keys, m + 1, n)) = n - m
  <2>1. \A i \in m + 1 .. n : keys[i] \in Keys
    BY <1>2, <1>3
  <2>2. /\ SubSeq(keys, m + 1, n) \in Seq(Keys)
        /\ Len(SubSeq(keys, m + 1, n)) = IF m + 1 <= n THEN n - (m + 1) + 1 ELSE 0
    BY <1>2, <2>1, SubSeqProperties
  <2> QED
    BY <1>2, <2>2
<1>9. /\ SubSeq(children, m + 1, n + 1) \in Seq(C)
      /\ Len(SubSeq(children, m + 1, n + 1)) = n + 1 - m
  <2>1. \A i \in m + 1 .. n + 1 : children[i] \in C
    BY <1>2, <1>4
  <2>2. /\ SubSeq(children, m + 1, n + 1) \in Seq(C)
        /\ Len(SubSeq(children, m + 1, n + 1)) =
              IF m + 1 <= n + 1 THEN n + 1 - (m + 1) + 1 ELSE 0
    BY <1>2, <2>1, SubSeqProperties
  <2> QED
    BY <1>2, <2>2
<1>10. PICK left_keys, left_children, right_keys, right_children :
          /\ left_keys = SubSeq(keys, 1, m - 1)
          /\ left_children = SubSeq(children, 1, m)
          /\ right_keys = SubSeq(keys, m + 1, n)
          /\ right_children = SubSeq(children, m + 1, n + 1)
  OBVIOUS
<1>11. /\ LeftInternal(node) = InternalNode(left_keys, left_children)
       /\ RightInternal(node) = InternalNode(right_keys, right_children)
  BY <1>1, <1>10 DEF LeftInternal, RightInternal, m
<1>12. /\ left_keys \in Seq(Keys) /\ Len(left_keys) = m - 1
       /\ left_children \in Seq(C) /\ Len(left_children) = m
       /\ right_keys \in Seq(Keys) /\ Len(right_keys) = n - m
       /\ right_children \in Seq(C) /\ Len(right_children) = n + 1 - m
  BY <1>6, <1>7, <1>8, <1>9, <1>10
<1>13. m - 1 + 1 = m /\ n - m + 1 = n + 1 - m
  BY <1>2
<1>14. ASSUME NEW half, NEW half_keys \in Seq(Keys), NEW half_children \in Seq(C),
              half = InternalNode(half_keys, half_children),
              Len(half_keys) <= MAX_INTERNAL_KEYS, Len(half_children) = Len(half_keys) + 1
       PROVE  /\ half = InternalNode(half.keys, half.children)
              /\ half.keys \in Seq(Keys) /\ Len(half.keys) <= MAX_INTERNAL_KEYS
              /\ half.children \in Seq(C)
              /\ Len(half.children) = Len(half.keys) + 1
  <2>1. half.keys = half_keys /\ half.children = half_children
    BY <1>14, InternalFields
  <2> QED
    BY <1>14, <2>1
<1>15. /\ Len(left_keys) <= MAX_INTERNAL_KEYS /\ Len(left_children) = Len(left_keys) + 1
       /\ Len(right_keys) <= MAX_INTERNAL_KEYS /\ Len(right_children) = Len(right_keys) + 1
  BY <1>2, <1>12, <1>13
<1>16. ASSUME NEW half \in {LeftInternal(node), RightInternal(node)}
       PROVE  /\ half = InternalNode(half.keys, half.children)
              /\ half.keys \in Seq(Keys) /\ Len(half.keys) <= MAX_INTERNAL_KEYS
              /\ half.children \in Seq(C)
              /\ Len(half.children) = Len(half.keys) + 1
  <2>1. CASE half = InternalNode(left_keys, left_children)
    BY <1>12, <1>14, <1>15, <2>1
  <2>2. CASE half = InternalNode(right_keys, right_children)
    BY <1>12, <1>14, <1>15, <2>2
  <2> QED
    BY <1>11, <2>1, <2>2
<1> QED
  BY <1>5, <1>16

-----------------------------------------------------------------------------
(* Loops that follow page ids *)

Iterates(f, step, start, last) ==
    f = [i \in 0 .. last |-> IF i = 0 THEN start ELSE step[f[i - 1]]]

(* The function the loops define by recursion exists: one as far as the first
   number it would fail for could be extended to it. *)
LEMMA IterationExists ==
    ASSUME NEW step, NEW start, NEW last \in Nat
    PROVE  \E f : Iterates(f, step, start, last)
<1> DEFINE Missing == {n \in Nat : ~\E f : Iterates(f, step, start, n)}
<1>1. SUFFICES ASSUME ~\E f : Iterates(f, step, start, last)
               PROVE  FALSE
  OBVIOUS
<1>2. last \in Missing /\ Missing \subseteq Nat
  BY <1>1
<1>3. PICK n \in Missing : \A m \in Missing : ~(<<m, n>> \in OpToRel(<, Nat))
  <2> HIDE DEF Missing
  <2> QED
    BY <1>2, NatLessThanWellFounded, WFMin
<1>4. n \in Nat /\ ~\E f : Iterates(f, step, start, n)
  OBVIOUS
<1>5. CASE n = 0
  <2> DEFINE first == [i \in 0 .. 0 |-> start]
  <2>1. Iterates(first, step, start, 0)
    BY DEF Iterates
  <2> QED
    BY <1>4, <1>5, <2>1
<1>6. CASE n # 0
  <2>1. n - 1 \in Nat /\ n - 1 < n
    BY <1>4, <1>6
  <2>2. n - 1 \notin Missing
    BY <1>3, <1>4, <2>1 DEF OpToRel
  <2>3. PICK g : Iterates(g, step, start, n - 1)
    BY <2>1, <2>2
  <2> DEFINE f == [i \in 0 .. n |-> IF i < n THEN g[i] ELSE step[g[n - 1]]]
  <2>4. ASSUME NEW i \in 0 .. n
        PROVE  f[i] = IF i = 0 THEN start ELSE step[f[i - 1]]
    <3>1. CASE i = n
      <4>1. f[i] = step[g[n - 1]] /\ f[n - 1] = g[n - 1]
        BY <1>4, <2>1, <3>1
      <4> QED
        BY <1>6, <3>1, <4>1
    <3>2. CASE i # n
      <4>1. i \in 0 .. n - 1 /\ f[i] = g[i]
        BY <1>4, <3>2
      <4>2. g[i] = IF i = 0 THEN start ELSE step[g[i - 1]]
        BY <2>3, <4>1 DEF Iterates
      <4>3. i # 0 => f[i - 1] = g[i - 1]
        BY <1>4, <4>1
      <4> QED
        BY <4>1, <4>2, <4>3
    <3> QED
      BY <3>1, <3>2
  <2>5. Iterates(f, step, start, n)
    BY <2>4 DEF Iterates
  <2> QED
    BY <1>4, <2>5
<1> QED
  BY <1>5, <1>6

LEMMA DescentSteps ==
    ASSUME NEW root, NEW key
    PROVE  /\ Descent(root, key)[0] = root
           /\ \A i \in 1 .. MaxPages :
                 Descent(root, key)[i] = Below(key)[Descent(root, key)[i - 1]]
<1> DEFINE step == Below(key)
           f == Descent(root, key)
<1>1. MaxPages \in Nat
  BY TreePagesAssumption
<1>2. f = CHOOSE g : Iterates(g, step, root, MaxPages)
  BY DEF Descent, Iterates
<1> HIDE DEF step
<1>3. \E g : Iterates(g, step, root, MaxPages)
  BY <1>1, IterationExists
<1>4. Iterates(f, step, root, MaxPages)
  BY <1>2, <1>3
<1> HIDE DEF f
<1>5. f[0] = root /\ \A i \in 1 .. MaxPages : f[i] = step[f[i - 1]]
  BY <1>1, <1>4 DEF Iterates
<1> QED
  BY <1>5 DEF f, step

LEMMA ChainSteps ==
    ASSUME NEW page_id
    PROVE  /\ Chain(page_id)[0] = page_id
           /\ \A i \in 1 .. MaxPages : Chain(page_id)[i] = NextLeaf[Chain(page_id)[i - 1]]
<1> DEFINE f == Chain(page_id)
<1>1. MaxPages \in Nat
  BY TreePagesAssumption
<1>2. f = CHOOSE g : Iterates(g, NextLeaf, page_id, MaxPages)
  BY DEF Chain, Iterates
<1>3. \E g : Iterates(g, NextLeaf, page_id, MaxPages)
  BY <1>1, IterationExists
<1>4. Iterates(f, NextLeaf, page_id, MaxPages)
  BY <1>2, <1>3
<1> HIDE DEF f
<1>5. f[0] = page_id /\ \A i \in 1 .. MaxPages : f[i] = NextLeaf[f[i - 1]]
  BY <1>1, <1>4 DEF Iterates
<1> QED
  BY <1>5 DEF f

(* The child that is chosen is one of the node. *)
LEMMA ChildIsChild ==
    ASSUME PagesOK, NEW p \in Nodes, IsInternal(p), NEW key
    PROVE  \E i \in DOMAIN pages[p].children : Child(p, key) = pages[p].children[i]
<1> DEFINE keys == pages[p].keys
           children == pages[p].children
<1>1. InternalOK(pages[p], page_count)
  BY NodeKinds
<1>2. keys \in Seq(Keys) /\ children \in Seq(Int) /\ Len(children) = Len(keys) + 1
  BY <1>1, KindOf DEF InternalOK
<1>3. /\ Len(keys) \in Nat /\ DOMAIN keys = 1 .. Len(keys)
      /\ DOMAIN children = 1 .. Len(children)
  BY <1>2, LenProperties
<1>4. child_index(keys, key) \in 0 .. Len(keys)
  BY <1>3, CountInRange DEF child_index
<1>5. child_index(keys, key) + 1 \in DOMAIN children
  BY <1>2, <1>3, <1>4
<1> QED
  BY <1>5 DEF Child

(* While no split runs, a descent is on a lower level after every step until it
   is on a leaf, where it stays. *)
LEMMA DescentLevels ==
    ASSUME PagesOK, at \notin {"left", "right", "root"}, NEW level, Leveled(level),
           NEW root \in Nodes, NEW key, NEW i \in 0 .. MaxPages
    PROVE  /\ Descent(root, key)[i] \in Nodes
           /\ level[Descent(root, key)[i]] = IF i <= level[root] THEN level[root] - i ELSE 0
<1> DEFINE d == Descent(root, key)
           Holds(n) == /\ d[n] \in Nodes
                       /\ level[d[n]] = IF n <= level[root] THEN level[root] - n ELSE 0
           Bad == {n \in Nat : n <= MaxPages /\ ~Holds(n)}
<1>1. d[0] = root /\ \A n \in 1 .. MaxPages : d[n] = Below(key)[d[n - 1]]
  BY DescentSteps
<1>2. \A p \in Nodes : level[p] \in Nat
  BY NodesInPages DEF Leveled
<1>3. ASSUME NEW p \in Nodes
      PROVE  /\ Below(key)[p] \in Nodes
             /\ level[Below(key)[p]] = IF level[p] = 0 THEN 0 ELSE level[p] - 1
  <2>1. Below(key)[p] = IF IsInternal(p) THEN Child(p, key) ELSE p
    BY NodesInPages DEF Below
  <2>2. CASE IsInternal(p)
    <3>1. PICK j \in DOMAIN pages[p].children : Child(p, key) = pages[p].children[j]
      BY <2>2, ChildIsChild
    <3>2. ~Unwritten(p)
      BY DEF Unwritten
    <3>3. /\ level[p] > 0 /\ pages[p].children[j] \in Nodes
          /\ level[pages[p].children[j]] = level[p] - 1
      BY <2>2, <3>2 DEF Leveled
    <3> QED
      BY <1>2, <2>1, <2>2, <3>1, <3>3
  <2>3. CASE IsLeaf(p)
    BY <2>1, <2>3, NodeKinds DEF Leveled
  <2> QED
    BY <2>2, <2>3, NodeKinds
<1> HIDE DEF d
<1>4. SUFFICES Bad = {}
  <2>1. i \in Nat /\ i <= MaxPages
    BY TreePagesAssumption
  <2> QED
    BY <1>4, <2>1 DEF d
<1>5. SUFFICES ASSUME Bad # {}
               PROVE  FALSE
  OBVIOUS
<1>6. PICK n \in Bad : \A m \in Bad : ~(<<m, n>> \in OpToRel(<, Nat))
  <2>1. Bad \subseteq Nat
    OBVIOUS
  <2> HIDE DEF Bad
  <2> QED
    BY <1>5, <2>1, NatLessThanWellFounded, WFMin
<1>7. n \in Nat /\ n <= MaxPages /\ ~Holds(n)
  OBVIOUS
<1>8. n # 0
  BY <1>1, <1>2, <1>7
<1>9. n - 1 \in Nat /\ n - 1 < n /\ n - 1 <= MaxPages /\ n \in 1 .. MaxPages
  BY <1>7, <1>8, TreePagesAssumption
<1>10. Holds(n - 1)
  <2>1. n - 1 \notin Bad
    BY <1>6, <1>7, <1>9 DEF OpToRel
  <2> QED
    BY <1>9, <2>1
<1>11. /\ d[n] \in Nodes
       /\ level[d[n]] = IF level[d[n - 1]] = 0 THEN 0 ELSE level[d[n - 1]] - 1
  BY <1>1, <1>3, <1>9, <1>10
<1>12. level[root] \in Nat
  BY <1>2
<1>13. Holds(n)
  BY <1>9, <1>10, <1>11, <1>12
<1> QED
  BY <1>7, <1>13

(* ... and reaches a leaf after as many internal nodes as the root is high. *)
LEMMA DescentEnds ==
    ASSUME PagesOK, at \notin {"left", "right", "root"}, NEW level, Leveled(level),
           NEW root \in Nodes, level[root] <= MaxPages, NEW key
    PROVE  /\ \A i \in 0 .. MaxPages : IsInternal(Descent(root, key)[i]) <=> i < level[root]
           /\ Depth(root, key) = level[root]
           /\ find_leaf_page(root, key) \in Nodes /\ IsLeaf(find_leaf_page(root, key))
<1> DEFINE d == Descent(root, key)
           height == level[root]
<1>1. height \in Nat /\ MaxPages \in Nat /\ height <= MaxPages
  BY NodesInPages DEF Leveled
<1>2. ASSUME NEW i \in 0 .. MaxPages
      PROVE  d[i] \in Nodes /\ (IsInternal(d[i]) <=> i < height)
  <2>1. /\ d[i] \in Nodes
        /\ level[d[i]] = IF i <= height THEN height - i ELSE 0
    BY DescentLevels
  <2>2. IsInternal(d[i]) <=> level[d[i]] > 0
    BY <2>1, NodeKinds DEF Leveled
  <2> QED
    BY <1>1, <2>1, <2>2
<1> HIDE DEF d, height
<1>3. {i \in 0 .. MaxPages : IsInternal(d[i])} = 0 .. height - 1
  BY <1>1, <1>2
<1>4. Cardinality(0 .. height - 1) = height
  <2>1. Cardinality(0 .. height - 1) = IF 0 > height - 1 THEN 0 ELSE height - 1 - 0 + 1
    BY <1>1, FS_Interval
  <2> QED
    BY <1>1, <2>1
<1>5. Depth(root, key) = height
  BY <1>3, <1>4 DEF Depth, d
<1>6. d[MaxPages] \in Nodes /\ ~IsInternal(d[MaxPages])
  BY <1>1, <1>2
<1> QED
  BY <1>2, <1>5, <1>6, NodeKinds DEF d, height, find_leaf_page

(* The leaves of a chain are ever further along. *)
LEMMA ChainEnds ==
    ASSUME PagesOK, NEW rank, Ranked(rank), NEW p \in Nodes, IsLeaf(p)
    PROVE  Chain(p)[MaxPages] = INVALID_PAGE_ID
<1> DEFINE c == Chain(p)
           Holds(n) == \/ c[n] = INVALID_PAGE_ID
                       \/ c[n] \in Nodes /\ IsLeaf(c[n]) /\ n <= rank[c[n]]
           Bad == {n \in Nat : n <= MaxPages /\ ~Holds(n)}
<1>1. c[0] = p /\ \A n \in 1 .. MaxPages : c[n] = NextLeaf[c[n - 1]]
  BY ChainSteps
<1>2. \A q \in Nodes : rank[q] \in Nat /\ rank[q] < page_count
  BY NodesInPages DEF Ranked
<1>3. NextLeaf[INVALID_PAGE_ID] = INVALID_PAGE_ID
  BY DEF NextLeaf
<1>4. ASSUME NEW q \in Nodes, IsLeaf(q)
      PROVE  \/ NextLeaf[q] = INVALID_PAGE_ID
             \/ /\ NextLeaf[q] \in Nodes /\ IsLeaf(NextLeaf[q])
                /\ rank[q] < rank[NextLeaf[q]]
  <2>1. NextLeaf[q] = pages[q].next
    <3>1. q \in Pages /\ q # INVALID_PAGE_ID
      BY NodesInPages DEF INVALID_PAGE_ID
    <3> QED
      BY <1>4, <3>1 DEF NextLeaf
  <2>2. pages[q].next \in Nodes \cup {INVALID_PAGE_ID}
    BY <1>4, NodeKinds DEF LeafOK, Nodes
  <2> QED
    BY <1>4, <2>1, <2>2 DEF Ranked
<1> HIDE DEF c
<1>5. Bad = {}
  <2>1. SUFFICES ASSUME Bad # {}
                 PROVE  FALSE
    OBVIOUS
  <2>2. PICK n \in Bad : \A m \in Bad : ~(<<m, n>> \in OpToRel(<, Nat))
    <3>1. Bad \subseteq Nat
      OBVIOUS
    <3> HIDE DEF Bad
    <3> QED
      BY <2>1, <3>1, NatLessThanWellFounded, WFMin
  <2>3. n \in Nat /\ n <= MaxPages /\ ~Holds(n)
    OBVIOUS
  <2>4. n # 0
    BY <1>1, <1>2, <2>3
  <2>5. n - 1 \in Nat /\ n - 1 < n /\ n - 1 <= MaxPages /\ n \in 1 .. MaxPages
    BY <2>3, <2>4, TreePagesAssumption
  <2>6. Holds(n - 1)
    <3>1. n - 1 \notin Bad
      BY <2>2, <2>3, <2>5 DEF OpToRel
    <3> QED
      BY <2>5, <3>1
  <2>7. c[n] = NextLeaf[c[n - 1]]
    BY <1>1, <2>5
  <2>8. CASE c[n - 1] = INVALID_PAGE_ID
    BY <1>3, <2>3, <2>7, <2>8
  <2>9. CASE c[n - 1] \in Nodes /\ IsLeaf(c[n - 1]) /\ n - 1 <= rank[c[n - 1]]
    <3>1. \/ c[n] = INVALID_PAGE_ID
          \/ c[n] \in Nodes /\ IsLeaf(c[n]) /\ rank[c[n - 1]] < rank[c[n]]
      BY <1>4, <2>7, <2>9
    <3> QED
      BY <1>2, <2>3, <2>5, <2>9, <3>1
  <2> QED
    BY <2>6, <2>8, <2>9
<1>6. Holds(MaxPages)
  BY <1>5, TreePagesAssumption
<1>7. ASSUME c[MaxPages] \in Nodes, MaxPages <= rank[c[MaxPages]]
      PROVE  FALSE
  BY <1>2, <1>7, NodesInPages
<1> QED
  BY <1>6, <1>7 DEF c

LEMMA TreeInvGives == TreeInv => TypeOK /\ Balanced /\ LoopsEnd
<1> SUFFICES ASSUME TreeInv
             PROVE  TypeOK /\ Balanced /\ LoopsEnd
  OBVIOUS
<1>1. PagesOK
  BY DEF TreeInv
<1>2. PICK level, rank \in [Pages -> Nat] : Shape(level, rank)
  BY DEF TreeInv
<1>3. TypeOK
  <2>1. ASSUME NEW p \in Pages
        PROVE  \/ p >= page_count /\ pages[p] = Blank
               \/ p = HEADER_PAGE_ID /\ pages[p].kind \in {"blank", "header"}
               \/ /\ IsLeaf(p)
                  /\ LeafFits(pages[p].entries)
                  /\ pages[p].next \in 1 .. page_count - 1 \cup {INVALID_PAGE_ID}
               \/ /\ IsInternal(p)
                  /\ InternalFits(pages[p])
                  /\ Len(pages[p].children) = Len(pages[p].keys) + 1
                  /\ \A i \in DOMAIN pages[p].children :
                        pages[p].children[i] \in 0 .. page_count - 1
    <3>1. CASE p >= page_count
      BY <1>1, <3>1 DEF PagesOK
    <3>2. CASE p < page_count /\ p = HEADER_PAGE_ID
      <4>1. page_count > 0
        BY <1>1, <3>2, NodesInPages DEF HEADER_PAGE_ID
      <4>2. pages[p] \in {Blank} \cup Headers
        BY <1>1, <3>2, <4>1 DEF PagesOK
      <4> QED
        BY <3>2, <4>2, KindOf
    <3>3. CASE p \in Nodes
      <4>1. CASE LeafOK(pages[p], page_count)
        BY <1>1, <3>3, <4>1, NodeKinds DEF LeafOK
      <4>2. CASE InternalOK(pages[p], page_count)
        BY <1>1, <3>3, <4>2, NodeKinds DEF InternalOK
      <4> QED
        BY <1>1, <3>3, <4>1, <4>2 DEF PagesOK, NodeOK
    <3> QED
      BY <1>1, <3>1, <3>2, <3>3, NodesInPages DEF Pages, Nodes, HEADER_PAGE_ID
  <2> QED
    BY <1>1, <2>1 DEF TypeOK, PagesOK
<1>4. ASSUME at = "idle", NEW key \in Keys
      PROVE  /\ IsLeaf(LeafFor(key)) /\ Depth(root_page_id_, key) = height_ - 1
             /\ Chain(LeafFor(key))[MaxPages] = INVALID_PAGE_ID
  <2>1. RootOK(level, root_page_id_, height_, page_count)
    BY <1>2, <1>4 DEF Shape, MembersOK
  <2>2. /\ root_page_id_ \in Nodes /\ level[root_page_id_] = height_ - 1
        /\ level[root_page_id_] <= MaxPages
    BY <1>1, <2>1, NodesInPages DEF RootOK, Nodes
  <2>3. /\ Depth(root_page_id_, key) = level[root_page_id_]
        /\ LeafFor(key) \in Nodes /\ IsLeaf(LeafFor(key))
    BY <1>1, <1>2, <1>4, <2>2, DescentEnds DEF Shape, LeafFor
  <2> QED
    BY <1>1, <1>2, <2>2, <2>3, ChainEnds DEF Shape
<1> QED
  BY <1>3, <1>4 DEF Balanced, LoopsEnd

-----------------------------------------------------------------------------
(* What a write, or a new page, leaves of the levels and of the order *)

(* A node that keeps its kind, with children one level below it. *)
Fits(level, p, content) ==
    \/ IsLeaf(p) /\ LeafOK(content, page_count)
    \/ /\ IsInternal(p) /\ InternalOK(content, page_count)
       /\ \A i \in DOMAIN content.children :
             content.children[i] \in Nodes /\ level[content.children[i]] = level[p] - 1

LEMMA KindsAfterWrite ==
    ASSUME PagesOK, NEW level, NEW p \in Nodes, NEW content, Fits(level, p, content),
           WritePage(p, content)
    PROVE  /\ PagesOK'
           /\ page_count' = page_count /\ Nodes' = Nodes
           /\ pages'[p] = content /\ pages'[HEADER_PAGE_ID] = pages[HEADER_PAGE_ID]
           /\ \A q \in Pages : q # p => pages'[q] = pages[q]
           /\ \A q \in Nodes : (IsLeaf(q)' <=> IsLeaf(q)) /\ (IsInternal(q)' <=> IsInternal(q))
<1>1. NodeOK(content, page_count)
  BY DEF Fits, NodeOK
<1>2. /\ PagesOK' /\ page_count' = page_count /\ Nodes' = Nodes
      /\ pages'[p] = content /\ \A q \in Pages : q # p => pages'[q] = pages[q]
  BY <1>1, NodeWritten
<1>3. ASSUME NEW q \in Nodes
      PROVE  (IsLeaf(q)' <=> IsLeaf(q)) /\ (IsInternal(q)' <=> IsInternal(q))
  <2>1. q \in Pages
    BY NodesInPages
  <2>2. CASE q # p
    BY <1>2, <2>1, <2>2 DEF IsLeaf, IsInternal
  <2>3. CASE q = p
    <3>1. content.kind = pages[p].kind
      BY KindOf DEF Fits, IsLeaf, IsInternal
    <3> QED
      BY <1>2, <2>3, <3>1 DEF IsLeaf, IsInternal
  <2> QED
    BY <2>2, <2>3
<1> QED
  BY <1>2, <1>3, NodesInPages

LEMMA LevelsAfterWrite ==
    ASSUME PagesOK, NEW level, Leveled(level), NEW p \in Nodes, NEW content,
           Fits(level, p, content), WritePage(p, content),
           \A q \in Nodes : q # p /\ Unwritten(q) => Unwritten(q)'
    PROVE  Leveled(level)'
<1>1. /\ Nodes' = Nodes /\ pages'[p] = content
      /\ \A q \in Pages : q # p => pages'[q] = pages[q]
      /\ \A q \in Nodes : (IsLeaf(q)' <=> IsLeaf(q)) /\ (IsInternal(q)' <=> IsInternal(q))
  BY KindsAfterWrite
<1>2. ASSUME NEW q \in Nodes, IsInternal(q)', ~Unwritten(q)', NEW i \in DOMAIN pages'[q].children
      PROVE  /\ pages'[q].children[i] \in Nodes
             /\ level[pages'[q].children[i]] = level[q] - 1
  <2>1. CASE q = p
    <3>1. ~IsLeaf(p)
      BY <1>1, <1>2, <2>1, NodeKinds
    <3> QED
      BY <1>1, <1>2, <2>1, <3>1 DEF Fits
  <2>2. CASE q # p
    <3>1. pages'[q] = pages[q] /\ ~Unwritten(q) /\ IsInternal(q)
      BY <1>1, <1>2, <2>2, NodesInPages
    <3> QED
      BY <1>2, <3>1 DEF Leveled
  <2> QED
    BY <2>1, <2>2
<1>3. \A q \in Nodes : (IsLeaf(q)' => level[q] = 0) /\ (IsInternal(q)' => level[q] > 0)
  BY <1>1 DEF Leveled
<1> QED
  BY <1>1, <1>2, <1>3 DEF Leveled

LEMMA RanksAfterWrite ==
    ASSUME PagesOK, NEW level, NEW rank, Ranked(rank), NEW p \in Nodes, NEW content,
           Fits(level, p, content), WritePage(p, content),
           IsLeaf(p) /\ content.next # INVALID_PAGE_ID =>
               IsLeaf(content.next) /\ rank[p] < rank[content.next]
    PROVE  Ranked(rank)'
<1>1. /\ PagesOK' /\ page_count' = page_count /\ Nodes' = Nodes /\ pages'[p] = content
      /\ \A q \in Pages : q # p => pages'[q] = pages[q]
      /\ \A q \in Nodes : (IsLeaf(q)' <=> IsLeaf(q)) /\ (IsInternal(q)' <=> IsInternal(q))
  BY KindsAfterWrite
<1>2. ASSUME NEW q \in Nodes, IsLeaf(q)', pages'[q].next # INVALID_PAGE_ID
      PROVE  IsLeaf(pages[q].next)' /\ rank[q] < rank[pages'[q].next]
  <2>1. IsLeaf(q) /\ q \in Pages
    BY <1>1, <1>2, NodesInPages
  <2>2. IsLeaf(pages'[q].next) /\ rank[q] < rank[pages'[q].next]
    BY <1>1, <1>2, <2>1 DEF Ranked
  <2>3. pages'[q].next \in Nodes
    <3>1. LeafOK(pages[q], page_count)
      BY <2>1, NodeKinds
    <3>2. q = p => LeafOK(content, page_count)
      BY <2>1, NodeKinds DEF Fits
    <3>3. LeafOK(pages'[q], page_count)
      BY <1>1, <2>1, <3>1, <3>2
    <3> QED
      BY <1>2, <3>3 DEF LeafOK, Nodes
  <2> QED
    BY <1>1, <2>2, <2>3
<1> QED
  BY <1>1, <1>2 DEF Ranked

(* Page number new is added. *)
LEMMA KindsAfterAdd ==
    ASSUME PagesOK, page_count > 0, NEW new, new = page_count,
           NEW content, NewPage(content), NodeOK(content, page_count + 1)
    PROVE  /\ \A q \in Nodes : /\ q \in Pages /\ pages'[q] = pages[q]
                               /\ IsLeaf(q)' <=> IsLeaf(q)
                               /\ IsInternal(q)' <=> IsInternal(q)
           /\ IsLeaf(new)' <=> LeafOK(content, page_count + 1)
           /\ IsInternal(new)' <=> InternalOK(content, page_count + 1)
           /\ pages'[HEADER_PAGE_ID] = pages[HEADER_PAGE_ID]
<1>1. /\ pages'[new] = content /\ new \notin Nodes
      /\ \A p \in Pages : p # new => pages'[p] = pages[p]
  BY PageAdded
<1>2. \A q \in Nodes : q \in Pages /\ pages'[q] = pages[q]
  BY <1>1, NodesInPages
<1>3. \A q \in Nodes : (IsLeaf(q)' <=> IsLeaf(q)) /\ (IsInternal(q)' <=> IsInternal(q))
  BY <1>2 DEF IsLeaf, IsInternal
<1>4. /\ IsLeaf(new)' <=> LeafOK(content, page_count + 1)
      /\ IsInternal(new)' <=> InternalOK(content, page_count + 1)
  BY <1>1, KindOf DEF IsLeaf, IsInternal, NodeOK
<1>5. pages'[HEADER_PAGE_ID] = pages[HEADER_PAGE_ID]
  BY <1>1, NodesInPages DEF HEADER_PAGE_ID
<1> QED
  BY <1>2, <1>3, <1>4, <1>5

LEMMA LevelsAfterAdd ==
    ASSUME PagesOK, page_count > 0, NEW new, new = page_count,
           NEW content, NewPage(content), NodeOK(content, page_count + 1),
           NEW level, Leveled(level),
           NEW after \in [Pages -> Nat], \A q \in Nodes : after[q] = level[q],
           LeafOK(content, page_count + 1) => after[new] = 0,
           InternalOK(content, page_count + 1) => after[new] > 0 /\ Unwritten(new)',
           \A q \in Nodes : Unwritten(q) => Unwritten(q)'
    PROVE  Leveled(after)'
<1>1. new \in Pages /\ new \notin Nodes /\ Nodes' = Nodes \cup {new}
  BY PageAdded
<1>2. ASSUME NEW q \in Nodes
      PROVE  /\ IsLeaf(q)' => after[q] = 0
             /\ IsInternal(q)' => after[q] > 0
             /\ IsInternal(q)' /\ ~Unwritten(q)' =>
                   \A i \in DOMAIN pages'[q].children :
                       /\ pages'[q].children[i] \in Nodes
                       /\ after[pages'[q].children[i]] = after[q] - 1
  <2>1. /\ pages'[q] = pages[q] /\ after[q] = level[q]
        /\ IsLeaf(q)' <=> IsLeaf(q)
        /\ IsInternal(q)' <=> IsInternal(q)
    BY KindsAfterAdd
  <2>2. (IsLeaf(q) => level[q] = 0) /\ (IsInternal(q) => level[q] > 0)
    BY DEF Leveled
  <2>3. ASSUME IsInternal(q), ~Unwritten(q), NEW i \in DOMAIN pages[q].children
        PROVE  pages[q].children[i] \in Nodes /\ level[pages[q].children[i]] = level[q] - 1
    BY <2>3 DEF Leveled
  <2> QED
    BY <2>1, <2>2, <2>3
<1>3. /\ IsLeaf(new)' => after[new] = 0
      /\ IsInternal(new)' => after[new] > 0 /\ Unwritten(new)'
  BY KindsAfterAdd
<1> QED
  BY <1>1, <1>2, <1>3 DEF Leveled

(* A number for the new page. *)
LEMMA Extended ==
    ASSUME PagesOK, page_count > 0, NEW new, new = page_count, page_count < MaxPages,
           NEW f \in [Pages -> Nat], NEW n \in Nat
    PROVE  /\ [f EXCEPT ![new] = n] \in [Pages -> Nat]
           /\ [f EXCEPT ![new] = n][new] = n
           /\ \A q \in Nodes : [f EXCEPT ![new] = n][q] = f[q]
<1>1. new \in Pages /\ new \notin Nodes /\ \A q \in Nodes : q \in Pages
  BY NodesInPages
<1> QED
  BY <1>1

(* The leaves are renumbered, in the order they had; a new one is the last. *)
LEMMA RanksAfterAdd ==
    ASSUME PagesOK, page_count > 0, NEW new, new = page_count,
           NEW content, NewPage(content), NodeOK(content, page_count + 1),
           LeafOK(content, page_count + 1) => content.next = INVALID_PAGE_ID,
           NEW rank, Ranked(rank), NEW after \in [Pages -> Nat],
           after[new] < page_count + 1, \A q \in Nodes : after[q] < page_count + 1,
           \A q, r \in Nodes : rank[q] < rank[r] => after[q] < after[r]
    PROVE  Ranked(after)'
<1>1. /\ page_count' = page_count + 1 /\ pages'[new] = content
      /\ Nodes' = Nodes \cup {new}
  BY PageAdded
<1>2. ASSUME NEW q \in Nodes, IsLeaf(q)', pages'[q].next # INVALID_PAGE_ID
      PROVE  IsLeaf(pages[q].next)' /\ after[q] < after[pages[q].next]
  <2>1. IsLeaf(q) /\ pages'[q] = pages[q]
    BY <1>2, KindsAfterAdd
  <2>2. IsLeaf(pages[q].next) /\ rank[q] < rank[pages[q].next]
    BY <1>2, <2>1 DEF Ranked
  <2>3. pages[q].next \in Nodes
    <3>1. LeafOK(pages[q], page_count)
      BY <2>1, NodeKinds
    <3> QED
      BY <1>2, <2>1, <3>1 DEF LeafOK, Nodes
  <2>4. IsLeaf(pages[q].next)'
    <3>1. pages'[pages[q].next] = pages[pages[q].next]
      BY <2>3, KindsAfterAdd
    <3> QED
      BY <2>1, <2>2, <3>1 DEF IsLeaf
  <2> QED
    BY <2>2, <2>3, <2>4
<1>3. IsLeaf(new)' => pages'[new].next = INVALID_PAGE_ID
  BY <1>1, KindsAfterAdd
<1>4. ASSUME NEW q \in Nodes, IsLeaf(q)', pages'[q].next # INVALID_PAGE_ID
      PROVE  IsLeaf(pages[q].next)' /\ after[q] < after[pages'[q].next]
  <2>1. pages'[q] = pages[q]
    BY KindsAfterAdd
  <2> QED
    BY <1>2, <1>4, <2>1
<1> QED
  BY <1>1, <1>3, <1>4 DEF Ranked

LEMMA RanksAfterInternal ==
    ASSUME PagesOK, page_count > 0, NEW new, new = page_count,
           NEW content, NewPage(content), NodeOK(content, page_count + 1),
           LeafOK(content, page_count + 1) => content.next = INVALID_PAGE_ID,
           NEW rank, Ranked(rank)
    PROVE  /\ Ranked([rank EXCEPT ![new] = 0])'
           /\ [rank EXCEPT ![new] = 0] \in [Pages -> Nat]
<1> DEFINE after == [rank EXCEPT ![new] = 0]
<1>1. new \in Pages /\ new \notin Nodes
  BY PageAdded
<1>2. rank \in [Pages -> Nat] /\ \A q \in Nodes : q \in Pages /\ rank[q] < page_count
  BY NodesInPages DEF Ranked
<1>3. after \in [Pages -> Nat] /\ after[new] = 0 /\ \A q \in Nodes : after[q] = rank[q]
  BY <1>1, <1>2
<1> HIDE DEF after
<1>4. after[new] < page_count + 1 /\ \A q \in Nodes : after[q] < page_count + 1
  BY <1>2, <1>3, NodesInPages
<1>5. \A q, r \in Nodes : rank[q] < rank[r] => after[q] < after[r]
  BY <1>3
<1>6. Ranked(after)'
  BY <1>3, <1>4, <1>5, RanksAfterAdd
<1> QED
  BY <1>3, <1>6 DEF after

(* Only the header, the members and the place of the call have changed. *)
LEMMA SameNodes ==
    ASSUME PagesOK, page_count' = page_count, \A q \in Nodes : pages'[q] = pages[q],
           at \notin {"left", "right", "root"},
           NEW level, Leveled(level), NEW rank, Ranked(rank)
    PROVE  Leveled(level)' /\ Ranked(rank)'
<1>1. Nodes' = Nodes
  BY DEF Nodes
<1>2. \A q \in Nodes : (IsLeaf(q)' <=> IsLeaf(q)) /\ (IsInternal(q)' <=> IsInternal(q))
  BY DEF IsLeaf, IsInternal
<1>3. \A q : ~Unwritten(q)
  BY DEF Unwritten
<1>4. Leveled(level)'
  BY <1>1, <1>2, <1>3 DEF Leveled
<1>5. ASSUME NEW q \in Nodes, IsLeaf(q)', pages'[q].next # INVALID_PAGE_ID
      PROVE  IsLeaf(pages[q].next)' /\ rank[q] < rank[pages'[q].next]
  <2>1. IsLeaf(q) /\ pages'[q] = pages[q]
    BY <1>2, <1>5
  <2>2. IsLeaf(pages[q].next) /\ rank[q] < rank[pages[q].next]
    BY <1>5, <2>1 DEF Ranked
  <2>3. LeafOK(pages[q], page_count)
    BY <2>1, NodeKinds
  <2>4. pages[q].next \in Nodes
    BY <1>5, <2>1, <2>3 DEF LeafOK, Nodes
  <2>5. pages'[pages[q].next] = pages[pages[q].next]
    BY <2>4
  <2> QED
    BY <2>1, <2>2, <2>5 DEF IsLeaf
<1>6. Ranked(rank)'
  BY <1>1, <1>5 DEF Ranked
<1> QED
  BY <1>4, <1>6

LEMMA HeaderAfterAdd ==
    ASSUME PagesOK, page_count > 0, NEW new, new = page_count,
           NEW content, NewPage(content), NodeOK(content, page_count + 1),
           NEW level, HeaderOK(level),
           NEW after, \A q \in Nodes : after[q] = level[q]
    PROVE  HeaderOK(after)'
<1>1. /\ pages'[HEADER_PAGE_ID] = pages[HEADER_PAGE_ID] /\ page_count' = page_count + 1
      /\ page_count \in Nat
  BY KindsAfterAdd, PageAdded, NodesInPages
<1>2. ASSUME pages[HEADER_PAGE_ID].kind = "header"
      PROVE  RootOK(after, pages[HEADER_PAGE_ID].root_page_id,
                    pages[HEADER_PAGE_ID].height, page_count + 1)
  BY <1>1, <1>2 DEF HeaderOK, RootOK, Nodes
<1> QED
  BY <1>1, <1>2 DEF HeaderOK

(* What new pages hold until they are written. *)
LEMMA EmptyNodes ==
    ASSUME NEW count \in Nat \ {0}
    PROVE  /\ LeafOK(EmptyLeaf, count) /\ InternalOK(EmptyInternal, count)
           /\ NodeOK(EmptyLeaf, count) /\ NodeOK(EmptyInternal, count)
           /\ EmptyLeaf.next = INVALID_PAGE_ID
           /\ ~InternalOK(EmptyLeaf, count) /\ ~LeafOK(EmptyInternal, count)
<1>1. /\ EmptyLeaf = [kind |-> "leaf", entries |-> <<>>, next |-> INVALID_PAGE_ID]
      /\ EmptyInternal = [kind |-> "internal", keys |-> <<>>, children |-> <<0>>]
  BY DEF EmptyLeaf, LeafNode, EmptyInternal, InternalNode
<1>2. <<>> \in Seq(Entry) /\ <<>> \in Seq(Keys) /\ Len(<<>>) = 0
  BY EmptySeq
<1>3. <<0>> \in Seq(Int) /\ Len(<<0>>) = 1 /\ DOMAIN <<0>> = {1} /\ <<0>>[1] = 0
  OBVIOUS
<1>4. LeafOK(EmptyLeaf, count)
  BY <1>1, <1>2, LeafSizeAssumption DEF LeafOK, Leaves, LeafFits, INVALID_PAGE_ID
<1>5. InternalOK(EmptyInternal, count)
  <2>1. EmptyInternal \in Internals
    BY <1>1, <1>2, <1>3 DEF Internals
  <2> QED
    BY <1>1, <1>2, <1>3, <2>1, InternalSizeAssumption DEF InternalOK, InternalFits
<1>6. ~InternalOK(EmptyLeaf, count) /\ ~LeafOK(EmptyInternal, count)
  BY <1>1, KindOf
<1> QED
  BY <1>1, <1>4, <1>5, <1>6 DEF NodeOK

-----------------------------------------------------------------------------
(* One lemma for each action *)

LEMMA OpenNewTree ==
    ASSUME PagesOK, NEW level \in [Pages -> Nat], NEW rank \in [Pages -> Nat], OpenNew
    PROVE  TreeInv'
<1>1. /\ page_count = 0 /\ page_count' = 1 /\ at' = "first_leaf"
      /\ 0 < MaxPages /\ pages' = [pages EXCEPT ![0] = Blank]
  BY DEF OpenNew, NewPage
<1>2. /\ pages = [p \in Pages |-> pages[p]] /\ 0 \in Pages
      /\ \A p \in Pages : p \in Nat /\ pages[p] = Blank
  BY <1>1, TreePagesAssumption DEF PagesOK, Pages
<1>3. \A p \in Pages : pages'[p] = Blank
  BY <1>1, <1>2
<1>4. Nodes' = {}
  BY <1>1 DEF Nodes
<1>5. PagesOK'
  <2>1. page_count' \in 0 .. MaxPages
    BY <1>1, TreePagesAssumption
  <2>2. pages' = [p \in Pages |-> pages'[p]]
    BY <1>1, <1>2
  <2> QED
    BY <1>2, <1>3, <1>4, <2>1, <2>2 DEF PagesOK, HEADER_PAGE_ID
<1>6. AtOK' /\ MembersOK(level)' /\ SplitOK(level, rank)'
  BY <1>1, <1>2, <1>3 DEF AtOK, MembersOK, SplitOK, HEADER_PAGE_ID
<1>7. HeaderOK(level)'
  BY <1>2, <1>3, KindOf DEF HeaderOK, HEADER_PAGE_ID
<1>8. Leveled(level)' /\ Ranked(rank)'
  BY <1>4 DEF Leveled, Ranked
<1> QED
  BY <1>5, <1>6, <1>7, <1>8 DEF TreeInv, Shape

LEMMA CreateFirstLeafTree ==
    ASSUME PagesOK, AtOK, NEW level \in [Pages -> Nat], NEW rank \in [Pages -> Nat],
           Shape(level, rank), CreateFirstLeaf
    PROVE  TreeInv'
<1>1. PICK new : new = page_count
  OBVIOUS
<1>2. /\ page_count = 1 /\ pages[HEADER_PAGE_ID] = Blank /\ at = "first_leaf"
      /\ NewPage(EmptyLeaf) /\ at' = "first_header"
      /\ root_page_id_' = new /\ height_' = 1
  BY <1>1 DEF CreateFirstLeaf, AtOK
<1>3. /\ NodeOK(EmptyLeaf, page_count + 1) /\ ~InternalOK(EmptyLeaf, page_count + 1)
      /\ EmptyLeaf.next = INVALID_PAGE_ID
  BY <1>2, EmptyNodes
<1>4. \A q \in Nodes : Unwritten(q) => Unwritten(q)'
  BY <1>2 DEF Unwritten
<1> DEFINE l == [level EXCEPT ![new] = 0]
           r == [rank EXCEPT ![new] = 0]
<1>5. PagesOK' /\ page_count' = 2 /\ page_count > 0 /\ page_count < MaxPages
  BY <1>2, <1>3, PageAdded
<1>6. l \in [Pages -> Nat] /\ l[new] = 0 /\ \A q \in Nodes : l[q] = level[q]
  BY <1>1, <1>5, Extended
<1>7. Ranked(r)' /\ r \in [Pages -> Nat]
  <2>1. Ranked(rank)
    BY DEF Shape
  <2> QED
    BY <1>1, <1>2, <1>3, <1>5, <2>1, RanksAfterInternal
<1> HIDE DEF l, r
<1>8. Leveled(l)'
  <2>1. Leveled(level)
    BY DEF Shape
  <2> QED
    BY <1>1, <1>2, <1>3, <1>4, <1>5, <1>6, <2>1, LevelsAfterAdd
<1>9. HeaderOK(l)'
  BY <1>1, <1>2, <1>3, <1>6, HeaderAfterAdd DEF Shape
<1>10. MembersOK(l)'
  BY <1>1, <1>2, <1>5, <1>6 DEF MembersOK, RootOK
<1>11. AtOK' /\ SplitOK(l, r)'
  BY <1>2 DEF AtOK, SplitOK
<1> QED
  BY <1>5, <1>6, <1>7, <1>8, <1>9, <1>10, <1>11 DEF TreeInv, Shape

(* The steps that write no node, and after which no insertion runs. *)
LEMMA QuietStep ==
    ASSUME PagesOK, NEW level \in [Pages -> Nat], NEW rank \in [Pages -> Nat],
           Shape(level, rank), at \notin {"left", "right", "root"},
           at' \in {"idle", "none"}, UNCHANGED <<pages, page_count>>,
           at' = "idle" => RootOK(level, root_page_id_', height_', page_count)
    PROVE  TreeInv'
<1>1. PagesOK' /\ HeaderOK(level)'
  BY DEF PagesOK, HeaderOK, Nodes, Shape
<1>2. Leveled(level)' /\ Ranked(rank)'
  BY SameNodes DEF Shape
<1>3. AtOK' /\ MembersOK(level)' /\ SplitOK(level, rank)'
  BY DEF AtOK, MembersOK, SplitOK
<1> QED
  BY <1>1, <1>2, <1>3 DEF TreeInv, Shape

LEMMA LoadHeaderTree ==
    ASSUME PagesOK, NEW level \in [Pages -> Nat], NEW rank \in [Pages -> Nat],
           Shape(level, rank), LoadHeader
    PROVE  TreeInv'
<1>1. RootOK(level, root_page_id_', height_', page_count)
  BY DEF LoadHeader, CanOpen, Shape, HeaderOK
<1> QED
  BY <1>1, QuietStep DEF LoadHeader

LEMMA BeginInsertTree ==
    ASSUME PagesOK, NEW level \in [Pages -> Nat], NEW rank \in [Pages -> Nat],
           Shape(level, rank), NEW key \in Keys, NEW rid \in Rids, BeginInsert(key, rid)
    PROVE  TreeInv'
<1>1. /\ at = "idle" /\ at' = "idle" /\ UNCHANGED <<pages, page_count>>
      /\ root_page_id_' = root_page_id_ /\ height_' = height_
  BY DEF BeginInsert
<1>2. RootOK(level, root_page_id_', height_', page_count)
  BY <1>1 DEF Shape, MembersOK
<1> QED
  BY <1>1, <1>2, QuietStep

LEMMA CloseTree ==
    ASSUME PagesOK, NEW level \in [Pages -> Nat], NEW rank \in [Pages -> Nat],
           Shape(level, rank), Close
    PROVE  TreeInv'
  BY QuietStep DEF Close

LEMMA FailsTree ==
    ASSUME PagesOK, NEW level \in [Pages -> Nat], NEW rank \in [Pages -> Nat],
           Shape(level, rank), Fails
    PROVE  TreeInv'
<1>1. /\ at \in {"first_leaf", "up", "header", "idle"} /\ UNCHANGED <<pages, page_count>>
      /\ at' = IF at = "first_leaf" THEN "none" ELSE "idle"
      /\ root_page_id_' = root_page_id_ /\ height_' = height_
  BY DEF Fails, Creates, MayMiss, LeafFull, NoLeaf, Begun
<1>2. at' = "idle" => RootOK(level, root_page_id_', height_', page_count)
  BY <1>1 DEF Shape, MembersOK
<1> QED
  BY <1>1, <1>2, QuietStep

LEMMA WriteHeaderTree ==
    ASSUME PagesOK, NEW level \in [Pages -> Nat], NEW rank \in [Pages -> Nat],
           Shape(level, rank), WriteHeader
    PROVE  TreeInv'
<1>1. /\ at \in {"first_header", "header"} /\ at' = "idle"
      /\ root_page_id_' = root_page_id_ /\ height_' = height_
      /\ page_count' = page_count /\ pages' = [pages EXCEPT ![HEADER_PAGE_ID] = Header]
  BY DEF WriteHeader, WritePage
<1>2. RootOK(level, root_page_id_, height_, page_count)
  BY <1>1 DEF Shape, MembersOK
<1>3. /\ pages'[HEADER_PAGE_ID] = Header
      /\ \A p \in Pages : p # HEADER_PAGE_ID => pages'[p] = pages[p]
      /\ pages' = [p \in Pages |-> pages'[p]]
  BY <1>1, NodesInPages DEF PagesOK
<1>4. \A p \in Nodes : pages'[p] = pages[p]
  BY <1>3, NodesInPages DEF HEADER_PAGE_ID
<1>5. page_count \in Nat /\ page_count > 1
  BY <1>2, NodesInPages DEF RootOK
<1>6. Header \in Headers /\ Header.root_page_id = root_page_id_ /\ Header.height = height_
  BY <1>2 DEF Header, HeaderPage, Headers, RootOK
<1>7. PagesOK'
  <2>1. Nodes' = Nodes
    BY <1>1 DEF Nodes
  <2>2. \A p \in Pages : p >= page_count => p # HEADER_PAGE_ID
    BY <1>5 DEF HEADER_PAGE_ID
  <2>3. \A p \in Pages : p >= page_count' => pages'[p] = Blank
    BY <1>1, <1>3, <2>2 DEF PagesOK
  <2>4. \A p \in Nodes' : NodeOK(pages'[p], page_count')
    BY <1>1, <1>4, <2>1 DEF PagesOK
  <2>5. page_count' \in 0 .. MaxPages
    BY <1>1 DEF PagesOK
  <2> QED
    BY <1>3, <1>6, <2>3, <2>4, <2>5 DEF PagesOK
<1>8. Leveled(level)' /\ Ranked(rank)'
  BY <1>1, <1>4, SameNodes DEF Shape
<1>9. HeaderOK(level)' /\ MembersOK(level)'
  BY <1>1, <1>2, <1>3, <1>6 DEF HeaderOK, MembersOK
<1>10. AtOK' /\ SplitOK(level, rank)'
  BY <1>1 DEF AtOK, SplitOK
<1> QED
  BY <1>7, <1>8, <1>9, <1>10 DEF TreeInv, Shape

(* What every write of a node keeps. *)
LEMMA WriteKeeps ==
    ASSUME PagesOK, NEW level, NEW rank, Shape(level, rank), NEW p \in Nodes, NEW content,
           Fits(level, p, content), WritePage(p, content),
           \A q \in Nodes : q # p /\ Unwritten(q) => Unwritten(q)',
           IsLeaf(p) /\ content.next # INVALID_PAGE_ID =>
               IsLeaf(content.next) /\ rank[p] < rank[content.next]
    PROVE  PagesOK' /\ Leveled(level)' /\ Ranked(rank)' /\ HeaderOK(level)'
<1>1. Leveled(level) /\ Ranked(rank) /\ HeaderOK(level)
  BY DEF Shape
<1>2. /\ PagesOK' /\ page_count' = page_count
      /\ pages'[HEADER_PAGE_ID] = pages[HEADER_PAGE_ID]
  BY KindsAfterWrite
<1>3. Leveled(level)'
  BY <1>1, LevelsAfterWrite
<1>4. Ranked(rank)'
  BY <1>1, RanksAfterWrite
<1>5. HeaderOK(level)'
  BY <1>1, <1>2 DEF HeaderOK
<1> QED
  BY <1>2, <1>3, <1>4, <1>5

(* Where an insertion goes: a leaf of the tree, with the internal nodes above
   it, one on each level. *)
LEMMA PlaceOfKey ==
    ASSUME PagesOK, NEW level, NEW rank, Shape(level, rank), at = "idle", NEW key
    PROVE  /\ root_page_id_ \in Nodes /\ height_ \in Nat \ {0} /\ height_ <= page_count - 1
           /\ LeafFor(key) \in Nodes /\ IsLeaf(LeafFor(key))
           /\ PathTo(root_page_id_, key) \in Seq(Nodes)
           /\ Len(PathTo(root_page_id_, key)) = height_ - 1
           /\ \A i \in DOMAIN PathTo(root_page_id_, key) :
                 /\ IsInternal(PathTo(root_page_id_, key)[i])
                 /\ level[PathTo(root_page_id_, key)[i]] = height_ - i
<1> DEFINE root == root_page_id_
           d == Descent(root, key)
           above == PathTo(root, key)
<1>1. RootOK(level, root, height_, page_count) /\ Leveled(level)
  BY DEF Shape, MembersOK
<1>2. /\ root \in Nodes /\ height_ \in Nat \ {0} /\ height_ <= page_count - 1
      /\ level[root] = height_ - 1 /\ level[root] <= MaxPages
  BY <1>1, NodesInPages DEF RootOK, Nodes
<1>3. /\ Depth(root, key) = height_ - 1
      /\ LeafFor(key) \in Nodes /\ IsLeaf(LeafFor(key))
      /\ \A i \in 0 .. MaxPages : IsInternal(d[i]) <=> i < level[root]
  BY <1>1, <1>2, DescentEnds DEF LeafFor
<1>4. above = [i \in 1 .. height_ - 1 |-> d[i - 1]]
  BY <1>3 DEF PathTo
<1>5. ASSUME NEW i \in 1 .. height_ - 1
      PROVE  d[i - 1] \in Nodes /\ IsInternal(d[i - 1]) /\ level[d[i - 1]] = height_ - i
  <2>1. i - 1 \in 0 .. MaxPages /\ i - 1 < level[root]
    BY <1>2, NodesInPages
  <2>2. /\ d[i - 1] \in Nodes
        /\ level[d[i - 1]] = IF i - 1 <= level[root] THEN level[root] - (i - 1) ELSE 0
    BY <1>1, <1>2, <2>1, DescentLevels
  <2> QED
    BY <1>2, <1>3, <2>1, <2>2
<1> HIDE DEF d, above
<1>6. above \in [1 .. height_ - 1 -> Nodes]
  BY <1>4, <1>5
<1>7. height_ - 1 \in Nat
  BY <1>2
<1>8. above \in Seq(Nodes) /\ Len(above) = height_ - 1 /\ DOMAIN above = 1 .. height_ - 1
  BY <1>6, <1>7
<1>9. \A i \in DOMAIN above : IsInternal(above[i]) /\ level[above[i]] = height_ - i
  BY <1>4, <1>5, <1>8
<1> QED
  BY <1>2, <1>3, <1>8, <1>9 DEF above

LEMMA InsertInLeafTree ==
    ASSUME PagesOK, NEW level \in [Pages -> Nat], NEW rank \in [Pages -> Nat],
           Shape(level, rank), NEW key \in Keys, NEW rid \in Rids, InsertInLeaf(key, rid)
    PROVE  TreeInv'
<1> DEFINE leaf == LeafFor(key)
           content == LeafNode(Values(key, rid), pages[leaf].next)
<1>1. /\ at = "idle" /\ at' = at /\ IsLeaf(leaf) /\ LeafFits(Values(key, rid))
      /\ WritePage(leaf, content)
      /\ root_page_id_' = root_page_id_ /\ height_' = height_
  BY DEF InsertInLeaf
<1>2. leaf \in Nodes
  BY <1>1, PlaceOfKey
<1>3. LeafOK(pages[leaf], page_count)
  BY <1>1, <1>2, NodeKinds
<1>4. Values(key, rid) \in Seq(Entry)
  BY <1>3, KindOf, PutEntryProperties DEF Values
<1>5. LeafOK(content, page_count) /\ content.next = pages[leaf].next
  BY <1>1, <1>3, <1>4 DEF LeafOK, Leaves, LeafNode
<1>6. content.next # INVALID_PAGE_ID => IsLeaf(content.next) /\ rank[leaf] < rank[content.next]
  BY <1>1, <1>2, <1>5 DEF Shape, Ranked
<1> HIDE DEF leaf, content
<1>7. Fits(level, leaf, content)
  BY <1>1, <1>5 DEF Fits
<1>8. \A q \in Nodes : ~Unwritten(q)
  BY <1>1 DEF Unwritten
<1>9. PagesOK' /\ Leveled(level)' /\ Ranked(rank)' /\ HeaderOK(level)'
  BY <1>1, <1>2, <1>6, <1>7, <1>8, WriteKeeps
<1>10. MembersOK(level)'
  <2>1. page_count' = page_count
    BY <1>1 DEF WritePage
  <2> QED
    BY <1>1, <2>1 DEF Shape, MembersOK
<1>11. AtOK' /\ SplitOK(level, rank)'
  BY <1>1 DEF AtOK, SplitOK
<1> QED
  BY <1>9, <1>10, <1>11 DEF TreeInv, Shape

LEMMA SplitLeafTree ==
    ASSUME PagesOK, NEW level \in [Pages -> Nat], NEW rank \in [Pages -> Nat],
           Shape(level, rank), NEW key \in Keys, NEW rid \in Rids, SplitLeaf(key, rid)
    PROVE  TreeInv'
<1>1. PICK new, leaf : new = page_count /\ leaf = LeafFor(key)
  OBVIOUS
<1> DEFINE values == Values(key, rid)
           next == pages[leaf].next
           l == [level EXCEPT ![new] = 0]
           r == [q \in Pages |-> IF q = new THEN rank[leaf] + 1
                                 ELSE IF rank[leaf] < rank[q] THEN rank[q] + 1 ELSE rank[q]]
<1>2. /\ at = "idle" /\ at' = "left" /\ IsLeaf(leaf) /\ ~LeafFits(values)
      /\ NewPage(EmptyLeaf)
      /\ root_page_id_' = root_page_id_ /\ height_' = height_
      /\ path' = PathTo(root_page_id_, key)
  BY <1>1 DEF SplitLeaf
<1>3. /\ split'.page = leaf /\ split'.left = LeafNode(Left(values), new)
      /\ split'.right_page = new /\ split'.right = LeafNode(Right(values), next)
      /\ split'.separator = Right(values)[1].key
  BY <1>1 DEF SplitLeaf, LeafSplit
<1>4. /\ root_page_id_ \in Nodes /\ height_ \in Nat \ {0} /\ height_ <= page_count - 1
      /\ leaf \in Nodes /\ path' \in Seq(Nodes) /\ Len(path') = height_ - 1
      /\ \A i \in DOMAIN path' : IsInternal(path'[i]) /\ level[path'[i]] = height_ - i
  BY <1>1, <1>2, PlaceOfKey
<1>5. /\ page_count \in Nat /\ page_count > 0
      /\ NodeOK(EmptyLeaf, page_count + 1) /\ ~InternalOK(EmptyLeaf, page_count + 1)
      /\ EmptyLeaf.next = INVALID_PAGE_ID
  <2>1. page_count \in Nat /\ page_count > 0
    BY <1>4, NodesInPages
  <2> QED
    BY <2>1, EmptyNodes
<1>6. /\ PagesOK' /\ page_count < MaxPages /\ page_count' = page_count + 1
      /\ Nodes' = Nodes \cup {new} /\ new \notin Nodes /\ new \in Pages
  BY <1>1, <1>2, <1>5, PageAdded
<1>7. /\ \A q \in Nodes : /\ q \in Pages /\ pages'[q] = pages[q]
                          /\ IsLeaf(q)' <=> IsLeaf(q)
                          /\ IsInternal(q)' <=> IsInternal(q)
      /\ IsLeaf(new)'
  BY <1>1, <1>2, <1>5, KindsAfterAdd DEF NodeOK
\* The halves.
<1>8. LeafOK(pages[leaf], page_count)
  BY <1>2, <1>4, NodeKinds
<1>9. values \in Seq(Entry) /\ Len(values) = MAX_LEAF_ENTRIES + 1
  <2>1. pages[leaf].entries \in Seq(Entry) /\ Len(pages[leaf].entries) <= MAX_LEAF_ENTRIES
    BY <1>8, KindOf DEF LeafOK, LeafFits
  <2>2. /\ values \in Seq(Entry)
        /\ Len(values) \in {Len(pages[leaf].entries), Len(pages[leaf].entries) + 1}
    BY <1>1, <2>1, PutEntryProperties DEF Values
  <2>3. Len(values) \in Nat /\ Len(pages[leaf].entries) \in Nat
    BY <2>1, <2>2, LenProperties
  <2> QED
    BY <1>2, <2>1, <2>2, <2>3, LeafSizeAssumption DEF LeafFits
<1>10. next \in Nodes \cup {INVALID_PAGE_ID}
  BY <1>8 DEF LeafOK, Nodes
<1>11. next # INVALID_PAGE_ID => IsLeaf(next) /\ rank[leaf] < rank[next]
  BY <1>2, <1>4 DEF Shape, Ranked
<1> HIDE DEF values
<1>12. /\ Left(values) \in Seq(Entry) /\ LeafFits(Left(values))
       /\ Right(values) \in Seq(Entry) /\ LeafFits(Right(values))
       /\ Right(values)[1].key \in Keys
  BY <1>9, HalvesFit
<1>13. LeafOK(split'.left, page_count') /\ split'.left.next = new
  <2>1. new \in 1 .. page_count' - 1 /\ new \in Int
    BY <1>1, <1>5, <1>6
  <2> QED
    BY <1>3, <1>12, <2>1 DEF LeafOK, LeafNode, Leaves
<1>14. LeafOK(split'.right, page_count') /\ split'.right.next = next
  <2>1. next \in Int /\ next \in 1 .. page_count' - 1 \cup {INVALID_PAGE_ID}
    BY <1>5, <1>6, <1>10, NodesInPages DEF INVALID_PAGE_ID
  <2> HIDE DEF next
  <2> QED
    BY <1>3, <1>12, <2>1 DEF LeafOK, LeafNode, Leaves
\* The levels and the order.
<1>15. l \in [Pages -> Nat] /\ l[new] = 0 /\ \A q \in Nodes : l[q] = level[q]
  BY <1>1, <1>5, <1>6, Extended
<1>16. /\ r \in [Pages -> Nat] /\ r[new] = rank[leaf] + 1
       /\ \A q \in Nodes : r[q] = IF rank[leaf] < rank[q] THEN rank[q] + 1 ELSE rank[q]
  <2>1. leaf \in Pages /\ \A q \in Pages : rank[q] \in Nat
    BY <1>4, <1>7
  <2>2. r \in [Pages -> Nat]
    BY <2>1
  <2>3. r[new] = rank[leaf] + 1
    BY <1>6
  <2>4. \A q \in Nodes : q # new /\ q \in Pages
    BY <1>6, <1>7
  <2> QED
    BY <2>2, <2>3, <2>4
<1>17. \A q \in Nodes : rank[q] \in Nat /\ rank[q] < page_count
  BY <1>7 DEF Shape, Ranked
<1> HIDE DEF l, r
<1>18. \A q \in Nodes : ~Unwritten(q)
  BY <1>2 DEF Unwritten
<1>19. Leveled(l)'
  <2>1. Leveled(level)
    BY DEF Shape
  <2> QED
    BY <1>1, <1>2, <1>5, <1>15, <1>18, <2>1, LevelsAfterAdd
<1>20. Ranked(r)'
  <2>1. Ranked(rank)
    BY DEF Shape
  <2>2. r[new] < page_count + 1 /\ \A q \in Nodes : r[q] < page_count + 1
    BY <1>4, <1>5, <1>16, <1>17
  <2>3. ASSUME NEW q \in Nodes, NEW s \in Nodes, rank[q] < rank[s] PROVE r[q] < r[s]
    <3>1. rank[leaf] \in Nat /\ rank[q] \in Nat /\ rank[s] \in Nat
      BY <1>4, <1>17
    <3>2. /\ r[q] = IF rank[leaf] < rank[q] THEN rank[q] + 1 ELSE rank[q]
          /\ r[s] = IF rank[leaf] < rank[s] THEN rank[s] + 1 ELSE rank[s]
      BY <1>16
    <3> QED
      BY <2>3, <3>1, <3>2
  <2> QED
    BY <1>1, <1>2, <1>5, <1>16, <2>1, <2>2, <2>3, RanksAfterAdd
<1>21. HeaderOK(l)'
  BY <1>1, <1>2, <1>5, <1>15, HeaderAfterAdd DEF Shape
<1>22. MembersOK(l)'
  <2>1. RootOK(level, root_page_id_, height_, page_count)
    BY <1>2 DEF Shape, MembersOK
  <2>2. RootOK(l, root_page_id_, height_, page_count + 1)
    BY <1>4, <1>5, <1>15, <2>1 DEF RootOK
  <2> QED
    BY <1>2, <1>6, <2>2 DEF MembersOK
<1>23. HalvesAreLeaves(r)'
  <2>1. IsLeaf(split.page)' /\ IsLeaf(split.right_page)'
    BY <1>2, <1>3, <1>4, <1>7 DEF IsLeaf
  <2>2. r[leaf] < r[new]
    BY <1>4, <1>16, <1>17
  <2>3. ASSUME next # INVALID_PAGE_ID
        PROVE  IsLeaf(split.right.next)' /\ r[new] < r[next]
    <3>1. next \in Nodes /\ IsLeaf(next) /\ rank[leaf] < rank[next]
      BY <1>10, <1>11, <2>3
    <3>2. pages'[next].kind = "leaf"
      BY <1>7, <3>1 DEF IsLeaf
    <3>3. r[new] < r[next]
      BY <1>4, <1>16, <1>17, <3>1
    <3> QED
      BY <1>14, <3>2, <3>3 DEF IsLeaf
  <2> QED
    BY <1>3, <1>13, <1>14, <2>1, <2>2, <2>3 DEF HalvesAreLeaves
<1>24. SplitOK(l, r)'
  <2>1. l[leaf] = 0
    BY <1>2, <1>4, <1>15 DEF Shape, Leveled
  <2>2. path' \in Seq(Nodes')
    BY <1>4, <1>6, SeqMonotonic
  <2>3. \A i \in DOMAIN path' : path'[i] \in Nodes
    BY <1>4, LenProperties, ElementOfSeq
  <2>4. \A i \in DOMAIN path' :
           pages'[path'[i]].kind = "internal" /\ l[path'[i]] = height_' - i
    BY <1>2, <1>4, <1>7, <1>15, <2>3 DEF IsInternal
  <2>5. Len(path') + l[leaf] = height_' - 1
    BY <1>2, <1>4, <2>1
  <2>6. /\ leaf \in Nodes' /\ new \in Nodes' /\ leaf # new /\ l[leaf] = l[new]
    BY <1>4, <1>6, <1>15, <2>1
  <2> QED
    BY <1>2, <1>3, <1>12, <1>23, <2>2, <2>4, <2>5, <2>6 DEF SplitOK, WayUp, IsInternal
<1>25. AtOK'
  BY <1>2 DEF AtOK
<1> QED
  BY <1>6, <1>15, <1>16, <1>19, <1>20, <1>21, <1>22, <1>24, <1>25 DEF TreeInv, Shape

(* A write, or a new page, leaves the way up as it is. *)
LEMMA WayUpKept ==
    ASSUME PagesOK, NEW level, WayUp(level), Nodes \subseteq Nodes',
           \A q \in Nodes : IsInternal(q) => IsInternal(q)',
           UNCHANGED <<split, path, height_>>,
           NEW after, \A q \in Nodes : after[q] = level[q]
    PROVE  WayUp(after)'
<1>1. \A i \in DOMAIN path : path[i] \in Nodes
  BY LenProperties, ElementOfSeq DEF WayUp
<1>2. \A i \in DOMAIN path :
         pages'[path[i]].kind = "internal" /\ after[path[i]] = height_ - i
  BY <1>1 DEF WayUp, IsInternal
<1>3. path \in Seq(Nodes')
  BY SeqMonotonic DEF WayUp
<1>4. split.page \in Nodes /\ split.right_page \in Nodes
  BY DEF WayUp
<1>5. after[split.page] = level[split.page] /\ after[split.right_page] = level[split.right_page]
  BY <1>4
<1> QED
  BY <1>2, <1>3, <1>4, <1>5 DEF WayUp, IsInternal

LEMMA WriteLeftTree ==
    ASSUME PagesOK, NEW level \in [Pages -> Nat], NEW rank \in [Pages -> Nat],
           Shape(level, rank), WriteLeft
    PROVE  TreeInv'
<1>1. /\ at = "left" /\ at' = "right" /\ WritePage(split.page, split.left)
      /\ root_page_id_' = root_page_id_ /\ height_' = height_
      /\ split' = split /\ path' = path /\ page_count' = page_count
  BY DEF WriteLeft, WritePage
<1>2. WayUp(level) /\ (HalvesAreLeaves(rank) \/ HalvesAreInternal(level))
  BY <1>1 DEF Shape, SplitOK
<1>3. split.page \in Nodes /\ split.right_page \in Nodes
  BY <1>2 DEF WayUp
<1>4. Fits(level, split.page, split.left)
  BY <1>2 DEF Fits, HalvesAreLeaves, HalvesAreInternal
<1>5. IsLeaf(split.page) => HalvesAreLeaves(rank)
  BY <1>2, <1>3, NodeKinds DEF HalvesAreInternal
<1>6. IsLeaf(split.page) /\ split.left.next # INVALID_PAGE_ID =>
         IsLeaf(split.left.next) /\ rank[split.page] < rank[split.left.next]
  BY <1>5 DEF HalvesAreLeaves
<1>7. \A q \in Nodes : q # split.page /\ Unwritten(q) => Unwritten(q)'
  BY <1>1 DEF Unwritten
<1>8. PagesOK' /\ Leveled(level)' /\ Ranked(rank)' /\ HeaderOK(level)'
  BY <1>1, <1>3, <1>4, <1>6, <1>7, WriteKeeps
<1>9. /\ Nodes' = Nodes
      /\ \A q \in Nodes : (IsLeaf(q)' <=> IsLeaf(q)) /\ (IsInternal(q)' <=> IsInternal(q))
  BY <1>1, <1>3, <1>4, KindsAfterWrite
<1>10. WayUp(level)'
  BY <1>1, <1>2, <1>9, WayUpKept
<1>11. (pages'[split.page].kind = pages[split.page].kind)
       /\ pages'[split.right_page].kind = pages[split.right_page].kind
  <2>1. ASSUME NEW q \in Nodes
        PROVE  pages'[q].kind = pages[q].kind
    <3>1. IsLeaf(q) \/ IsInternal(q)
      BY NodeKinds
    <3> QED
      BY <1>9, <3>1 DEF IsLeaf, IsInternal
  <2> QED
    BY <1>3, <2>1
<1>12. HalvesAreLeaves(rank)' \/ HalvesAreInternal(level)'
  <2>1. CASE HalvesAreLeaves(rank)
    <3>1. split.right.next # INVALID_PAGE_ID => pages'[split.right.next].kind = "leaf"
      <4> SUFFICES ASSUME split.right.next # INVALID_PAGE_ID
                   PROVE  pages'[split.right.next].kind = "leaf"
        OBVIOUS
      <4>1. split.right.next \in Nodes /\ IsLeaf(split.right.next)
        BY <2>1 DEF HalvesAreLeaves, LeafOK, Nodes
      <4> QED
        BY <1>9, <4>1 DEF IsLeaf
    <3> QED
      BY <1>1, <1>11, <2>1, <3>1 DEF HalvesAreLeaves, IsLeaf
  <2>2. CASE HalvesAreInternal(level)
    BY <1>1, <1>9, <1>11, <2>2 DEF HalvesAreInternal, IsInternal
  <2> QED
    BY <1>2, <2>1, <2>2
<1>13. MembersOK(level)'
  BY <1>1 DEF Shape, MembersOK
<1>14. AtOK' /\ SplitOK(level, rank)'
  BY <1>1, <1>10, <1>12 DEF AtOK, SplitOK
<1> QED
  BY <1>8, <1>13, <1>14 DEF TreeInv, Shape

LEMMA WriteRightTree ==
    ASSUME PagesOK, NEW level \in [Pages -> Nat], NEW rank \in [Pages -> Nat],
           Shape(level, rank), WriteRight
    PROVE  TreeInv'
<1>1. /\ at = "right" /\ at' = "up" /\ WritePage(split.right_page, split.right)
      /\ root_page_id_' = root_page_id_ /\ height_' = height_
      /\ split' = split /\ path' = path /\ page_count' = page_count
  BY DEF WriteRight, WritePage
<1>2. WayUp(level) /\ (HalvesAreLeaves(rank) \/ HalvesAreInternal(level))
  BY <1>1 DEF Shape, SplitOK
<1>3. split.right_page \in Nodes /\ level[split.page] = level[split.right_page]
  BY <1>2 DEF WayUp
<1>4. Fits(level, split.right_page, split.right)
  BY <1>2, <1>3 DEF Fits, HalvesAreLeaves, HalvesAreInternal
<1>5. IsLeaf(split.right_page) => HalvesAreLeaves(rank)
  BY <1>2, <1>3, NodeKinds DEF HalvesAreInternal
<1>6. IsLeaf(split.right_page) /\ split.right.next # INVALID_PAGE_ID =>
         IsLeaf(split.right.next) /\ rank[split.right_page] < rank[split.right.next]
  BY <1>5 DEF HalvesAreLeaves
<1>7. \A q \in Nodes : q # split.right_page /\ Unwritten(q) => Unwritten(q)'
  BY <1>1 DEF Unwritten
<1>8. PagesOK' /\ Leveled(level)' /\ Ranked(rank)' /\ HeaderOK(level)'
  BY <1>1, <1>3, <1>4, <1>6, <1>7, WriteKeeps
<1>9. /\ Nodes' = Nodes
      /\ \A q \in Nodes : (IsLeaf(q)' <=> IsLeaf(q)) /\ (IsInternal(q)' <=> IsInternal(q))
  BY <1>1, <1>3, <1>4, KindsAfterWrite
<1>10. WayUp(level)'
  BY <1>1, <1>2, <1>9, WayUpKept
<1>11. MembersOK(level)'
  BY <1>1 DEF Shape, MembersOK
<1>12. AtOK' /\ SplitOK(level, rank)'
  BY <1>1, <1>10 DEF AtOK, SplitOK
<1> QED
  BY <1>8, <1>11, <1>12 DEF TreeInv, Shape

LEMMA InternalFromParts ==
    ASSUME NEW count \in Nat, NEW C \in SUBSET (0 .. count - 1), NEW node,
           node = InternalNode(node.keys, node.children),
           node.keys \in Seq(Keys), Len(node.keys) <= MAX_INTERNAL_KEYS,
           node.children \in Seq(C), Len(node.children) = Len(node.keys) + 1
    PROVE  /\ InternalOK(node, count)
           /\ \A i \in DOMAIN node.children : node.children[i] \in C
<1>1. \A i \in DOMAIN node.children : node.children[i] \in C
  <2>1. DOMAIN node.children = 1 .. Len(node.children)
    BY LenProperties
  <2> QED
    BY <2>1, ElementOfSeq
<1>2. \A i \in DOMAIN node.children :
         node.children[i] \in 0 .. count - 1 /\ node.children[i] \in Int
  <2> TAKE i \in DOMAIN node.children
  <2> DEFINE child == node.children[i]
  <2>1. child \in C
    BY <1>1
  <2> HIDE DEF child
  <2>2. child \in 0 .. count - 1 /\ child \in Int
    BY <2>1
  <2> QED
    BY <2>2 DEF child
<1>3. node.children \in Seq(Int)
  <2> DEFINE c == node.children
  <2>1. c \in Seq(C) /\ \A i \in DOMAIN c : c[i] \in Int
    BY <1>2
  <2> HIDE DEF c
  <2>2. c \in Seq(Int)
    BY <2>1, RetypedSeq
  <2> QED
    BY <2>2 DEF c
<1>4. node \in Internals
  <2> DEFINE k == node.keys
             c == node.children
  <2>1. node = [kind |-> "internal", keys |-> k, children |-> c]
    BY DEF InternalNode
  <2>2. k \in Seq(Keys) /\ c \in Seq(Int)
    BY <1>3
  <2> HIDE DEF k, c
  <2> QED
    BY <2>1, <2>2 DEF Internals
<1> QED
  BY <1>1, <1>2, <1>4 DEF InternalOK, InternalFits

(* The children a node may have. *)
ChildrenOf(level, p) == {q \in Nodes : level[q] = level[p] - 1}

(* The parent with the new page as one more child. *)
LEMMA ParentFacts ==
    ASSUME PagesOK, NEW level, NEW rank, Shape(level, rank), at = "up", path # <<>>
    PROVE  /\ Parent \in Nodes /\ IsInternal(Parent)
           /\ level[Parent] = height_ - Len(path) /\ Len(path) \in Nat \ {0}
           /\ ParentNode = InternalNode(ParentNode.keys, ParentNode.children)
           /\ ParentNode.keys \in Seq(Keys)
           /\ Len(ParentNode.keys) <= MAX_INTERNAL_KEYS + 1
           /\ ParentNode.children \in Seq(ChildrenOf(level, Parent))
           /\ Len(ParentNode.children) = Len(ParentNode.keys) + 1
<1> DEFINE C == ChildrenOf(level, Parent)
           node == pages[Parent]
<1>1. WayUp(level) /\ Leveled(level)
  BY DEF Shape, SplitOK
<1>2. Len(path) \in Nat \ {0} /\ DOMAIN path = 1 .. Len(path)
  BY <1>1, EmptySeq, LenProperties DEF WayUp
<1>3. Parent \in Nodes /\ IsInternal(Parent) /\ level[Parent] = height_ - Len(path)
  <2>1. Len(path) \in 1 .. Len(path)
    BY <1>2
  <2>2. path[Len(path)] \in Nodes
    BY <1>1, <2>1, ElementOfSeq DEF WayUp
  <2> QED
    BY <1>1, <1>2, <2>1, <2>2 DEF WayUp, Parent, Last
<1>4. InternalOK(node, page_count)
  BY <1>3, NodeKinds
<1>5. /\ node.keys \in Seq(Keys) /\ node.children \in Seq(Int)
      /\ node = InternalNode(node.keys, node.children)
      /\ Len(node.keys) <= MAX_INTERNAL_KEYS /\ Len(node.children) = Len(node.keys) + 1
  BY <1>4, KindOf DEF InternalOK, InternalFits
<1>6. node.children \in Seq(C)
  <2>1. \A i \in DOMAIN node.children : node.children[i] \in C
    <3>1. ~Unwritten(Parent)
      BY DEF Unwritten
    <3> QED
      BY <1>1, <1>3, <3>1 DEF Leveled, ChildrenOf
  <2> HIDE DEF C
  <2> QED
    BY <1>5, <2>1, RetypedSeq
<1>7. split.right_page \in C /\ split.separator \in Keys
  <2>1. /\ split.right_page \in Nodes /\ level[split.page] = level[split.right_page]
        /\ Len(path) + level[split.page] = height_ - 1 /\ split.separator \in Keys
        /\ split.page \in Nodes
    BY <1>1 DEF WayUp
  <2>2. level[split.page] \in Nat /\ level[Parent] \in Nat
    BY <1>1, <1>3, <2>1, NodesInPages DEF Leveled
  <2>3. height_ \in Int => level[split.right_page] = height_ - Len(path) - 1
    BY <1>2, <2>1, <2>2
  <2>4. RootOK(level, root_page_id_, height_, page_count)
    BY DEF Shape, MembersOK
  <2>5. height_ \in Int
    BY <2>4, NodesInPages DEF RootOK
  <2> QED
    BY <1>3, <2>1, <2>3, <2>5 DEF ChildrenOf
<1>8. C \in SUBSET Int
  BY NodesInPages DEF ChildrenOf
<1> HIDE DEF C, node
<1>9. LET put == PutChild(InternalNode(node.keys, node.children),
                          split.separator, split.right_page)
      IN  /\ put = InternalNode(put.keys, put.children)
          /\ put.keys \in Seq(Keys) /\ Len(put.keys) = Len(node.keys) + 1
          /\ put.children \in Seq(C) /\ Len(put.children) = Len(put.keys) + 1
  BY <1>5, <1>6, <1>7, <1>8, PutChildProperties
<1>10. ParentNode = PutChild(InternalNode(node.keys, node.children),
                             split.separator, split.right_page)
  BY <1>5 DEF ParentNode, node
<1>11. Len(node.keys) \in Nat
  BY <1>5, LenProperties
<1>12. /\ ParentNode = InternalNode(ParentNode.keys, ParentNode.children)
       /\ ParentNode.keys \in Seq(Keys) /\ Len(ParentNode.keys) = Len(node.keys) + 1
       /\ ParentNode.children \in Seq(C)
       /\ Len(ParentNode.children) = Len(ParentNode.keys) + 1
  BY <1>9, <1>10
<1>13. Len(ParentNode.keys) <= MAX_INTERNAL_KEYS + 1
  BY <1>5, <1>11, <1>12, InternalSizeAssumption
<1> QED
  BY <1>2, <1>3, <1>12, <1>13 DEF C

LEMMA InsertInParentTree ==
    ASSUME PagesOK, NEW level \in [Pages -> Nat], NEW rank \in [Pages -> Nat],
           Shape(level, rank), InsertInParent
    PROVE  TreeInv'
<1>1. /\ at = "up" /\ path # <<>> /\ at' = "idle" /\ InternalFits(ParentNode)
      /\ WritePage(Parent, ParentNode) /\ page_count' = page_count
      /\ root_page_id_' = root_page_id_ /\ height_' = height_
  BY DEF InsertInParent, WritePage
<1> DEFINE C == ChildrenOf(level, Parent)
<1>2. /\ Parent \in Nodes /\ IsInternal(Parent) /\ ~IsLeaf(Parent)
      /\ ParentNode = InternalNode(ParentNode.keys, ParentNode.children)
      /\ ParentNode.keys \in Seq(Keys) /\ Len(ParentNode.keys) <= MAX_INTERNAL_KEYS
      /\ ParentNode.children \in Seq(C)
      /\ Len(ParentNode.children) = Len(ParentNode.keys) + 1
  BY <1>1, ParentFacts, NodeKinds DEF InternalFits
<1>3. C \in SUBSET (1 .. page_count - 1) /\ page_count \in Nat
  BY NodesInPages DEF ChildrenOf, Nodes
<1> HIDE DEF C
<1>4. /\ InternalOK(ParentNode, page_count)
      /\ \A i \in DOMAIN ParentNode.children : ParentNode.children[i] \in C
  BY <1>2, <1>3, InternalFromParts
<1>5. Fits(level, Parent, ParentNode)
  BY <1>2, <1>4 DEF Fits, C, ChildrenOf
<1>6. \A q \in Nodes : ~Unwritten(q)
  BY <1>1 DEF Unwritten
<1>7. PagesOK' /\ Leveled(level)' /\ Ranked(rank)' /\ HeaderOK(level)'
  BY <1>1, <1>2, <1>5, <1>6, WriteKeeps
<1>8. MembersOK(level)'
  BY <1>1 DEF Shape, MembersOK
<1>9. AtOK' /\ SplitOK(level, rank)'
  BY <1>1 DEF AtOK, SplitOK
<1> QED
  BY <1>7, <1>8, <1>9 DEF TreeInv, Shape

LEMMA SplitParentTree ==
    ASSUME PagesOK, NEW level \in [Pages -> Nat], NEW rank \in [Pages -> Nat],
           Shape(level, rank), SplitParent
    PROVE  TreeInv'
<1>1. PICK new, parent : new = page_count /\ parent = Parent
  OBVIOUS
<1> DEFINE C == ChildrenOf(level, parent)
           l == [level EXCEPT ![new] = level[parent]]
           r == [rank EXCEPT ![new] = 0]
<1>2. /\ at = "up" /\ path # <<>> /\ at' = "left" /\ ~InternalFits(ParentNode)
      /\ NewPage(EmptyInternal) /\ path' = Front(path)
      /\ root_page_id_' = root_page_id_ /\ height_' = height_
  BY DEF SplitParent
<1>3. /\ split'.page = parent /\ split'.left = LeftInternal(ParentNode)
      /\ split'.right_page = new /\ split'.right = RightInternal(ParentNode)
      /\ split'.separator = promoted(ParentNode)
  BY <1>1 DEF SplitParent
<1>4. /\ parent \in Nodes /\ IsInternal(parent)
      /\ level[parent] = height_ - Len(path) /\ Len(path) \in Nat \ {0}
      /\ ParentNode = InternalNode(ParentNode.keys, ParentNode.children)
      /\ ParentNode.keys \in Seq(Keys)
      /\ Len(ParentNode.keys) <= MAX_INTERNAL_KEYS + 1
      /\ ParentNode.children \in Seq(C)
      /\ Len(ParentNode.children) = Len(ParentNode.keys) + 1
  BY <1>1, <1>2, ParentFacts
<1>5. Len(ParentNode.keys) = MAX_INTERNAL_KEYS + 1
  <2>1. Len(ParentNode.keys) \in Nat
    BY <1>4, LenProperties
  <2> QED
    BY <1>2, <1>4, <2>1, InternalSizeAssumption DEF InternalFits
<1>6. /\ page_count \in Nat /\ page_count > 0
      /\ NodeOK(EmptyInternal, page_count + 1) /\ ~LeafOK(EmptyInternal, page_count + 1)
  <2>1. page_count \in Nat /\ page_count > 0
    BY <1>4, NodesInPages
  <2> QED
    BY <2>1, EmptyNodes
<1>7. /\ PagesOK' /\ page_count < MaxPages /\ page_count' = page_count + 1
      /\ Nodes' = Nodes \cup {new} /\ new \notin Nodes
  BY <1>1, <1>2, <1>6, PageAdded
<1>8. /\ \A q \in Nodes : /\ pages'[q] = pages[q]
                          /\ IsInternal(q)' <=> IsInternal(q)
      /\ IsInternal(new)'
  BY <1>1, <1>2, <1>6, KindsAfterAdd DEF NodeOK
<1>9. level[parent] \in Nat /\ level[parent] > 0
  BY <1>4, NodesInPages DEF Shape, Leveled
\* The halves.
<1>10. C \in SUBSET Int /\ C \in SUBSET (1 .. page_count' - 1) /\ C \subseteq Nodes
  BY <1>6, <1>7 DEF ChildrenOf, Nodes
<1>11. \A c \in C : level[c] = level[parent] - 1
  BY DEF ChildrenOf
<1> HIDE DEF C
<1>12. /\ promoted(ParentNode) \in Keys
       /\ \A half \in {LeftInternal(ParentNode), RightInternal(ParentNode)} :
             /\ half = InternalNode(half.keys, half.children)
             /\ half.keys \in Seq(Keys) /\ Len(half.keys) <= MAX_INTERNAL_KEYS
             /\ half.children \in Seq(C)
             /\ Len(half.children) = Len(half.keys) + 1
  <2>1. PICK node, keys, children :
           node = ParentNode /\ keys = ParentNode.keys /\ children = ParentNode.children
    OBVIOUS
  <2>2. /\ keys \in Seq(Keys) /\ Len(keys) = MAX_INTERNAL_KEYS + 1
        /\ children \in Seq(C) /\ Len(children) = Len(keys) + 1
        /\ node = InternalNode(keys, children) /\ C \in SUBSET Int
    BY <1>4, <1>5, <1>10, <2>1
  <2>3. /\ promoted(node) \in Keys
        /\ \A half \in {LeftInternal(node), RightInternal(node)} :
              /\ half = InternalNode(half.keys, half.children)
              /\ half.keys \in Seq(Keys) /\ Len(half.keys) <= MAX_INTERNAL_KEYS
              /\ half.children \in Seq(C)
              /\ Len(half.children) = Len(half.keys) + 1
    BY <2>2, InternalHalves
  <2> QED
    BY <2>1, <2>3
<1>13. ASSUME NEW half \in {split'.left, split'.right}
       PROVE  /\ InternalOK(half, page_count')
              /\ \A i \in DOMAIN half.children : half.children[i] \in C
  <2>1. /\ half = InternalNode(half.keys, half.children)
        /\ half.keys \in Seq(Keys) /\ Len(half.keys) <= MAX_INTERNAL_KEYS
        /\ half.children \in Seq(C)
        /\ Len(half.children) = Len(half.keys) + 1
    BY <1>3, <1>12
  <2>2. page_count' \in Nat
    BY <1>6, <1>7
  <2>3. PICK n \in Nat : n = page_count'
    BY <2>2
  <2>4. C \in SUBSET (0 .. n - 1)
    <3>1. C \in SUBSET (1 .. n - 1)
      BY <1>10, <2>3
    <3> QED
      BY <3>1
  <2>5. /\ InternalOK(half, n)
        /\ \A i \in DOMAIN half.children : half.children[i] \in C
    BY <2>1, <2>4, InternalFromParts
  <2> QED
    BY <2>3, <2>5
\* The levels and the order.
<1>14. l \in [Pages -> Nat] /\ l[new] = level[parent] /\ \A q \in Nodes : l[q] = level[q]
  BY <1>1, <1>6, <1>7, <1>9, Extended
<1>15. Ranked(r)' /\ r \in [Pages -> Nat]
  <2>1. Ranked(rank)
    BY DEF Shape
  <2> QED
    BY <1>1, <1>2, <1>6, <2>1, RanksAfterInternal
<1> HIDE DEF l, r
<1>16. Leveled(l)'
  <2>1. Leveled(level)
    BY DEF Shape
  <2>2. (\A q \in Nodes : ~Unwritten(q)) /\ Unwritten(new)'
    BY <1>2, <1>3 DEF Unwritten
  <2>3. l[new] > 0
    BY <1>9, <1>14
  <2> QED
    BY <1>1, <1>2, <1>6, <1>14, <2>1, <2>2, <2>3, LevelsAfterAdd
<1>17. HeaderOK(l)'
  BY <1>1, <1>2, <1>6, <1>14, HeaderAfterAdd DEF Shape
<1>18. RootOK(l, root_page_id_, height_, page_count) /\ height_ \in Int
  <2>1. RootOK(level, root_page_id_, height_, page_count)
    BY <1>2 DEF Shape, MembersOK
  <2> QED
    BY <1>6, <1>14, <2>1 DEF RootOK, Nodes
<1>19. MembersOK(l)'
  <2>1. RootOK(l, root_page_id_, height_, page_count + 1)
    BY <1>6, <1>18 DEF RootOK
  <2> QED
    BY <1>2, <1>7, <2>1 DEF MembersOK
<1>20. HalvesAreInternal(l)'
  <2>1. pages'[parent].kind = "internal" /\ pages'[new].kind = "internal"
    BY <1>4, <1>8 DEF IsInternal
  <2>2. \A c \in C : c \in Nodes' /\ l[c] = l[parent] - 1
    BY <1>4, <1>7, <1>10, <1>11, <1>14
  <2> QED
    BY <1>3, <1>13, <2>1, <2>2 DEF HalvesAreInternal, IsInternal
<1>21. WayUp(level)
  BY <1>2 DEF Shape, SplitOK
<1>22. /\ path' \in Seq(Nodes') /\ Len(path') = Len(path) - 1
       /\ \A i \in DOMAIN path' : pages'[path'[i]].kind = "internal" /\ l[path'[i]] = height_ - i
  <2>1. \A i \in 1 .. Len(path) :
           path[i] \in Nodes /\ IsInternal(path[i]) /\ level[path[i]] = height_ - i
    <3>1. path \in Seq(Nodes) /\ DOMAIN path = 1 .. Len(path)
      BY <1>21, LenProperties DEF WayUp
    <3> QED
      BY <1>21, <3>1, ElementOfSeq DEF WayUp
  <2>2. path \in Seq(Nodes)
    BY <1>21 DEF WayUp
  <2>3. /\ path' \in Seq(Nodes) /\ Len(path') = Len(path) - 1
        /\ DOMAIN path' = 1 .. Len(path) - 1
        /\ \A i \in 1 .. Len(path) - 1 : path'[i] = path[i]
    BY <1>2, <1>4, <2>2, FrontOfSeq
  <2>4. \A i \in DOMAIN path' :
           pages'[path'[i]].kind = "internal" /\ l[path'[i]] = height_ - i
    <3> TAKE i \in DOMAIN path'
    <3>1. path'[i] = path[i] /\ i \in 1 .. Len(path)
      BY <1>4, <2>3
    <3> QED
      BY <1>8, <1>14, <2>1, <3>1 DEF IsInternal
  <2>5. path' \in Seq(Nodes')
    BY <1>7, <2>3, SeqMonotonic
  <2> QED
    BY <2>3, <2>4, <2>5
<1>23. WayUp(l)'
  <2>1. l[parent] = level[parent] /\ l[new] = level[parent]
    BY <1>4, <1>14
  <2>2. Len(path') + l[parent] = height_ - 1
    BY <1>4, <1>18, <1>22, <2>1
  <2>3. parent \in Nodes' /\ new \in Nodes' /\ parent # new
    BY <1>4, <1>7
  <2> QED
    BY <1>2, <1>3, <1>12, <1>22, <2>1, <2>2, <2>3 DEF WayUp, IsInternal
<1>24. AtOK' /\ SplitOK(l, r)'
  BY <1>2, <1>20, <1>23 DEF AtOK, SplitOK
<1> QED
  BY <1>7, <1>14, <1>15, <1>16, <1>17, <1>19, <1>24 DEF TreeInv, Shape

LEMMA CreateRootTree ==
    ASSUME PagesOK, NEW level \in [Pages -> Nat], NEW rank \in [Pages -> Nat],
           Shape(level, rank), CreateRoot
    PROVE  TreeInv'
<1>1. PICK new, height : new = page_count /\ height = height_
  OBVIOUS
<1> DEFINE l == [level EXCEPT ![new] = height]
           r == [rank EXCEPT ![new] = 0]
<1>2. /\ at = "up" /\ path = <<>> /\ at' = "root" /\ NewPage(EmptyInternal)
      /\ root_page_id_' = root_page_id_ /\ height_' = height_
      /\ split' = split /\ path' = path
  BY DEF CreateRoot
<1>3. RootOK(level, root_page_id_, height_, page_count) /\ WayUp(level)
  BY <1>2 DEF Shape, MembersOK, SplitOK
<1>4. page_count \in Nat /\ page_count > 0 /\ height \in Nat /\ height > 0
  BY <1>1, <1>3, NodesInPages DEF RootOK
<1>5. NodeOK(EmptyInternal, page_count + 1) /\ ~LeafOK(EmptyInternal, page_count + 1)
  BY <1>4, EmptyNodes
<1>6. /\ PagesOK' /\ page_count < MaxPages /\ page_count' = page_count + 1
      /\ Nodes' = Nodes \cup {new} /\ new \notin Nodes
  BY <1>1, <1>2, <1>4, <1>5, PageAdded
<1>7. /\ \A q \in Nodes : IsInternal(q)' <=> IsInternal(q)
      /\ IsInternal(new)'
  BY <1>1, <1>2, <1>4, <1>5, KindsAfterAdd DEF NodeOK
<1>8. l \in [Pages -> Nat] /\ l[new] = height /\ \A q \in Nodes : l[q] = level[q]
  BY <1>1, <1>4, <1>6, Extended
<1>9. Ranked(r)' /\ r \in [Pages -> Nat]
  <2>1. Ranked(rank)
    BY DEF Shape
  <2> QED
    BY <1>1, <1>2, <1>4, <1>5, <2>1, RanksAfterInternal
<1> HIDE DEF l, r
<1>10. page_count' - 1 = new
  BY <1>1, <1>4, <1>6
<1>11. Leveled(l)'
  <2>1. Leveled(level)
    BY DEF Shape
  <2>2. (\A q \in Nodes : ~Unwritten(q)) /\ Unwritten(new)'
    BY <1>2, <1>10 DEF Unwritten
  <2>3. l[new] > 0
    BY <1>4, <1>8
  <2> QED
    BY <1>1, <1>2, <1>4, <1>5, <1>8, <2>1, <2>2, <2>3, LevelsAfterAdd
<1>12. HeaderOK(l)'
  BY <1>1, <1>2, <1>4, <1>5, <1>8, HeaderAfterAdd DEF Shape
<1>13. MembersOK(l)'
  <2>1. RootOK(l, root_page_id_, height_, page_count)
    BY <1>3, <1>4, <1>8 DEF RootOK, Nodes
  <2> QED
    BY <1>1, <1>2, <1>10, <2>1 DEF MembersOK
<1>14. WayUp(l)'
  BY <1>2, <1>3, <1>6, <1>7, <1>8, WayUpKept
<1>15. SplitOK(l, r)'
  <2>1. split.right_page < new
    BY <1>1, <1>3, NodesInPages DEF WayUp
  <2>2. pages'[page_count' - 1].kind = "internal" /\ l[page_count' - 1] = height_'
    BY <1>1, <1>2, <1>7, <1>8, <1>10 DEF IsInternal
  <2> QED
    BY <1>2, <1>10, <1>14, <2>1, <2>2 DEF SplitOK, IsInternal
<1>16. AtOK'
  BY <1>2 DEF AtOK
<1> QED
  BY <1>6, <1>8, <1>9, <1>11, <1>12, <1>13, <1>15, <1>16 DEF TreeInv, Shape

LEMMA WriteRootTree ==
    ASSUME PagesOK, NEW level \in [Pages -> Nat], NEW rank \in [Pages -> Nat],
           Shape(level, rank), WriteRoot
    PROVE  TreeInv'
<1> DEFINE root == page_count - 1
           content == InternalNode(<<split.separator>>, <<root_page_id_, split.right_page>>)
           C == ChildrenOf(level, root)
<1>1. /\ at = "root" /\ at' = "header" /\ WritePage(root, content)
      /\ root_page_id_' = root /\ height_' = height_ + 1 /\ page_count' = page_count
  BY DEF WriteRoot, WritePage
<1>2. /\ RootOK(level, root_page_id_, height_, page_count - 1) /\ WayUp(level)
      /\ path = <<>> /\ split.right_page < root
      /\ IsInternal(root) /\ level[root] = height_
  BY <1>1 DEF Shape, MembersOK, SplitOK
<1>3. /\ page_count \in Nat /\ height_ \in Nat \ {0} /\ height_ <= page_count - 2
      /\ root_page_id_ \in 1 .. page_count - 2 /\ level[root_page_id_] = height_ - 1
  BY <1>2, NodesInPages DEF RootOK
<1>4. root \in Nodes /\ root_page_id_ \in Nodes /\ ~IsLeaf(root)
  <2>1. root \in Nodes /\ root_page_id_ \in Nodes
    BY <1>3 DEF Nodes
  <2> QED
    BY <1>2, <2>1, NodeKinds
<1>5. split.right_page \in Nodes /\ level[split.right_page] = height_ - 1
  <2>1. /\ split.page \in Nodes /\ split.right_page \in Nodes
        /\ level[split.page] = level[split.right_page]
        /\ Len(path) + level[split.page] = height_ - 1
    BY <1>2 DEF WayUp
  <2>2. Len(path) = 0 /\ level[split.page] \in Nat
    BY <1>2, <2>1, EmptySeq, NodesInPages DEF Shape, Leveled
  <2> QED
    BY <2>1, <2>2
<1>6. root_page_id_ \in C /\ split.right_page \in C
  BY <1>2, <1>3, <1>4, <1>5 DEF ChildrenOf
<1>7. C \in SUBSET (1 .. page_count - 1) /\ C \subseteq Nodes
  BY DEF ChildrenOf, Nodes
<1>8. \A c \in C : c \in Nodes /\ level[c] = level[root] - 1
  BY DEF ChildrenOf
<1> HIDE DEF C, root
<1>9. /\ content = InternalNode(content.keys, content.children)
      /\ content.keys \in Seq(Keys) /\ Len(content.keys) = 1
      /\ content.children \in Seq(C) /\ Len(content.children) = 2
  <2>1. /\ content.keys = <<split.separator>>
        /\ content.children = <<root_page_id_, split.right_page>>
    BY InternalFields
  <2>2. split.separator \in Keys
    BY <1>2 DEF WayUp
  <2>3. content = InternalNode(content.keys, content.children)
    BY <2>1
  <2>4. <<split.separator>> \in Seq(Keys) /\ Len(<<split.separator>>) = 1
    BY <2>2
  <2>5. /\ <<root_page_id_, split.right_page>> \in Seq(C)
        /\ Len(<<root_page_id_, split.right_page>>) = 2
    BY <1>6
  <2> HIDE DEF content
  <2> QED
    BY <2>1, <2>3, <2>4, <2>5
<1> HIDE DEF content
<1>10. /\ InternalOK(content, page_count)
       /\ \A i \in DOMAIN content.children : content.children[i] \in C
  <2>1. Len(content.keys) <= MAX_INTERNAL_KEYS /\ Len(content.children) = Len(content.keys) + 1
    BY <1>9, InternalSizeAssumption
  <2>2. C \in SUBSET (0 .. page_count - 1)
    BY <1>3, <1>7
  <2> QED
    BY <1>3, <1>9, <2>1, <2>2, InternalFromParts
<1>11. Fits(level, root, content)
  BY <1>2, <1>8, <1>10 DEF Fits
<1>12. \A q \in Nodes : q # root => ~Unwritten(q)
  BY <1>1 DEF Unwritten, root
<1>13. PagesOK' /\ Leveled(level)' /\ Ranked(rank)' /\ HeaderOK(level)'
  BY <1>1, <1>4, <1>11, <1>12, WriteKeeps
<1>14. MembersOK(level)'
  <2>1. RootOK(level, root, height_ + 1, page_count)
    BY <1>2, <1>3, <1>4 DEF RootOK, Nodes
  <2> QED
    BY <1>1, <2>1 DEF MembersOK
<1>15. AtOK' /\ SplitOK(level, rank)'
  BY <1>1 DEF AtOK, SplitOK
<1> QED
  BY <1>13, <1>14, <1>15 DEF TreeInv, Shape

-----------------------------------------------------------------------------
(* The theorems of the shape *)

LEMMA InitTree == Init => TreeInv
<1> SUFFICES ASSUME Init PROVE TreeInv
  OBVIOUS
<1> DEFINE zero == [p \in Pages |-> 0]
<1>1. /\ pages = [p \in Pages |-> Blank] /\ page_count = 0
      /\ at = "none" /\ Nodes = {}
  BY DEF Init, Nodes
<1>2. PagesOK /\ AtOK
  BY <1>1, TreePagesAssumption DEF PagesOK, AtOK
<1>3. zero \in [Pages -> Nat]
  OBVIOUS
<1> HIDE DEF zero
<1>4. Leveled(zero) /\ Ranked(zero)
  BY <1>1, <1>3 DEF Leveled, Ranked
<1>5. MembersOK(zero) /\ HeaderOK(zero) /\ SplitOK(zero, zero)
  BY <1>1 DEF MembersOK, HeaderOK, SplitOK
<1> QED
  BY <1>2, <1>3, <1>4, <1>5 DEF TreeInv, Shape

LEMMA StutterTree ==
    ASSUME PagesOK, AtOK, NEW level \in [Pages -> Nat], NEW rank \in [Pages -> Nat],
           Shape(level, rank), UNCHANGED vars
    PROVE  TreeInv'
<1>1. PagesOK' /\ AtOK'
  BY DEF PagesOK, AtOK, Nodes, vars
<1>2. Leveled(level)' /\ Ranked(rank)'
  BY DEF Shape, Leveled, Ranked, Nodes, Unwritten, IsLeaf, IsInternal, vars
<1>3. MembersOK(level)' /\ HeaderOK(level)'
  BY DEF Shape, MembersOK, HeaderOK, vars
<1>4. HalvesAreLeaves(rank)' = HalvesAreLeaves(rank)
  BY DEF HalvesAreLeaves, IsLeaf, vars
<1>5. HalvesAreInternal(level)' = HalvesAreInternal(level)
  BY DEF HalvesAreInternal, IsInternal, Nodes, vars
<1>6. WayUp(level)' = WayUp(level)
  BY DEF WayUp, IsInternal, Nodes, vars
<1>7. SplitOK(level, rank)'
  BY <1>4, <1>5, <1>6 DEF Shape, SplitOK, IsInternal, vars
<1> QED
  BY <1>1, <1>2, <1>3, <1>7 DEF TreeInv, Shape

(* An insertion is called with a key and a RID, and keeps them. *)
LEMMA NextCall == CallOK /\ [Next]_vars => CallOK'
<1> SUFFICES ASSUME CallOK, [Next]_vars PROVE CallOK'
  OBVIOUS
<1>1. ASSUME inserting' \in {inserting, NoInsert, Thrown} PROVE CallOK'
  BY <1>1 DEF CallOK, NoInsert, Thrown
<1>2. ASSUME NEW key \in Keys, NEW rid \in Rids, BeginInsert(key, rid) PROVE CallOK'
  BY <1>2 DEF BeginInsert, NoInsert, CallOK
<1>3. CASE Continues
  <2>1. CASE Inserts
    <3>1. inserting.key \in Keys /\ inserting.rid \in Rids
      BY <2>1 DEF Inserts, Begun, CallOK
    <3>2. CASE InsertInLeaf(inserting.key, inserting.rid)
      BY <1>1, <3>2 DEF InsertInLeaf
    <3>3. CASE SplitLeaf(inserting.key, inserting.rid)
      BY <3>1, <3>3 DEF SplitLeaf, CallOK
    <3> QED
      BY <2>1, <3>2, <3>3 DEF Inserts
  <2>2. CASE ~Inserts
    <3>1. inserting' \in {inserting, NoInsert, Thrown}
      BY <1>3, <2>2 DEF Continues, OpenNew, CreateFirstLeaf, WriteHeader, LoadHeader,
         WriteLeft, WriteRight, InsertInParent, SplitParent, CreateRoot, WriteRoot, Fails
    <3> QED
      BY <1>1, <3>1
  <2> QED
    BY <2>1, <2>2
<1>4. CASE Close
  BY <1>1, <1>4 DEF Close
<1>5. CASE UNCHANGED vars
  BY <1>1, <1>5 DEF vars
<1> QED
  BY <1>2, <1>3, <1>4, <1>5 DEF Next

LEMMA InitCall == Init => CallOK
  BY DEF Init, NoInsert, CallOK

LEMMA NextTree == TreeInv /\ CallOK /\ [Next]_vars => TreeInv'
<1> SUFFICES ASSUME TreeInv, CallOK, [Next]_vars PROVE TreeInv'
  OBVIOUS
<1>1. PagesOK /\ AtOK
  BY DEF TreeInv
<1>2. PICK level, rank \in [Pages -> Nat] : Shape(level, rank)
  BY DEF TreeInv
<1>3. ASSUME NEW key \in Keys, NEW rid \in Rids, BeginInsert(key, rid) PROVE TreeInv'
  BY <1>1, <1>2, <1>3, BeginInsertTree
<1>4. CASE Continues
  <2>1. CASE OpenNew
    BY <1>1, <1>2, <2>1, OpenNewTree
  <2>2. CASE CreateFirstLeaf
    BY <1>1, <1>2, <2>2, CreateFirstLeafTree
  <2>3. CASE WriteHeader
    BY <1>1, <1>2, <2>3, WriteHeaderTree
  <2>4. CASE LoadHeader
    BY <1>1, <1>2, <2>4, LoadHeaderTree
  <2>5. CASE WriteLeft
    BY <1>1, <1>2, <2>5, WriteLeftTree
  <2>6. CASE WriteRight
    BY <1>1, <1>2, <2>6, WriteRightTree
  <2>7. CASE InsertInParent
    BY <1>1, <1>2, <2>7, InsertInParentTree
  <2>8. CASE SplitParent
    BY <1>1, <1>2, <2>8, SplitParentTree
  <2>9. CASE CreateRoot
    BY <1>1, <1>2, <2>9, CreateRootTree
  <2>10. CASE WriteRoot
    BY <1>1, <1>2, <2>10, WriteRootTree
  <2>11. CASE Fails
    BY <1>1, <1>2, <2>11, FailsTree
  <2>12. CASE Inserts
    <3>1. PICK key \in Keys, rid \in Rids : InsertInLeaf(key, rid) \/ SplitLeaf(key, rid)
      BY <2>12 DEF Inserts, Begun, CallOK
    <3> QED
      BY <1>1, <1>2, <3>1, InsertInLeafTree, SplitLeafTree
  <2> QED
    BY <1>4, <2>1, <2>2, <2>3, <2>4, <2>5, <2>6, <2>7, <2>8, <2>9, <2>10, <2>11, <2>12
       DEF Continues
<1>5. CASE Close
  BY <1>1, <1>2, <1>5, CloseTree
<1>6. CASE UNCHANGED vars
  BY <1>1, <1>2, <1>6, StutterTree
<1> QED
  BY <1>3, <1>4, <1>5, <1>6 DEF Next

(* Whatever calls fail, each node of the file has a height, one more than its
   children, and each leaf a place in the order of leaf.next; this holds for
   the nodes that failed calls left behind too (bplus_tree.cpp). *)
THEOREM TreeInvariant == Spec => []TreeInv
<1> QED
  BY InitTree, NextTree, InitCall, NextCall, PTL DEF Spec

(* Every page is the header, blank, or a node that fits in its page, whose
   children are pages of the file (create_leaf, create_internal, write_leaf,
   write_internal). *)
THEOREM TreeTypeOK == Spec => []TypeOK
<1>1. TreeInv => TypeOK
  BY TreeInvGives
<1> QED
  BY <1>1, TreeInvariant, PTL

(* While no insertion runs, every descent from the root ends on a leaf after
   height_ - 1 internal nodes (find_leaf_page, insert). *)
THEOREM TreeBalanced == Spec => []Balanced
<1>1. TreeInv => Balanced
  BY TreeInvGives
<1> QED
  BY <1>1, TreeInvariant, PTL

(* After any sequence of insertions, failed ones among them, every descent
   reaches a leaf and every chain of leaves its end within the pages of the
   file (find_leaf_page, range_scan). *)
THEOREM TreeLoopsEnd == Spec => []LoopsEnd
<1>1. TreeInv => LoopsEnd
  BY TreeInvGives
<1> QED
  BY <1>1, TreeInvariant, PTL

-----------------------------------------------------------------------------
(* The keys of each node *)

Rising(keys) == \A i, j \in DOMAIN keys : i < j => keys[i] < keys[j]

RisingEntries(entries) ==
    \A i, j \in DOMAIN entries : i < j => entries[i].key < entries[j].key

(* Child r of a node with these keys is where the descent to k goes on. *)
Leads(keys, k, r) ==
    /\ r \in 1 .. Len(keys) + 1
    /\ \A i \in 1 .. Len(keys) : i < r <=> keys[i] <= k

(* A leaf with keys of the set D only. *)
LeafIn(node, D, level) ==
    /\ node.kind = "leaf" /\ level = 0
    /\ node.entries \in Seq(Entry) /\ RisingEntries(node.entries)
    /\ \A i \in DOMAIN node.entries : node.entries[i].key \in D

(* An internal node whose separators are in D, not the least of it; the
   children for the keys of D are one level below. *)
InternalIn(node, lv, span, D, level) ==
    /\ node.kind = "internal"
    /\ node.keys \in Seq(Keys) /\ node.children \in Seq(Pages)
    /\ Len(node.children) = Len(node.keys) + 1
    /\ Rising(node.keys)
    /\ \A i \in DOMAIN node.keys : node.keys[i] \in D
    /\ \E k \in D : \A i \in DOMAIN node.keys : k < node.keys[i]
    /\ \A i, j \in DOMAIN node.children : node.children[i] = node.children[j] => i = j
    /\ \A k \in D, r \in DOMAIN node.children :
          Leads(node.keys, k, r) =>
              k \in span[node.children[r]] /\ lv[node.children[r]] = level - 1

NodeIn(node, lv, span, D, level) ==
    LeafIn(node, D, level) \/ InternalIn(node, lv, span, D, level)

(* span[p] is the interval of keys whose descent from root visits p: of two
   pages on one level none of the keys is the same, and below a page there are
   only keys of that page.  A page with no such key is not part of the tree. *)
Tree(pg, lv, root, span) ==
    /\ lv \in [Pages -> Nat] /\ span \in [Pages -> SUBSET Keys]
    /\ root \in Pages /\ span[root] = Keys
    /\ \A p \in Pages : span[p] # {} => lv[p] <= lv[root]
    /\ \A p, q \in Pages : span[p] \cap span[q] # {} =>
          (lv[p] = lv[q] => p = q) /\ (lv[p] < lv[q] => span[p] \subseteq span[q])
    /\ \A p \in Pages : \A x, z \in span[p], y \in Keys : x < y /\ y < z => y \in span[p]
    /\ \A p \in Pages : span[p] # {} => NodeIn(pg[p], lv, span, span[p], lv[p])

(* What a leaf with these entries answers for k. *)
Says(entries, k, answer) ==
    \/ \E i \in DOMAIN entries : entries[i].key = k /\ entries[i].rid = answer
    \/ answer = None /\ \A i \in DOMAIN entries : entries[i].key # k

Answers(pg, span, map) ==
    \A p \in Pages : pg[p].kind = "leaf" =>
        \A k \in span[p] : Says(pg[p].entries, k, map[k])

(* The chain of the leaves: beyond[p] are the keys of the leaves after p, all
   greater than the keys of p, and no greater key is left out.  A leaf that a
   failed split left in the chain has no keys of its own. *)
LeafInChain(pg, span, beyond, p) ==
    /\ pg[p].next = INVALID_PAGE_ID => beyond[p] = {}
    /\ pg[p].next # INVALID_PAGE_ID =>
          /\ pg[p].next \in Pages /\ pg[pg[p].next].kind = "leaf"
          /\ beyond[p] = span[pg[p].next] \cup beyond[pg[p].next]
    /\ \A i \in DOMAIN pg[p].entries : pg[p].entries[i].key \in Keys
    /\ \A l \in beyond[p] : /\ \A k \in span[p] : k < l
                            /\ \A i \in DOMAIN pg[p].entries : pg[p].entries[i].key < l
    /\ \A k \in span[p], l \in Keys : k < l => l \in span[p] \cup beyond[p]

ChainIn(pg, span, beyond) ==
    /\ beyond \in [Pages -> SUBSET Keys]
    /\ \A p \in Pages : pg[p].kind = "leaf" => LeafInChain(pg, span, beyond, p)

Linked(pg, span) == \E beyond : ChainIn(pg, span, beyond)

\* No leaf has this one as its next.
Unlinked(pg, page) == \A p \in Pages : pg[p].kind = "leaf" => pg[p].next # page

\* Both halves are written, and no other leaf differs.
HalvesPut(pg, pg2, S, R, left, right) ==
    /\ pg2[S] = left /\ pg2[R] = right
    /\ \A q \in Pages \ {S, R} : /\ pg2[q].kind = "leaf" <=> pg[q].kind = "leaf"
                                 /\ pg[q].kind = "leaf" => pg2[q] = pg[q]

-----------------------------------------------------------------------------
(* Counting, and the parts of a sequence *)

(* A set of keys with an upper bound has a greatest one. *)
LEMMA GreatestExists ==
    ASSUME NEW T \in SUBSET Int, T # {}, NEW bound \in Int, \A x \in T : x <= bound
    PROVE  \E m \in T : \A x \in T : x <= m
<1> DEFINE D == {bound - x : x \in T}
<1>1. D \subseteq Nat /\ D # {}
  <2>1. \A x \in T : bound - x \in Nat /\ bound - x \in D
    OBVIOUS
  <2> QED
    BY <2>1
<1>2. PICK d \in D : \A e \in D : ~(<<e, d>> \in OpToRel(<, Nat))
  <2> HIDE DEF D
  <2> QED
    BY <1>1, NatLessThanWellFounded, WFMin
<1>3. PICK m \in T : d = bound - m
  OBVIOUS
<1>4. ASSUME NEW x \in T
      PROVE  x <= m
  <2>1. bound - x \in D
    OBVIOUS
  <2>2. ~(bound - x < d)
    BY <1>1, <1>2, <2>1 DEF OpToRel
  <2> QED
    BY <1>3, <2>2
<1> QED
  BY <1>4

(* The places before one that a condition holds for are as many as there are
   of them, when it holds for none after one it does not hold for. *)
LEMMA CountOfSegment ==
    ASSUME NEW n \in Nat, NEW T \in SUBSET (1 .. n),
           \A i \in T, j \in 1 .. n : j < i => j \in T
    PROVE  Cardinality(T) \in 0 .. n /\ T = 1 .. Cardinality(T)
<1>1. Cardinality(T) \in 0 .. n
  BY CountInRange
<1>2. CASE T = {}
  <2>1. Cardinality(T) = 0
    BY <1>2, FS_EmptySet
  <2> QED
    BY <1>1, <1>2, <2>1
<1>3. CASE T # {}
  <2>1. PICK m \in T : \A x \in T : x <= m
    <3>1. T \in SUBSET Int /\ n \in Int /\ \A x \in T : x <= n
      OBVIOUS
    <3> QED
      BY <1>3, <3>1, GreatestExists
  <2>2. T = 1 .. m
    <3>1. m \in 1 .. n
      OBVIOUS
    <3>2. ASSUME NEW j \in 1 .. m
          PROVE  j \in T
      <4>1. j = m \/ j < m
        BY <3>1
      <4> QED
        BY <3>1, <4>1
    <3>3. \A x \in T : x \in 1 .. m
      BY <2>1, <3>1
    <3> QED
      BY <3>2, <3>3
  <2>3. Cardinality(1 .. m) = IF 1 > m THEN 0 ELSE m - 1 + 1
    BY <2>1, FS_Interval
  <2>4. Cardinality(T) = m
    BY <2>1, <2>2, <2>3
  <2> QED
    BY <1>1, <2>2, <2>4
<1> QED
  BY <1>2, <1>3

(* Where the elements are after InsertAt. *)
LEMMA InsertAtElements ==
    ASSUME NEW S, NEW s \in Seq(S), NEW n \in 1 .. Len(s) + 1, NEW e \in S
    PROVE  LET t == InsertAt(s, n, e)
           IN  /\ t \in Seq(S) /\ Len(t) = Len(s) + 1
               /\ t[n] = e
               /\ \A i \in 1 .. n - 1 : t[i] = s[i]
               /\ \A i \in n .. Len(s) : t[i + 1] = s[i]
<1>1. Len(s) \in Nat
  BY LenProperties
<1> DEFINE front == SubSeq(s, 1, n - 1)
           back == SubSeq(s, n, Len(s))
           one == <<e>>
           begun == front \o one
           all == begun \o back
<1>2. /\ front \in Seq(S) /\ Len(front) = n - 1
      /\ \A i \in 1 .. n - 1 : front[i] = s[i]
  <2>1. 1 \in 1 .. Len(s) + 1 /\ n - 1 \in 1 - 1 .. Len(s)
    BY <1>1
  <2>2. /\ front \in Seq(S) /\ Len(front) = n - 1 - 1 + 1
        /\ \A i \in 1 .. n - 1 - 1 + 1 : front[i] = s[1 + i - 1]
    BY <2>1, PartOfSeq
  <2> HIDE DEF front
  <2> QED
    BY <1>1, <2>2
<1>3. /\ back \in Seq(S) /\ Len(back) = Len(s) - n + 1
      /\ \A i \in 1 .. Len(s) - n + 1 : back[i] = s[n + i - 1]
  <2>1. Len(s) \in n - 1 .. Len(s)
    BY <1>1
  <2> QED
    BY <2>1, PartOfSeq
<1>4. one \in Seq(S) /\ Len(one) = 1 /\ one[1] = e
  OBVIOUS
<1> HIDE DEF front, back, one
<1>5. /\ begun \in Seq(S) /\ Len(begun) = n
      /\ \A i \in 1 .. n - 1 : begun[i] = s[i]
      /\ begun[n] = e
  <2>1. /\ begun \in Seq(S) /\ Len(begun) = Len(front) + Len(one)
        /\ \A i \in 1 .. Len(front) + Len(one) :
              begun[i] = IF i <= Len(front) THEN front[i] ELSE one[i - Len(front)]
    BY <1>2, <1>4, ConcatProperties
  <2> QED
    BY <1>1, <1>2, <1>4, <2>1
<1> HIDE DEF begun
<1>6. /\ all \in Seq(S) /\ Len(all) = Len(begun) + Len(back)
      /\ \A i \in 1 .. Len(begun) + Len(back) :
            all[i] = IF i <= Len(begun) THEN begun[i] ELSE back[i - Len(begun)]
  BY <1>3, <1>5, ConcatProperties
<1>7. InsertAt(s, n, e) = all
  BY DEF InsertAt, front, one, back, begun
<1> HIDE DEF all
<1>8. Len(all) = Len(s) + 1
  BY <1>1, <1>3, <1>5, <1>6
<1>9. all[n] = e /\ \A i \in 1 .. n - 1 : all[i] = s[i]
  <2>1. \A i \in 1 .. n : i \in 1 .. n + (Len(s) - n + 1) /\ i <= n
    BY <1>1
  <2>2. \A i \in 1 .. n : all[i] = begun[i]
    BY <1>3, <1>5, <1>6, <2>1
  <2>3. n \in 1 .. n /\ \A i \in 1 .. n - 1 : i \in 1 .. n
    BY <1>1
  <2> QED
    BY <1>5, <2>2, <2>3
<1>10. ASSUME NEW i \in n .. Len(s)
       PROVE  all[i + 1] = s[i]
  <2>1. i + 1 \in 1 .. n + (Len(s) - n + 1) /\ ~(i + 1 <= n)
    BY <1>1
  <2>2. all[i + 1] = back[i + 1 - n]
    BY <1>3, <1>5, <1>6, <2>1
  <2>3. i + 1 - n \in 1 .. Len(s) - n + 1 /\ n + (i + 1 - n) - 1 = i
    BY <1>1
  <2> QED
    BY <1>3, <2>2, <2>3
<1> QED
  BY <1>6, <1>7, <1>8, <1>9, <1>10

(* t is s with e inserted at n. *)
Inserted(t, S, s, n, e) ==
    /\ t \in Seq(S) /\ Len(t) = Len(s) + 1
    /\ t[n] = e
    /\ \A i \in 1 .. n - 1 : t[i] = s[i]
    /\ \A i \in n .. Len(s) : t[i + 1] = s[i]

LEMMA InsertAtInserts ==
    ASSUME NEW S, NEW s \in Seq(S), NEW n \in 1 .. Len(s) + 1, NEW e \in S
    PROVE  Inserted(InsertAt(s, n, e), S, s, n, e)
BY InsertAtElements DEF Inserted

-----------------------------------------------------------------------------
(* Where a key belongs in a node *)

LEMMA KeysAreInts == \A s \in Seq(Keys) : Len(s) \in Nat /\ DOMAIN s = 1 .. Len(s)
                                           /\ \A i \in 1 .. Len(s) : s[i] \in Keys /\ s[i] \in Int
  BY KeysAssumption, LenProperties, ElementOfSeq

LEMMA EntriesHaveKeys ==
    \A s \in Seq(Entry) : /\ Len(s) \in Nat /\ DOMAIN s = 1 .. Len(s)
                          /\ \A i \in 1 .. Len(s) : /\ s[i] \in Entry /\ s[i].rid \in Rids
                                                    /\ s[i].key \in Keys /\ s[i].key \in Int
<1>1. ASSUME NEW s \in Seq(Entry), NEW i \in 1 .. Len(s)
      PROVE  s[i] \in Entry
  BY <1>1, ElementOfSeq
<1>2. \A e \in Entry : e.rid \in Rids /\ e.key \in Keys /\ e.key \in Int
  BY KeysAssumption DEF Entry
<1>3. \A s \in Seq(Entry) : Len(s) \in Nat /\ DOMAIN s = 1 .. Len(s)
  BY LenProperties
<1> QED
  BY <1>1, <1>2, <1>3

(* find_leaf_page and insert_into_internal count the separators up to a key in
   different ways; with rising separators both find the child it leads to. *)
LEMMA LeadsToChild ==
    ASSUME NEW keys \in Seq(Keys), Rising(keys), NEW k \in Keys
    PROVE  /\ upper_bound(keys, k) \in 0 .. Len(keys)
           /\ child_index(keys, k) = upper_bound(keys, k)
           /\ Leads(keys, k, upper_bound(keys, k) + 1)
<1> DEFINE n == Len(keys)
           T == {i \in DOMAIN keys : keys[i] <= k}
<1>1. n \in Nat /\ DOMAIN keys = 1 .. n /\ k \in Int /\ \A i \in 1 .. n : keys[i] \in Int
  BY KeysAreInts, KeysAssumption
<1>2. \A i, j \in 1 .. n : i < j => keys[i] < keys[j]
  BY <1>1 DEF Rising
<1>3. T \in SUBSET (1 .. n) /\ \A i \in T, j \in 1 .. n : j < i => j \in T
  BY <1>1, <1>2
<1> HIDE DEF n
<1>4. Cardinality(T) \in 0 .. n /\ T = 1 .. Cardinality(T)
  BY <1>1, <1>3, CountOfSegment
<1>5. {i \in DOMAIN keys : \A j \in 1 .. i : keys[j] <= k} = T
  <2>1. ASSUME NEW i \in T
        PROVE  \A j \in 1 .. i : keys[j] <= k
    BY <1>1, <1>3
  <2> QED
    BY <1>1, <2>1
<1>6. upper_bound(keys, k) = Cardinality(T) /\ child_index(keys, k) = Cardinality(T)
  BY <1>5 DEF upper_bound, child_index
<1>7. \A i \in 1 .. n : i < Cardinality(T) + 1 <=> keys[i] <= k
  <2>1. \A i \in 1 .. n : i \in T <=> keys[i] <= k
    BY <1>1
  <2> HIDE DEF T
  <2>2. \A i \in 1 .. n : i \in T <=> i < Cardinality(T) + 1
    BY <1>1, <1>4
  <2> QED
    BY <2>1, <2>2
<1> QED
  BY <1>1, <1>4, <1>6, <1>7 DEF Leads, n

(* ... and there is one such child only. *)
LEMMA LeadsOnce ==
    ASSUME NEW keys \in Seq(Keys), NEW k, NEW r, NEW q, Leads(keys, k, r), Leads(keys, k, q)
    PROVE  r = q
<1>1. Len(keys) \in Nat
  BY KeysAreInts
<1>2. CASE r < q
  <2>1. r \in 1 .. Len(keys) /\ r < q /\ ~(r < r)
    BY <1>1, <1>2 DEF Leads
  <2> QED
    BY <2>1 DEF Leads
<1>3. CASE q < r
  <2>1. q \in 1 .. Len(keys) /\ q < r /\ ~(q < q)
    BY <1>1, <1>3 DEF Leads
  <2> QED
    BY <2>1 DEF Leads
<1> QED
  BY <1>1, <1>2, <1>3 DEF Leads

(* std::lower_bound divides the entries into smaller keys and the rest. *)
LEMMA LowerBound ==
    ASSUME NEW entries \in Seq(Entry), RisingEntries(entries), NEW k \in Keys
    PROVE  /\ lower_bound(entries, k) \in 1 .. Len(entries) + 1
           /\ \A i \in 1 .. Len(entries) : i < lower_bound(entries, k) <=> entries[i].key < k
<1> DEFINE n == Len(entries)
           T == {i \in DOMAIN entries : entries[i].key < k}
<1>1. n \in Nat /\ DOMAIN entries = 1 .. n /\ k \in Int /\ \A i \in 1 .. n : entries[i].key \in Int
  BY EntriesHaveKeys, KeysAssumption
<1>2. \A i, j \in 1 .. n : i < j => entries[i].key < entries[j].key
  BY <1>1 DEF RisingEntries
<1>3. T \in SUBSET (1 .. n) /\ \A i \in T, j \in 1 .. n : j < i => j \in T
  BY <1>1, <1>2
<1> HIDE DEF n
<1>4. Cardinality(T) \in 0 .. n /\ T = 1 .. Cardinality(T)
  BY <1>1, <1>3, CountOfSegment
<1>5. lower_bound(entries, k) = Cardinality(T) + 1
  BY DEF lower_bound
<1>6. \A i \in 1 .. n : i < Cardinality(T) + 1 <=> entries[i].key < k
  <2>1. \A i \in 1 .. n : i \in T <=> entries[i].key < k
    BY <1>1
  <2> HIDE DEF T
  <2>2. \A i \in 1 .. n : i \in T <=> i < Cardinality(T) + 1
    BY <1>1, <1>4
  <2> QED
    BY <2>1, <2>2
<1> QED
  BY <1>1, <1>4, <1>5, <1>6 DEF n

(* An entry that is put into a leaf is the answer for its key, and the others
   stay; an entry of a key of the leaf's keeps it a leaf of the tree. *)
LEMMA PutEntryAnswers ==
    ASSUME NEW entries \in Seq(Entry), RisingEntries(entries), NEW key \in Keys, NEW rid \in Rids
    PROVE  LET put == PutEntry(entries, key, rid)
           IN  /\ put \in Seq(Entry) /\ RisingEntries(put)
               /\ \A i \in DOMAIN put :
                     put[i].key = key \/ \E j \in DOMAIN entries : put[i].key = entries[j].key
               /\ Says(put, key, rid)
               /\ \A answer : \A k \in Keys \ {key} :
                     Says(entries, k, answer) => Says(put, k, answer)
<1> DEFINE l == lower_bound(entries, key)
           n == Len(entries)
           entry == [key |-> key, rid |-> rid]
           put == PutEntry(entries, key, rid)
<1>1. /\ n \in Nat /\ DOMAIN entries = 1 .. n /\ key \in Int
      /\ \A i \in 1 .. n : entries[i] \in Entry /\ entries[i].key \in Int
      /\ \A i, j \in 1 .. n : i < j => entries[i].key < entries[j].key
  BY EntriesHaveKeys, KeysAssumption DEF RisingEntries
<1>2. l \in 1 .. n + 1 /\ \A i \in 1 .. n : i < l <=> entries[i].key < key
  BY LowerBound
<1>3. put \in Seq(Entry)
  BY PutEntryProperties
<1>4. entry \in Entry /\ entry.key = key /\ entry.rid = rid
  BY DEF Entry
<1>5. put = IF l <= n /\ entries[l].key = key
            THEN [entries EXCEPT ![l].rid = rid] ELSE InsertAt(entries, l, entry)
  BY DEF PutEntry
<1> HIDE DEF l, n, entry, put
<1>6. CASE l <= n /\ entries[l].key = key
  <2>1. /\ l \in 1 .. n /\ entries[l] \in [key : Keys, rid : Rids]
        /\ DOMAIN put = 1 .. n
        /\ put[l].key = key /\ put[l].rid = rid
        /\ \A i \in 1 .. n : i # l => put[i] = entries[i]
    BY <1>1, <1>2, <1>5, <1>6 DEF Entry
  <2>2. \A i \in 1 .. n : put[i].key = entries[i].key
    BY <1>6, <2>1
  <2>3. RisingEntries(put)
    BY <1>1, <2>1, <2>2 DEF RisingEntries
  <2>4. Says(put, key, rid)
    BY <2>1 DEF Says
  <2>5. ASSUME NEW k \in Keys \ {key}, NEW answer, Says(entries, k, answer)
        PROVE  Says(put, k, answer)
    BY <1>1, <1>6, <2>1, <2>2, <2>5 DEF Says
  <2> QED
    BY <1>1, <1>3, <2>1, <2>2, <2>3, <2>4, <2>5 DEF put
<1>7. CASE ~(l <= n /\ entries[l].key = key)
  <2>1. put = InsertAt(entries, l, entry)
    BY <1>5, <1>7
  <2>2. /\ Len(put) = n + 1 /\ put[l] = entry
        /\ \A i \in 1 .. l - 1 : put[i] = entries[i]
        /\ \A i \in l .. n : put[i + 1] = entries[i]
    BY <1>2, <1>4, <2>1, InsertAtElements DEF n
  <2>3. DOMAIN put = 1 .. n + 1
    BY <1>3, <2>2, EntriesHaveKeys
  <2>4. ASSUME NEW i \in 1 .. n + 1, i # l
        PROVE  \E j \in 1 .. n : put[i] = entries[j] /\ j = IF i < l THEN i ELSE i - 1
    <3>1. CASE i < l
      <4>1. i \in 1 .. l - 1 /\ i \in 1 .. n
        BY <1>1, <1>2, <3>1
      <4> QED
        BY <2>2, <3>1, <4>1
    <3>2. CASE i > l
      <4>1. i - 1 \in l .. n /\ i - 1 \in 1 .. n /\ i - 1 + 1 = i /\ ~(i < l)
        BY <1>1, <1>2, <3>2
      <4>2. put[i - 1 + 1] = entries[i - 1]
        BY <2>2, <4>1
      <4> QED
        BY <4>1, <4>2
    <3> QED
      BY <1>1, <1>2, <2>4, <3>1, <3>2
  <2>5. \A i \in l .. n : entries[i].key > key
    <3>1. ASSUME NEW i \in l .. n
          PROVE  entries[i].key > key
      <4>1. l \in 1 .. n /\ i \in 1 .. n
        BY <1>1, <1>2
      <4>2. entries[l].key > key
        BY <1>1, <1>2, <1>7, <4>1
      <4> QED
        BY <1>1, <4>1, <4>2
    <3> QED
      BY <3>1
  <2>6. ASSUME NEW i \in 1 .. n + 1, NEW j \in 1 .. n + 1, i < j
        PROVE  put[i].key < put[j].key
    <3>1. CASE i = l
      <4>1. j # l
        BY <1>1, <1>2, <2>6, <3>1
      <4>2. PICK b \in 1 .. n : put[j] = entries[b] /\ b = IF j < l THEN j ELSE j - 1
        BY <2>4, <4>1
      <4>3. b \in l .. n
        BY <1>1, <1>2, <2>6, <3>1, <4>2
      <4> QED
        BY <1>1, <1>4, <2>2, <2>5, <3>1, <4>2, <4>3
    <3>2. CASE j = l
      <4>1. PICK a \in 1 .. n : put[i] = entries[a] /\ a = i
        BY <2>4, <2>6, <3>2
      <4>2. entries[a].key < key
        BY <1>2, <2>6, <3>2, <4>1
      <4> QED
        BY <1>4, <2>2, <3>2, <4>1, <4>2
    <3>3. CASE i # l /\ j # l
      <4>1. PICK a \in 1 .. n : put[i] = entries[a] /\ a = IF i < l THEN i ELSE i - 1
        BY <2>4, <3>3
      <4>2. PICK b \in 1 .. n : put[j] = entries[b] /\ b = IF j < l THEN j ELSE j - 1
        BY <2>4, <3>3
      <4>3. a < b
        BY <1>1, <1>2, <2>6, <3>3, <4>1, <4>2
      <4> QED
        BY <1>1, <4>1, <4>2, <4>3
    <3> QED
      BY <3>1, <3>2, <3>3
  <2>7. \A i \in 1 .. n + 1 : put[i].key = key \/ \E j \in 1 .. n : put[i].key = entries[j].key
    BY <1>4, <2>2, <2>4
  <2>8. Says(put, key, rid)
    <3>1. l \in DOMAIN put /\ put[l].key = key /\ put[l].rid = rid
      BY <1>2, <1>4, <2>2, <2>3
    <3> QED
      BY <3>1 DEF Says
  <2>9. ASSUME NEW k \in Keys \ {key}, NEW answer, Says(entries, k, answer)
        PROVE  Says(put, k, answer)
    <3>1. CASE \E i \in 1 .. n : entries[i].key = k /\ entries[i].rid = answer
      <4>1. PICK i \in 1 .. n : entries[i].key = k /\ entries[i].rid = answer
        BY <3>1
      <4>2. \E j \in 1 .. n + 1 : put[j] = entries[i]
        <5>1. CASE i < l
          <6>1. i \in 1 .. l - 1 /\ i \in 1 .. n + 1
            BY <1>1, <1>2, <5>1
          <6> QED
            BY <2>2, <6>1
        <5>2. CASE i >= l
          <6>1. i \in l .. n /\ i + 1 \in 1 .. n + 1
            BY <1>1, <1>2, <5>2
          <6> QED
            BY <2>2, <6>1
        <5> QED
          BY <1>1, <1>2, <5>1, <5>2
      <4> QED
        BY <2>3, <4>1, <4>2 DEF Says
    <3>2. CASE answer = None /\ \A i \in 1 .. n : entries[i].key # k
      <4>1. \A i \in 1 .. n + 1 : put[i].key # k
        BY <2>7, <3>2
      <4> QED
        BY <2>3, <3>2, <4>1 DEF Says
    <3> QED
      BY <1>1, <2>9, <3>1, <3>2 DEF Says
  <2>10. RisingEntries(put)
    BY <2>3, <2>6 DEF RisingEntries
  <2> QED
    BY <1>1, <1>3, <2>3, <2>7, <2>8, <2>9, <2>10 DEF put
<1> QED
  BY <1>6, <1>7

(* A leaf has one answer for a key. *)
LEMMA SaysOnce ==
    ASSUME NEW entries \in Seq(Entry), RisingEntries(entries), NEW k, NEW a, NEW b,
           Says(entries, k, a), Says(entries, k, b)
    PROVE  a = b
<1>1. ASSUME NEW i \in DOMAIN entries, NEW j \in DOMAIN entries,
             entries[i].key = k, entries[j].key = k
      PROVE  i = j
  <2>1. /\ i \in Nat /\ j \in Nat /\ entries[i].key \in Int /\ entries[j].key \in Int
    BY EntriesHaveKeys
  <2> QED
    BY <1>1, <2>1 DEF RisingEntries
<1>2. \A i \in DOMAIN entries : entries[i].rid \in Rids
  BY EntriesHaveKeys
<1> QED
  BY <1>1, <1>2, NoneAssumption DEF Says

-----------------------------------------------------------------------------
(* A node that is split *)

Halves(whole, left, right, separator) ==
    \/ /\ whole.kind = "leaf" /\ Len(whole.entries) = MAX_LEAF_ENTRIES + 1
       /\ left.kind = "leaf" /\ left.entries = Left(whole.entries)
       /\ right.kind = "leaf" /\ right.entries = Right(whole.entries)
       /\ separator = Right(whole.entries)[1].key
    \/ /\ whole.kind = "internal" /\ Len(whole.keys) = MAX_INTERNAL_KEYS + 1
       /\ left = LeftInternal(whole) /\ right = RightInternal(whole)
       /\ separator = promoted(whole)

Lower(D, separator) == {k \in D : k < separator}

Upper(D, separator) == {k \in D : separator <= k}

(* The halves of a leaf: the separator is the least key of the right one. *)
LEMMA LeafHalvesIn ==
    ASSUME NEW D \in SUBSET Keys, NEW level, NEW whole, LeafIn(whole, D, level),
           NEW left, NEW right, NEW separator, Halves(whole, left, right, separator)
    PROVE  /\ separator \in D /\ \E k \in D : k < separator
           /\ LeafIn(left, Lower(D, separator), level)
           /\ LeafIn(right, Upper(D, separator), level)
           /\ \A answer : \A k \in D : Says(whole.entries, k, answer) =>
                 /\ k < separator => Says(left.entries, k, answer)
                 /\ separator <= k => Says(right.entries, k, answer)
<1> DEFINE s == whole.entries
           n == Len(s)
           m == n \div 2
           a == left.entries
           b == right.entries
<1>1. /\ s \in Seq(Entry) /\ n = MAX_LEAF_ENTRIES + 1
      /\ a = SubSeq(s, 1, m) /\ b = SubSeq(s, m + 1, n) /\ separator = b[1].key
      /\ left.kind = "leaf" /\ right.kind = "leaf" /\ level = 0
  BY DEF LeafIn, Halves, Left, Right
<1>2. n \in Nat /\ n >= 2 /\ m \in Nat /\ 1 <= m /\ m < n
  BY <1>1, LeafSizeAssumption, SMTT(30)
<1>3. /\ DOMAIN s = 1 .. n /\ \A i \in 1 .. n : s[i] \in Entry /\ s[i].key \in D /\ s[i].key \in Int
      /\ \A i, j \in 1 .. n : i < j => s[i].key < s[j].key
  BY <1>1, EntriesHaveKeys DEF LeafIn, RisingEntries
<1> HIDE DEF m, n
<1>4. /\ a \in Seq(Entry) /\ DOMAIN a = 1 .. m /\ \A i \in 1 .. m : a[i] = s[i]
  <2>1. 1 \in 1 .. n + 1 /\ m \in 1 - 1 .. n
    BY <1>2
  <2>2. /\ a \in Seq(Entry) /\ Len(a) = m - 1 + 1
        /\ \A i \in 1 .. m - 1 + 1 : a[i] = s[1 + i - 1]
    BY <1>1, <2>1, PartOfSeq DEF n
  <2>3. m - 1 + 1 = m /\ \A i \in 1 .. m : 1 + i - 1 = i
    BY <1>2
  <2> QED
    BY <2>2, <2>3, EntriesHaveKeys
<1>5. /\ b \in Seq(Entry) /\ DOMAIN b = 1 .. n - m /\ \A i \in 1 .. n - m : b[i] = s[m + i]
  <2>1. m + 1 \in 1 .. n + 1 /\ n \in m + 1 - 1 .. n
    BY <1>2
  <2>2. /\ b \in Seq(Entry) /\ Len(b) = n - (m + 1) + 1
        /\ \A i \in 1 .. n - (m + 1) + 1 : b[i] = s[m + 1 + i - 1]
    BY <1>1, <2>1, PartOfSeq, SMTT(30) DEF n
  <2>3. n - (m + 1) + 1 = n - m /\ \A i \in 1 .. n - m : m + 1 + i - 1 = m + i
    BY <1>2
  <2> QED
    BY <2>2, <2>3, EntriesHaveKeys
<1> HIDE DEF s, a, b
<1>6. separator = s[m + 1].key /\ m + 1 \in 1 .. n
  BY <1>1, <1>2, <1>5
<1>7. /\ separator \in D /\ \E k \in D : k < separator
  <2>1. 1 \in 1 .. n /\ 1 < m + 1
    BY <1>2
  <2> QED
    BY <1>3, <1>6, <2>1
<1>8. \A i \in 1 .. m : i \in 1 .. n /\ i < m + 1 /\ s[i].key < separator
  <2>1. \A i \in 1 .. m : i \in 1 .. n /\ i < m + 1
    BY <1>2
  <2> QED
    BY <1>3, <1>6, <2>1
<1>9. \A i \in 1 .. n - m : m + i \in 1 .. n /\ separator <= s[m + i].key
  <2>1. \A i \in 1 .. n - m : m + i \in 1 .. n /\ (i = 1 \/ m + 1 < m + i)
    BY <1>2
  <2> QED
    BY <1>3, <1>6, <2>1
<1>10. LeafIn(left, Lower(D, separator), level)
  <2>1. RisingEntries(a)
    <3>1. ASSUME NEW i \in 1 .. m, NEW j \in 1 .. m, i < j
          PROVE  a[i].key < a[j].key
      BY <1>3, <1>4, <1>8, <3>1
    <3> QED
      BY <1>4, <3>1 DEF RisingEntries
  <2>2. \A i \in DOMAIN a : a[i].key \in Lower(D, separator)
    BY <1>3, <1>4, <1>8 DEF Lower
  <2> QED
    BY <1>1, <1>4, <2>1, <2>2 DEF LeafIn, a
<1>11. LeafIn(right, Upper(D, separator), level)
  <2>1. RisingEntries(b)
    <3>1. ASSUME NEW i \in 1 .. n - m, NEW j \in 1 .. n - m, i < j
          PROVE  b[i].key < b[j].key
      <4>1. m + i \in 1 .. n /\ m + j \in 1 .. n /\ m + i < m + j
        BY <1>2, <1>9, <3>1
      <4>2. b[i] = s[m + i] /\ b[j] = s[m + j]
        BY <1>5
      <4> QED
        BY <1>3, <4>1, <4>2
    <3> QED
      BY <1>5, <3>1 DEF RisingEntries
  <2>2. \A i \in DOMAIN b : b[i].key \in Upper(D, separator)
    BY <1>3, <1>5, <1>9 DEF Upper
  <2> QED
    BY <1>1, <1>5, <2>1, <2>2 DEF LeafIn, b
<1>12. ASSUME NEW k \in D, NEW answer, Says(s, k, answer)
       PROVE  /\ k < separator => Says(a, k, answer)
              /\ separator <= k => Says(b, k, answer)
  <2>1. CASE \E i \in 1 .. n : s[i].key = k /\ s[i].rid = answer
    <3>1. PICK i \in 1 .. n : s[i].key = k /\ s[i].rid = answer
      BY <2>1
    <3>2. CASE i <= m
      <4>1. i \in 1 .. m
        BY <1>2, <3>2
      <4>2. k < separator /\ a[i] = s[i] /\ ~(separator <= k)
        BY <1>3, <1>4, <1>6, <1>8, <3>1, <4>1
      <4> QED
        BY <1>4, <3>1, <4>1, <4>2 DEF Says
    <3>3. CASE i > m
      <4>1. i - m \in 1 .. n - m /\ m + (i - m) = i
        BY <1>2, <3>3
      <4>2. b[i - m] = s[i] /\ separator <= s[i].key
        BY <1>5, <1>9, <4>1
      <4>3. ~(k < separator)
        BY <1>3, <1>6, <3>1, <4>2
      <4> QED
        BY <1>5, <3>1, <4>1, <4>2, <4>3 DEF Says
    <3> QED
      BY <1>2, <3>2, <3>3
  <2>2. CASE answer = None /\ \A i \in 1 .. n : s[i].key # k
    <3>1. /\ \A i \in DOMAIN a : a[i].key # k
          /\ \A i \in DOMAIN b : b[i].key # k
      BY <1>4, <1>5, <1>8, <1>9, <2>2
    <3> QED
      BY <2>2, <3>1 DEF Says
  <2> QED
    BY <1>3, <1>12, <2>1, <2>2 DEF Says
<1> QED
  BY <1>7, <1>10, <1>11, <1>12 DEF s, a, b

(* The halves of an internal node: the promoted key is in neither. *)
LEMMA InternalHalvesIn ==
    ASSUME NEW D \in SUBSET Keys, NEW level, NEW lv, NEW span, NEW whole,
           InternalIn(whole, lv, span, D, level),
           NEW left, NEW right, NEW separator, Halves(whole, left, right, separator)
    PROVE  /\ separator \in D /\ \E k \in D : k < separator
           /\ InternalIn(left, lv, span, Lower(D, separator), level)
           /\ InternalIn(right, lv, span, Upper(D, separator), level)
<1> DEFINE s == whole.keys
           c == whole.children
           n == Len(s)
           m == n \div 2 + 1
           a == left.keys
           ac == left.children
           b == right.keys
           bc == right.children
<1>1. /\ s \in Seq(Keys) /\ c \in Seq(Pages) /\ n = MAX_INTERNAL_KEYS + 1 /\ Len(c) = n + 1
      /\ a = SubSeq(s, 1, m - 1) /\ ac = SubSeq(c, 1, m)
      /\ b = SubSeq(s, m + 1, n) /\ bc = SubSeq(c, m + 1, Len(c)) /\ separator = s[m]
      /\ left.kind = "internal" /\ right.kind = "internal"
  <2>1. s \in Seq(Keys) /\ c \in Seq(Pages) /\ Len(c) = n + 1 /\ whole.kind = "internal"
    BY DEF InternalIn
  <2>2. /\ n = MAX_INTERNAL_KEYS + 1
        /\ left = LeftInternal(whole) /\ right = RightInternal(whole)
        /\ separator = promoted(whole)
    BY <2>1 DEF Halves
  <2>3. middle(whole) = m /\ separator = s[m]
    BY <2>2 DEF middle, promoted
  <2>4. /\ left = InternalNode(SubSeq(s, 1, m - 1), SubSeq(c, 1, m))
        /\ right = InternalNode(SubSeq(s, m + 1, n), SubSeq(c, m + 1, Len(c)))
    BY <2>2, <2>3 DEF LeftInternal, RightInternal
  <2> HIDE DEF s, c, n, m
  <2>5. /\ left.keys = SubSeq(s, 1, m - 1) /\ left.children = SubSeq(c, 1, m)
        /\ left.kind = "internal"
    BY <2>4, InternalFields
  <2>6. /\ right.keys = SubSeq(s, m + 1, n) /\ right.children = SubSeq(c, m + 1, Len(c))
        /\ right.kind = "internal"
    BY <2>4, InternalFields
  <2> QED
    BY <2>1, <2>2, <2>3, <2>5, <2>6
<1>2. n \in Nat /\ n >= 3 /\ m \in Nat /\ 2 <= m /\ m <= n
  BY <1>1, InternalSizeAssumption
<1>3. /\ DOMAIN s = 1 .. n /\ \A i \in 1 .. n : s[i] \in Keys /\ s[i] \in D /\ s[i] \in Int
      /\ DOMAIN c = 1 .. n + 1
  <2>1. DOMAIN s = 1 .. n /\ \A i \in 1 .. n : s[i] \in Keys /\ s[i] \in Int
    BY <1>1, KeysAreInts
  <2>2. DOMAIN c = 1 .. n + 1
    BY <1>1, LenProperties
  <2>3. \A i \in DOMAIN s : s[i] \in D
    BY DEF InternalIn
  <2> QED
    BY <2>1, <2>2, <2>3
<1>4. /\ \A i, j \in 1 .. n : i < j => s[i] < s[j]
      /\ \A i, j \in 1 .. n + 1 : c[i] = c[j] => i = j
  BY <1>3 DEF InternalIn, Rising
<1>5. \A k \in D, r \in 1 .. n + 1 : Leads(s, k, r) => k \in span[c[r]] /\ lv[c[r]] = level - 1
  BY <1>3 DEF InternalIn
<1>6. s \in Seq(Keys) /\ n = Len(s) /\ b = SubSeq(s, m + 1, n)
  BY <1>1
<1>7. c \in Seq(Pages) /\ Len(c) = n + 1 /\ bc = SubSeq(c, m + 1, Len(c))
  BY <1>1
<1>8. PICK least \in D : \A i \in 1 .. n : least < s[i]
  BY <1>3 DEF InternalIn
<1> HIDE DEF m, n
<1>9. /\ a \in Seq(Keys) /\ Len(a) = m - 1 /\ DOMAIN a = 1 .. m - 1
      /\ \A i \in 1 .. m - 1 : a[i] = s[i]
  <2>1. 1 \in 1 .. n + 1 /\ m - 1 \in 1 - 1 .. n
    BY <1>2
  <2>2. /\ a \in Seq(Keys) /\ Len(a) = m - 1 - 1 + 1
        /\ \A i \in 1 .. m - 1 - 1 + 1 : a[i] = s[1 + i - 1]
    BY <1>1, <2>1, PartOfSeq DEF n
  <2>3. m - 1 - 1 + 1 = m - 1 /\ \A i \in 1 .. m - 1 : 1 + i - 1 = i
    BY <1>2
  <2> QED
    BY <2>2, <2>3, KeysAreInts
<1>10. /\ ac \in Seq(Pages) /\ Len(ac) = m /\ DOMAIN ac = 1 .. m
      /\ \A i \in 1 .. m : ac[i] = c[i]
  <2>1. 1 \in 1 .. Len(c) + 1 /\ m \in 1 - 1 .. Len(c)
    BY <1>1, <1>2, SMTT(30)
  <2>2. /\ ac \in Seq(Pages) /\ Len(ac) = m - 1 + 1
        /\ \A i \in 1 .. m - 1 + 1 : ac[i] = c[1 + i - 1]
    BY <1>1, <2>1, PartOfSeq
  <2>3. m - 1 + 1 = m /\ \A i \in 1 .. m : 1 + i - 1 = i
    BY <1>2
  <2> QED
    BY <2>2, <2>3, LenProperties
<1>11. /\ b \in Seq(Keys) /\ Len(b) = n - m /\ DOMAIN b = 1 .. n - m
      /\ \A i \in 1 .. n - m : b[i] = s[m + i]
  <2>1. m + 1 \in 1 .. n + 1 /\ n \in m + 1 - 1 .. n
    BY <1>2
  <2>2. /\ b \in Seq(Keys) /\ Len(b) = n - (m + 1) + 1
        /\ \A i \in 1 .. n - (m + 1) + 1 : b[i] = s[m + 1 + i - 1]
    BY <1>6, <2>1, PartOfSeq, SMTT(30)
  <2>3. n - (m + 1) + 1 = n - m /\ \A i \in 1 .. n - m : m + 1 + i - 1 = m + i
    BY <1>2
  <2> QED
    BY <2>2, <2>3, KeysAreInts
<1>12. /\ bc \in Seq(Pages) /\ Len(bc) = n - m + 1 /\ DOMAIN bc = 1 .. n - m + 1
       /\ \A i \in 1 .. n - m + 1 : bc[i] = c[m + i]
  <2>1. m + 1 \in 1 .. Len(c) + 1 /\ Len(c) \in m + 1 - 1 .. Len(c)
    BY <1>2, <1>7
  <2>2. /\ bc \in Seq(Pages) /\ Len(bc) = Len(c) - (m + 1) + 1
        /\ \A i \in 1 .. Len(c) - (m + 1) + 1 : bc[i] = c[m + 1 + i - 1]
    BY <1>7, <2>1, PartOfSeq, SMTT(30)
  <2>3. Len(c) - (m + 1) + 1 = n - m + 1 /\ \A i \in 1 .. n - m + 1 : m + 1 + i - 1 = m + i
    BY <1>2, <1>7
  <2> QED
    BY <2>2, <2>3, LenProperties
<1> HIDE DEF s, c, a, ac, b, bc
<1>13. m \in 1 .. n /\ separator \in D /\ separator \in Int /\ least < separator
  BY <1>1, <1>2, <1>3, <1>8
<1>14. \A k \in D : k \in Int
  BY KeysAssumption
<1>15. \A i \in 1 .. m - 1 : i \in 1 .. n /\ s[i] < separator
  <2>1. \A i \in 1 .. m - 1 : i \in 1 .. n /\ i < m
    BY <1>2
  <2> QED
    BY <1>1, <1>4, <1>13, <2>1
<1>16. \A i \in 1 .. n - m : m + i \in 1 .. n /\ separator < s[m + i]
  <2>1. \A i \in 1 .. n - m : m + i \in 1 .. n /\ m < m + i
    BY <1>2
  <2> QED
    BY <1>1, <1>4, <1>13, <2>1
<1>17. InternalIn(left, lv, span, Lower(D, separator), level)
  <2>1. Rising(a)
    BY <1>4, <1>9, <1>15 DEF Rising
  <2>2. \A i \in DOMAIN a : a[i] \in Lower(D, separator)
    BY <1>3, <1>9, <1>15 DEF Lower
  <2>3. \E k \in Lower(D, separator) : \A i \in DOMAIN a : k < a[i]
    <3>1. least \in Lower(D, separator)
      BY <1>13 DEF Lower
    <3>2. \A i \in DOMAIN a : least < a[i]
      BY <1>8, <1>9, <1>15
    <3> QED
      BY <3>1, <3>2
  <2>4. \A i \in 1 .. m : i \in 1 .. n + 1
    BY <1>2
  <2>5. \A i, j \in DOMAIN ac : ac[i] = ac[j] => i = j
    BY <1>4, <1>10, <2>4
  <2>6. ASSUME NEW k \in Lower(D, separator), NEW r \in DOMAIN ac, Leads(a, k, r)
        PROVE  k \in span[ac[r]] /\ lv[ac[r]] = level - 1
    <3>1. k \in D /\ k < separator /\ k \in Int /\ r \in 1 .. m
      BY <1>10, <1>14 DEF Lower
    <3>2. \A i \in 1 .. n : i < r <=> s[i] <= k
      <4>1. ASSUME NEW i \in 1 .. n
            PROVE  i < r <=> s[i] <= k
        <5>1. CASE i < m
          <6>1. i \in 1 .. m - 1 /\ a[i] = s[i]
            BY <1>2, <1>9, <5>1
          <6>2. i < r <=> a[i] <= k
            BY <1>9, <2>6, <6>1 DEF Leads
          <6> QED
            BY <6>1, <6>2
        <5>2. CASE i >= m
          <6>1. i = m \/ m < i
            BY <1>2, <5>2
          <6>2. separator <= s[i]
            BY <1>1, <1>3, <1>4, <1>13, <6>1, SMTT(30)
          <6> QED
            BY <1>2, <1>3, <1>13, <3>1, <5>2, <6>2
        <5> QED
          BY <1>2, <5>1, <5>2
      <4> QED
        BY <4>1
    <3>3. Leads(s, k, r) /\ r \in 1 .. n + 1
      BY <2>4, <3>1, <3>2 DEF Leads, n
    <3> QED
      BY <1>5, <1>10, <3>1, <3>3
  <2>7. Len(ac) = Len(a) + 1
    BY <1>2, <1>9, <1>10
  <2> QED
    BY <1>1, <1>9, <1>10, <2>1, <2>2, <2>3, <2>5, <2>6, <2>7 DEF InternalIn, a, ac
<1>18. InternalIn(right, lv, span, Upper(D, separator), level)
  <2>1. Rising(b)
    <3>1. ASSUME NEW i \in 1 .. n - m, NEW j \in 1 .. n - m, i < j
          PROVE  b[i] < b[j]
      <4>1. m + i \in 1 .. n /\ m + j \in 1 .. n /\ m + i < m + j
        BY <1>2, <1>16, <3>1
      <4> QED
        BY <1>4, <1>11, <4>1
    <3> QED
      BY <1>11, <3>1 DEF Rising
  <2>2. \A i \in DOMAIN b : b[i] \in Upper(D, separator)
    BY <1>3, <1>11, <1>13, <1>16 DEF Upper
  <2>3. \E k \in Upper(D, separator) : \A i \in DOMAIN b : k < b[i]
    <3>1. separator \in Upper(D, separator)
      BY <1>13 DEF Upper
    <3> QED
      BY <1>11, <1>16, <3>1
  <2>4. \A i \in 1 .. n - m + 1 : m + i \in 1 .. n + 1
    BY <1>2
  <2>5. \A i, j \in DOMAIN bc : bc[i] = bc[j] => i = j
    <3>1. ASSUME NEW i \in 1 .. n - m + 1, NEW j \in 1 .. n - m + 1, bc[i] = bc[j]
          PROVE  i = j
      <4>1. m + i = m + j
        BY <1>4, <1>12, <2>4, <3>1
      <4> QED
        BY <1>2, <4>1
    <3> QED
      BY <1>12, <3>1
  <2>6. ASSUME NEW k \in Upper(D, separator), NEW r \in DOMAIN bc, Leads(b, k, r)
        PROVE  k \in span[bc[r]] /\ lv[bc[r]] = level - 1
    <3>1. k \in D /\ separator <= k /\ k \in Int /\ r \in 1 .. n - m + 1 /\ r \in Int
      BY <1>12, <1>14 DEF Upper
    <3>2. \A i \in 1 .. n : i < m + r <=> s[i] <= k
      <4>1. ASSUME NEW i \in 1 .. n
            PROVE  i < m + r <=> s[i] <= k
        <5>1. CASE i > m
          <6>1. i - m \in 1 .. n - m /\ m + (i - m) = i
            BY <1>2, <5>1
          <6>2. b[i - m] = s[i]
            BY <1>11, <6>1
          <6>3. i - m < r <=> b[i - m] <= k
            BY <1>11, <2>6, <6>1 DEF Leads
          <6>4. i < m + r <=> i - m < r
            BY <1>2, <3>1
          <6> QED
            BY <6>2, <6>3, <6>4
        <5>2. CASE i <= m
          <6>1. i = m \/ i < m
            BY <1>2, <5>2
          <6>2. s[i] <= separator
            BY <1>1, <1>3, <1>4, <1>13, <6>1, SMTT(30)
          <6>3. s[i] <= k
            BY <1>3, <1>13, <3>1, <6>2
          <6> QED
            BY <1>2, <3>1, <5>2, <6>3
        <5> QED
          BY <1>2, <5>1, <5>2
      <4> QED
        BY <4>1
    <3>3. Leads(s, k, m + r) /\ m + r \in 1 .. n + 1
      BY <2>4, <3>1, <3>2 DEF Leads, n
    <3>4. bc[r] = c[m + r]
      BY <1>12, <3>1
    <3> QED
      BY <1>5, <3>1, <3>3, <3>4
  <2>7. Len(bc) = Len(b) + 1
    BY <1>2, <1>11, <1>12
  <2> QED
    BY <1>1, <1>11, <1>12, <2>1, <2>2, <2>3, <2>5, <2>6, <2>7 DEF InternalIn, b, bc
<1> QED
  BY <1>13, <1>17, <1>18

-----------------------------------------------------------------------------
(* The tree when a node is written *)

(* Only leaves change, or pages that are not part of the tree. *)
LEMMA SameTree ==
    ASSUME NEW pg, NEW lv, NEW root, NEW span, Tree(pg, lv, root, span), NEW pg2,
           \A q \in Pages : span[q] # {} =>
               pg2[q] = pg[q] \/ LeafIn(pg2[q], span[q], lv[q])
    PROVE  Tree(pg2, lv, root, span)
<1>1. \A p \in Pages : span[p] # {} => NodeIn(pg2[p], lv, span, span[p], lv[p])
  BY DEF Tree, NodeIn
<1> QED
  BY <1>1 DEF Tree

LEMMA TreeTypes ==
    ASSUME NEW pg, NEW lv, NEW root, NEW span, Tree(pg, lv, root, span)
    PROVE  /\ \A p \in Pages : lv[p] \in Nat /\ lv[p] \in Int /\ span[p] \subseteq Keys
           /\ \A p \in Pages : \A k \in span[p] : k \in Keys /\ k \in Int
  BY KeysAssumption DEF Tree

(* Where the descent goes on from an internal node of the tree. *)
LEMMA ChildOf ==
    ASSUME NEW pg, NEW lv, NEW root, NEW span, Tree(pg, lv, root, span),
           NEW p \in Pages, InternalIn(pg[p], lv, span, span[p], lv[p]),
           NEW k \in span[p], NEW r, Leads(pg[p].keys, k, r)
    PROVE  /\ r \in DOMAIN pg[p].children /\ pg[p].children[r] \in Pages
           /\ k \in span[pg[p].children[r]] /\ lv[pg[p].children[r]] = lv[p] - 1
<1>1. /\ pg[p].keys \in Seq(Keys) /\ pg[p].children \in Seq(Pages)
      /\ Len(pg[p].children) = Len(pg[p].keys) + 1
  BY DEF InternalIn
<1>2. r \in 1 .. Len(pg[p].children)
  BY <1>1 DEF Leads
<1>3. r \in DOMAIN pg[p].children /\ pg[p].children[r] \in Pages
  BY <1>1, <1>2, LenProperties, ElementOfSeq
<1> QED
  BY <1>3 DEF InternalIn

(* The keys of a page below a node all lead to the same child. *)
LEMMA OneChild ==
    ASSUME NEW pg, NEW lv, NEW root, NEW span, Tree(pg, lv, root, span),
           NEW p \in Pages, InternalIn(pg[p], lv, span, span[p], lv[p]),
           NEW q \in Pages, lv[q] < lv[p],
           NEW k \in span[q], k \in span[p], NEW l \in span[q], l \in span[p],
           NEW r, Leads(pg[p].keys, k, r)
    PROVE  /\ Leads(pg[p].keys, l, r)
           /\ lv[q] = lv[p] - 1 => pg[p].children[r] = q
<1> DEFINE c == pg[p].children[r]
<1>1. /\ r \in DOMAIN pg[p].children /\ c \in Pages /\ k \in span[c] /\ lv[c] = lv[p] - 1
  BY ChildOf
<1>2. lv[p] \in Nat /\ lv[q] \in Nat /\ l \in Keys
  BY TreeTypes
<1>3. span[q] \cap span[c] # {}
  BY <1>1
<1>4. (lv[q] = lv[c] => q = c) /\ (lv[q] < lv[c] => span[q] \subseteq span[c])
  BY <1>1, <1>3 DEF Tree
<1>5. l \in span[c]
  BY <1>1, <1>2, <1>4
<1>6. PICK s : Leads(pg[p].keys, l, s)
  <2>1. pg[p].keys \in Seq(Keys) /\ Rising(pg[p].keys)
    BY DEF InternalIn
  <2> QED
    BY <1>2, <2>1, LeadsToChild
<1> DEFINE d == pg[p].children[s]
<1>7. /\ s \in DOMAIN pg[p].children /\ d \in Pages /\ l \in span[d] /\ lv[d] = lv[p] - 1
  BY <1>6, ChildOf
<1>8. c = d
  BY <1>1, <1>5, <1>7 DEF Tree
<1>9. r = s
  BY <1>1, <1>7, <1>8 DEF InternalIn
<1> QED
  BY <1>1, <1>2, <1>4, <1>6, <1>9

(* A new page takes the keys from the separator on. *)
SplitLevels(lv, page, right_page) == [lv EXCEPT ![right_page] = lv[page]]

SplitSpans(span, page, right_page, separator) ==
    [span EXCEPT ![page] = Lower(span[page], separator),
                 ![right_page] = Upper(span[page], separator)]

(* The parent of a node that is split. *)
LEMMA ParentIn ==
    ASSUME NEW pg, NEW lv, NEW root, NEW span, Tree(pg, lv, root, span),
           NEW S \in Pages, NEW R \in Pages, R # S, span[R] = {},
           NEW P \in Pages, lv[P] = lv[S] + 1, span[P] \cap span[S] # {},
           NEW separator \in span[S], \E k \in span[S] : k < separator
    PROVE  /\ span[S] \subseteq span[P] /\ P # S /\ P # R
           /\ InternalIn(PutChild(pg[P], separator, R), SplitLevels(lv, S, R),
                         SplitSpans(span, S, R, separator), span[P], lv[P])
<1> DEFINE lv2 == SplitLevels(lv, S, R)
           span2 == SplitSpans(span, S, R, separator)
           keys == pg[P].keys
           children == pg[P].children
           n == Len(keys)
           pos == upper_bound(keys, separator)
           keys2 == InsertAt(keys, pos + 1, separator)
           children2 == InsertAt(children, pos + 2, R)
<1>1. lv[S] \in Nat /\ lv[P] \in Nat /\ separator \in Keys /\ separator \in Int
  BY TreeTypes
<1>2. span[S] \subseteq span[P] /\ P # S /\ P # R
  BY <1>1 DEF Tree
<1>3. InternalIn(pg[P], lv, span, span[P], lv[P])
  <2>1. NodeIn(pg[P], lv, span, span[P], lv[P])
    BY DEF Tree
  <2> QED
    BY <1>1, <2>1 DEF NodeIn, LeafIn
<1>4. /\ keys \in Seq(Keys) /\ children \in Seq(Pages) /\ Len(children) = n + 1
      /\ Rising(keys) /\ n \in Nat /\ DOMAIN keys = 1 .. n /\ DOMAIN children = 1 .. n + 1
      /\ \A i \in 1 .. n : keys[i] \in Int /\ keys[i] \in span[P]
      /\ \A i \in 1 .. n + 1 : children[i] \in Pages
  <2>1. keys \in Seq(Keys) /\ children \in Seq(Pages) /\ Len(children) = n + 1 /\ Rising(keys)
    BY <1>3 DEF InternalIn
  <2>2. n \in Nat /\ DOMAIN keys = 1 .. n /\ \A i \in 1 .. n : keys[i] \in Int
    BY <2>1, KeysAreInts
  <2>3. DOMAIN children = 1 .. n + 1 /\ \A i \in 1 .. n + 1 : children[i] \in Pages
    BY <2>1, LenProperties, ElementOfSeq
  <2>4. \A i \in 1 .. n : keys[i] \in span[P]
    BY <1>3, <2>2 DEF InternalIn
  <2> QED
    BY <2>1, <2>2, <2>3, <2>4
<1>5. pos \in 0 .. n /\ Leads(keys, separator, pos + 1)
  BY <1>1, <1>4, LeadsToChild
<1>6. children[pos + 1] = S
  BY <1>1, <1>2, <1>3, <1>5, OneChild
<1>7. PICK least \in span[S] : least < separator
  OBVIOUS
<1>8. Leads(keys, least, pos + 1) /\ least \in Int
  <2>1. lv[S] < lv[P] /\ separator \in span[P] /\ least \in span[P] /\ least \in Int
    BY <1>1, <1>2, TreeTypes
  <2> HIDE DEF pos
  <2> QED
    BY <1>3, <1>5, <2>1, OneChild
<1> HIDE DEF keys, children, n, pos, keys2, children2
<1>9. /\ \A i \in 1 .. n : i < pos + 1 => keys[i] < separator
      /\ \A i \in 1 .. n : ~(i < pos + 1) => separator < keys[i]
  BY <1>1, <1>4, <1>5, <1>7, <1>8 DEF Leads, n
<1>10. /\ keys2 \in Seq(Keys) /\ Len(keys2) = n + 1 /\ DOMAIN keys2 = 1 .. n + 1
       /\ keys2[pos + 1] = separator
       /\ \A i \in 1 .. pos : keys2[i] = keys[i]
       /\ \A i \in pos + 1 .. n : keys2[i + 1] = keys[i]
  <2>1. pos + 1 \in 1 .. Len(keys) + 1
    BY <1>4, <1>5 DEF n
  <2>2. /\ keys2 \in Seq(Keys) /\ Len(keys2) = Len(keys) + 1
        /\ keys2[pos + 1] = separator
        /\ \A i \in 1 .. pos + 1 - 1 : keys2[i] = keys[i]
        /\ \A i \in pos + 1 .. Len(keys) : keys2[i + 1] = keys[i]
    <3>1. keys \in Seq(Keys) /\ separator \in Keys /\ keys2 = InsertAt(keys, pos + 1, separator)
      BY <1>1, <1>4 DEF keys2
    <3>2. PICK s \in Seq(Keys) : s = keys
      BY <3>1
    <3>3. PICK m \in 1 .. Len(s) + 1 : m = pos + 1
      BY <2>1, <3>2
    <3>4. PICK t : t = InsertAt(s, m, separator)
      OBVIOUS
    <3>5. Inserted(t, Keys, s, m, separator)
      BY <3>1, <3>4, InsertAtInserts
    <3>6. t = keys2
      BY <3>1, <3>2, <3>3, <3>4
    <3> QED
      BY <1>4, <1>5, <3>2, <3>3, <3>5, <3>6 DEF Inserted
  <2>3. pos + 1 - 1 = pos
    BY <1>5
  <2> QED
    BY <2>2, <2>3, KeysAreInts DEF n
<1>11. /\ children2 \in Seq(Pages) /\ Len(children2) = n + 2 /\ DOMAIN children2 = 1 .. n + 2
       /\ children2[pos + 2] = R
       /\ \A i \in 1 .. pos + 1 : children2[i] = children[i]
       /\ \A i \in pos + 2 .. n + 1 : children2[i + 1] = children[i]
  <2>1. pos + 2 \in 1 .. Len(children) + 1
    BY <1>4, <1>5
  <2>2. /\ children2 \in Seq(Pages) /\ Len(children2) = Len(children) + 1
        /\ children2[pos + 2] = R
        /\ \A i \in 1 .. pos + 2 - 1 : children2[i] = children[i]
        /\ \A i \in pos + 2 .. Len(children) : children2[i + 1] = children[i]
    <3>1. children \in Seq(Pages) /\ children2 = InsertAt(children, pos + 2, R)
      BY <1>4 DEF children2
    <3>2. PICK s \in Seq(Pages) : s = children
      BY <3>1
    <3>3. PICK m \in 1 .. Len(s) + 1 : m = pos + 2
      BY <2>1, <3>2
    <3>4. PICK t : t = InsertAt(s, m, R)
      OBVIOUS
    <3>5. Inserted(t, Pages, s, m, R)
      BY <3>4, InsertAtInserts
    <3>6. t = children2
      BY <3>1, <3>2, <3>3, <3>4
    <3> QED
      BY <1>4, <1>5, <3>2, <3>3, <3>5, <3>6 DEF Inserted
  <2>3. pos + 2 - 1 = pos + 1 /\ n + 1 + 1 = n + 2
    BY <1>4, <1>5
  <2> QED
    <3>1. Len(children) = n + 1
      BY <1>4
    <3>2. Len(children2) = n + 2 /\ DOMAIN children2 = 1 .. n + 2
      BY <2>2, <2>3, <3>1, LenProperties
    <3> QED
      BY <2>2, <2>3, <3>1, <3>2
<1>12. PutChild(pg[P], separator, R) = InternalNode(keys2, children2)
  BY DEF PutChild, keys2, children2, keys, children, pos
<1>13. ASSUME NEW i \in 1 .. n + 1, i # pos + 1
       PROVE  \E j \in 1 .. n : keys2[i] = keys[j] /\ j = IF i < pos + 1 THEN i ELSE i - 1
  <2>1. CASE i < pos + 1
    <3>1. i \in 1 .. pos /\ i \in 1 .. n
      BY <1>4, <1>5, <2>1
    <3> QED
      BY <1>10, <2>1, <3>1
  <2>2. CASE i > pos + 1
    <3>1. i - 1 \in pos + 1 .. n /\ i - 1 \in 1 .. n /\ i - 1 + 1 = i /\ ~(i < pos + 1)
      BY <1>4, <1>5, <2>2
    <3>2. keys2[i - 1 + 1] = keys[i - 1]
      BY <1>10, <3>1
    <3> QED
      BY <3>1, <3>2
  <2> QED
    BY <1>4, <1>5, <1>13, <2>1, <2>2
<1>14. Rising(keys2)
  <2>1. ASSUME NEW i \in 1 .. n + 1, NEW j \in 1 .. n + 1, i < j
        PROVE  keys2[i] < keys2[j]
    <3>1. CASE i = pos + 1
      <4>1. j # pos + 1
        BY <1>5, <2>1, <3>1
      <4>2. PICK b \in 1 .. n : keys2[j] = keys[b] /\ b = IF j < pos + 1 THEN j ELSE j - 1
        BY <1>13, <4>1
      <4>3. ~(b < pos + 1)
        BY <1>5, <2>1, <3>1, <4>2
      <4> QED
        BY <1>9, <1>10, <3>1, <4>2, <4>3
    <3>2. CASE j = pos + 1
      <4>1. i # pos + 1
        BY <1>5, <2>1, <3>2
      <4>2. PICK a \in 1 .. n : keys2[i] = keys[a] /\ a = IF i < pos + 1 THEN i ELSE i - 1
        BY <1>13, <4>1
      <4>3. a < pos + 1
        BY <1>5, <2>1, <3>2, <4>2
      <4> QED
        BY <1>9, <1>10, <3>2, <4>2, <4>3
    <3>3. CASE i # pos + 1 /\ j # pos + 1
      <4>1. PICK a \in 1 .. n : keys2[i] = keys[a] /\ a = IF i < pos + 1 THEN i ELSE i - 1
        BY <1>13, <3>3
      <4>2. PICK b \in 1 .. n : keys2[j] = keys[b] /\ b = IF j < pos + 1 THEN j ELSE j - 1
        BY <1>13, <3>3
      <4>3. a < b
        BY <1>5, <2>1, <3>3, <4>1, <4>2
      <4> QED
        BY <1>4, <4>1, <4>2, <4>3 DEF Rising
    <3> QED
      BY <3>1, <3>2, <3>3
  <2> QED
    BY <1>10, <2>1 DEF Rising
<1>15. \A i \in DOMAIN keys2 : keys2[i] \in span[P]
  BY <1>2, <1>4, <1>10, <1>13
<1>16. \E k \in span[P] : \A i \in DOMAIN keys2 : k < keys2[i]
  <2>1. PICK k \in span[P] : \A i \in 1 .. n : k < keys[i]
    BY <1>3, <1>4 DEF InternalIn, keys
  <2>2. CASE k < separator
    BY <1>10, <1>13, <2>1, <2>2
  <2>3. CASE ~(k < separator)
    <3>1. least < k /\ k \in Int
      BY <1>1, <1>7, <1>8, <2>3, TreeTypes
    <3>2. \A i \in 1 .. n : least < keys[i]
      BY <1>4, <1>8, <2>1, <3>1
    <3>3. least \in span[P]
      BY <1>2
    <3> QED
      BY <1>7, <1>10, <1>13, <3>2, <3>3
  <2> QED
    BY <2>2, <2>3
<1>17. ASSUME NEW i \in 1 .. n + 1
       PROVE  children[i] # R
  <2>1. \E k \in span[P] : Leads(keys, k, i)
    <3>1. CASE i = 1
      <4>1. PICK k \in span[P] : \A j \in 1 .. n : k < keys[j]
        BY <1>3, <1>4 DEF InternalIn, keys
      <4>2. k \in Int
        BY TreeTypes
      <4>3. \A j \in 1 .. n : ~(j < i) /\ ~(keys[j] <= k)
        BY <1>4, <3>1, <4>1, <4>2
      <4> QED
        BY <4>3 DEF Leads, n
    <3>2. CASE i # 1
      <4>1. i - 1 \in 1 .. n /\ i \in Int
        BY <1>4, <3>2
      <4>2. \A j \in 1 .. n : j < i <=> keys[j] <= keys[i - 1]
        <5>1. ASSUME NEW j \in 1 .. n
              PROVE  j < i <=> keys[j] <= keys[i - 1]
          <6>1. j = i - 1 \/ j < i - 1 \/ i - 1 < j
            BY <4>1
          <6>2. /\ j < i - 1 => keys[j] < keys[i - 1]
                /\ i - 1 < j => keys[i - 1] < keys[j]
            BY <1>4, <4>1 DEF Rising
          <6> QED
            BY <1>4, <4>1, <6>1, <6>2
        <5> QED
          BY <5>1
      <4> QED
        BY <1>4, <4>1, <4>2 DEF Leads, n
    <3> QED
      BY <3>1, <3>2
  <2>2. PICK k \in span[P] : Leads(keys, k, i)
    BY <2>1
  <2>3. k \in span[children[i]]
    BY <1>3, <2>2, ChildOf DEF keys, children
  <2> QED
    BY <2>3
<1>18. ASSUME NEW k \in span[P], NEW r \in DOMAIN children2, Leads(keys2, k, r)
       PROVE  k \in span2[children2[r]] /\ lv2[children2[r]] = lv[P] - 1
  <2>1. k \in Int /\ k \in Keys /\ r \in 1 .. n + 2
    BY <1>11, TreeTypes
  <2>2. \A i \in 1 .. n + 1 : i < r <=> keys2[i] <= k
    BY <1>10, <1>18 DEF Leads
  <2>3. lv[P] - 1 = lv[S]
    BY <1>1
  <2>4. /\ lv2[S] = lv[S] /\ lv2[R] = lv[S]
        /\ span2[S] = Lower(span[S], separator) /\ span2[R] = Upper(span[S], separator)
        /\ \A q \in Pages \ {S, R} : lv2[q] = lv[q] /\ span2[q] = span[q]
    BY DEF SplitLevels, SplitSpans, Tree
  <2>5. \A j \in 1 .. n : j \in 1 .. n + 1 /\ j + 1 \in 1 .. n + 1 /\ j \in Int
    BY <1>4
  <2>6. ASSUME NEW j \in 1 .. n
        PROVE  IF j < pos + 1 THEN keys2[j] = keys[j] ELSE keys2[j + 1] = keys[j]
    <3>1. j < pos + 1 => j \in 1 .. pos
      BY <1>5
    <3>2. ~(j < pos + 1) => j \in pos + 1 .. n
      BY <1>5
    <3> QED
      BY <1>10, <3>1, <3>2
  <2>7. pos + 1 < r <=> separator <= k
    <3>1. pos + 1 \in 1 .. n + 1
      BY <1>4, <1>5
    <3> QED
      BY <1>10, <2>2, <3>1
  <2> DEFINE q == IF r <= pos + 1 THEN r ELSE r - 1
  <2>8. Leads(keys, k, q) /\ q \in 1 .. n + 1
    <3>1. q \in 1 .. n + 1
      BY <1>4, <1>5, <2>1
    <3>2. ASSUME NEW j \in 1 .. n
          PROVE  j < q <=> keys[j] <= k
      <4>1. CASE j < pos + 1
        <5>1. j < r <=> keys[j] <= k
          BY <2>2, <2>5, <2>6, <4>1
        <5>2. j < q <=> j < r
          BY <1>5, <2>1, <2>5, <4>1
        <5> QED
          BY <5>1, <5>2
      <4>2. CASE ~(j < pos + 1)
        <5>1. j + 1 < r <=> keys[j] <= k
          BY <2>2, <2>5, <2>6, <4>2
        <5>2. j < q <=> j + 1 < r
          BY <1>5, <2>1, <2>5, <4>2
        <5> QED
          BY <5>1, <5>2
      <4> QED
        BY <4>1, <4>2
    <3> QED
      BY <3>1, <3>2 DEF Leads, n
  <2>9. k \in span[children[q]] /\ lv[children[q]] = lv[P] - 1 /\ children[q] \in Pages
    BY <1>3, <2>8, ChildOf DEF keys, children
  <2>10. CASE r = pos + 2
    <3>1. q = pos + 1 /\ separator <= k
      BY <1>5, <2>1, <2>7, <2>10
    <3>2. k \in Upper(span[S], separator)
      BY <1>6, <2>9, <3>1 DEF Upper
    <3> QED
      BY <1>11, <2>3, <2>4, <2>10, <3>2
  <2>11. CASE r = pos + 1
    <3>1. q = pos + 1 /\ k < separator
      BY <1>1, <1>5, <2>1, <2>7, <2>11
    <3>2. children2[r] = S
      BY <1>5, <1>6, <1>11, <2>11
    <3>3. k \in Lower(span[S], separator)
      BY <1>6, <2>9, <3>1 DEF Lower
    <3> QED
      BY <2>3, <2>4, <3>2, <3>3
  <2>12. CASE r # pos + 1 /\ r # pos + 2
    <3>1. q # pos + 1 /\ pos + 1 \in 1 .. n + 1
      BY <1>4, <1>5, <2>1, <2>12
    <3>2. children[q] # S
      BY <1>3, <1>4, <1>6, <2>8, <3>1 DEF InternalIn, children
    <3>3. children[q] # R
      BY <2>9
    <3>4. children2[r] = children[q]
      <4>1. CASE r <= pos + 1
        <5>1. r \in 1 .. pos + 1 /\ q = r
          BY <2>1, <4>1
        <5> QED
          BY <1>11, <5>1
      <4>2. CASE r > pos + 1
        <5>1. r - 1 \in pos + 2 .. n + 1 /\ r - 1 + 1 = r /\ q = r - 1
          BY <1>4, <1>5, <2>1, <2>12, <4>2
        <5>2. children2[r - 1 + 1] = children[r - 1]
          BY <1>11, <5>1
        <5> QED
          BY <5>1, <5>2
      <4> QED
        BY <1>5, <2>1, <4>1, <4>2
    <3> QED
      BY <2>4, <2>9, <3>2, <3>3, <3>4
  <2> QED
    BY <2>10, <2>11, <2>12
<1>19. ASSUME NEW i \in 1 .. n + 2, NEW j \in 1 .. n + 2, children2[i] = children2[j]
       PROVE  i = j
  <2>1. ASSUME NEW a \in 1 .. n + 2
        PROVE  \/ a = pos + 2 /\ children2[a] = R
               \/ a # pos + 2 /\ \E b \in 1 .. n + 1 :
                     children2[a] = children[b] /\ b = IF a < pos + 2 THEN a ELSE a - 1
    <3>1. CASE a < pos + 2
      <4>1. a \in 1 .. pos + 1 /\ a \in 1 .. n + 1 /\ a # pos + 2
        BY <1>4, <1>5, <3>1
      <4> QED
        BY <1>11, <3>1, <4>1
    <3>2. CASE a > pos + 2
      <4>1. a - 1 \in pos + 2 .. n + 1 /\ a - 1 \in 1 .. n + 1 /\ a - 1 + 1 = a
            /\ ~(a < pos + 2) /\ a # pos + 2
        BY <1>4, <1>5, <3>2
      <4>2. children2[a - 1 + 1] = children[a - 1]
        BY <1>11, <4>1
      <4> QED
        BY <4>1, <4>2
    <3> QED
      BY <1>4, <1>5, <1>11, <3>1, <3>2
  <2>2. CASE i = pos + 2
    BY <1>17, <1>19, <2>1, <2>2
  <2>3. CASE j = pos + 2
    BY <1>17, <1>19, <2>1, <2>3
  <2>4. CASE i # pos + 2 /\ j # pos + 2
    <3>1. PICK a \in 1 .. n + 1 : children2[i] = children[a] /\ a = IF i < pos + 2 THEN i ELSE i - 1
      BY <2>1, <2>4
    <3>2. PICK b \in 1 .. n + 1 : children2[j] = children[b] /\ b = IF j < pos + 2 THEN j ELSE j - 1
      BY <2>1, <2>4
    <3>3. \A c, d \in 1 .. n + 1 : children[c] = children[d] => c = d
      BY <1>3, <1>4 DEF InternalIn, children
    <3>4. a = b
      BY <1>19, <3>1, <3>2, <3>3
    <3> QED
      BY <1>5, <2>4, <3>1, <3>2, <3>4
  <2> QED
    BY <2>2, <2>3, <2>4
<1>20. Len(children2) = Len(keys2) + 1
  BY <1>4, <1>10, <1>11
<1> QED
  <2>1. InternalIn(InternalNode(keys2, children2), lv2, span2, span[P], lv[P])
    <3> HIDE DEF lv2, span2
    <3>1. PICK node : node = InternalNode(keys2, children2)
      OBVIOUS
    <3>2. node.kind = "internal" /\ node.keys = keys2 /\ node.children = children2
      BY <3>1, InternalFields
    <3>3. InternalIn(node, lv2, span2, span[P], lv[P])
      BY <1>10, <1>11, <1>14, <1>15, <1>16, <1>18, <1>19, <1>20, <3>2 DEF InternalIn
    <3> QED
      BY <3>1, <3>3
  <2> QED
    BY <1>2, <1>12, <2>1

(* The halves of a node of the tree. *)
LEMMA HalfOfNode ==
    ASSUME NEW pg, NEW lv, NEW root, NEW span, Tree(pg, lv, root, span),
           NEW S \in Pages, NEW left, NEW right, NEW separator, span[S] # {},
           Halves(pg[S], left, right, separator)
    PROVE  /\ separator \in span[S] /\ \E k \in span[S] : k < separator
           /\ NodeIn(left, lv, span, Lower(span[S], separator), lv[S])
           /\ NodeIn(right, lv, span, Upper(span[S], separator), lv[S])
<1>1. NodeIn(pg[S], lv, span, span[S], lv[S]) /\ span[S] \in SUBSET Keys
  BY DEF Tree
<1>2. CASE LeafIn(pg[S], span[S], lv[S])
  BY <1>1, <1>2, LeafHalvesIn DEF NodeIn
<1>3. CASE InternalIn(pg[S], lv, span, span[S], lv[S])
  BY <1>1, <1>3, InternalHalvesIn DEF NodeIn
<1> QED
  BY <1>1, <1>2, <1>3 DEF NodeIn

(* A half of a leaf answers as the whole did, for its keys. *)
LEMMA HalfSays ==
    ASSUME NEW pg, NEW lv, NEW root, NEW span, Tree(pg, lv, root, span),
           NEW S \in Pages, NEW left, NEW right, NEW separator,
           Halves(pg[S], left, right, separator), pg[S].kind = "leaf",
           NEW k \in span[S], NEW answer, Says(pg[S].entries, k, answer)
    PROVE  /\ k < separator => Says(left.entries, k, answer)
           /\ separator <= k => Says(right.entries, k, answer)
<1>1. LeafIn(pg[S], span[S], lv[S])
  <2>1. NodeIn(pg[S], lv, span, span[S], lv[S])
    BY DEF Tree
  <2> QED
    BY <2>1 DEF NodeIn, InternalIn
<1>2. span[S] \in SUBSET Keys
  BY DEF Tree
<1> QED
  BY <1>1, <1>2, LeafHalvesIn

(* The separator of a node does not divide a page below it. *)
LEMMA BelowOneHalf ==
    ASSUME NEW pg, NEW lv, NEW root, NEW span, Tree(pg, lv, root, span),
           NEW S \in Pages, NEW left, NEW right, NEW separator, span[S] # {},
           Halves(pg[S], left, right, separator),
           NEW q \in Pages, lv[q] < lv[S],
           NEW k \in span[q], k \in span[S], NEW l \in span[q], l \in span[S]
    PROVE  k < separator <=> l < separator
<1>1. InternalIn(pg[S], lv, span, span[S], lv[S])
  <2>1. lv[q] \in Nat /\ lv[S] \in Nat
    BY TreeTypes
  <2>2. NodeIn(pg[S], lv, span, span[S], lv[S])
    BY DEF Tree
  <2> QED
    BY <2>1, <2>2 DEF NodeIn, LeafIn
<1> DEFINE keys == pg[S].keys
           m == middle(pg[S])
<1>2. keys \in Seq(Keys) /\ Rising(keys) /\ pg[S].kind = "internal"
  BY <1>1 DEF InternalIn
<1>3. /\ Len(keys) \in Nat /\ Len(keys) = MAX_INTERNAL_KEYS + 1
      /\ m = Len(keys) \div 2 + 1 /\ separator = keys[m]
  BY <1>2, KeysAreInts DEF Halves, promoted, middle
<1>4. m \in 1 .. Len(keys)
  BY <1>3, InternalSizeAssumption
<1> HIDE DEF m
<1>5. k \in Int /\ l \in Int /\ k \in Keys /\ l \in Keys /\ separator \in Int
  BY <1>2, <1>3, <1>4, KeysAreInts, TreeTypes
<1>6. PICK r : Leads(keys, k, r)
  BY <1>2, <1>5, LeadsToChild
<1>7. Leads(keys, l, r)
  BY <1>1, <1>6, OneChild
<1>8. separator <= k <=> separator <= l
  BY <1>3, <1>4, <1>6, <1>7 DEF Leads
<1> QED
  BY <1>5, <1>8

(* A node is split: both halves and the parent, with the new page, make the same
   tree, in which the new page has the keys from the separator on. *)
LEMMA SplitTree ==
    ASSUME NEW pg, NEW lv, NEW root, NEW span, Tree(pg, lv, root, span),
           NEW S \in Pages, span[S] # {}, NEW R \in Pages, R # S, span[R] = {},
           NEW P \in Pages, lv[P] = lv[S] + 1, span[P] \cap span[S] # {},
           NEW left, NEW right, NEW separator, Halves(pg[S], left, right, separator),
           NEW pg2, pg2[S] = left, pg2[R] = right, pg2[P] = PutChild(pg[P], separator, R),
           \A q \in Pages \ {S, R, P} : span[q] # {} => pg2[q] = pg[q]
    PROVE  Tree(pg2, SplitLevels(lv, S, R), root, SplitSpans(span, S, R, separator))
<1> DEFINE lv2 == SplitLevels(lv, S, R)
           span2 == SplitSpans(span, S, R, separator)
           D == span[S]
           from(q) == IF q = R THEN S ELSE q
<1>1. /\ separator \in D /\ \E k \in D : k < separator
      /\ NodeIn(left, lv, span, Lower(D, separator), lv[S])
      /\ NodeIn(right, lv, span, Upper(D, separator), lv[S])
  BY HalfOfNode
<1>2. /\ D \subseteq span[P] /\ P # S /\ P # R
      /\ InternalIn(PutChild(pg[P], separator, R), lv2, span2, span[P], lv[P])
  BY <1>1, ParentIn
<1>3. /\ lv \in [Pages -> Nat] /\ span \in [Pages -> SUBSET Keys]
      /\ root \in Pages /\ span[root] = Keys
  BY DEF Tree
<1>4. /\ lv2 \in [Pages -> Nat] /\ span2 \in [Pages -> SUBSET Keys]
      /\ lv2[R] = lv[S] /\ span2[R] = Upper(D, separator)
      /\ lv2[S] = lv[S] /\ span2[S] = Lower(D, separator)
      /\ \A q \in Pages \ {S, R} : lv2[q] = lv[q] /\ span2[q] = span[q]
  BY <1>3 DEF SplitLevels, SplitSpans, Lower, Upper
<1>5. \A k \in Keys : k \in Int
  BY KeysAssumption
<1>6. /\ Lower(D, separator) \subseteq D /\ Upper(D, separator) \subseteq D
      /\ \A k \in D : k \in Lower(D, separator) <=> k < separator
      /\ \A k \in D : k \in Upper(D, separator) <=> ~(k < separator)
  <2>1. \A k \in D : separator <= k <=> ~(k < separator)
    BY <1>1, <1>3, <1>5
  <2> QED
    BY <2>1 DEF Lower, Upper
<1> HIDE DEF lv2, span2
<1>7. \A q \in Pages : /\ from(q) \in Pages /\ lv2[q] = lv[from(q)]
                       /\ span2[q] \subseteq span[from(q)]
  BY <1>4, <1>6
<1>8. root # S /\ root # R
  <2>1. lv[P] <= lv[root] /\ lv[S] \in Nat /\ lv[root] \in Nat
    BY <1>2, <1>3 DEF Tree
  <2> QED
    BY <1>1, <1>3, <2>1
<1>9. span2[root] = Keys
  BY <1>3, <1>4, <1>8
<1>10. \A p \in Pages : span2[p] # {} => lv2[p] <= lv2[root]
  BY <1>3, <1>4, <1>7, <1>8 DEF Tree
<1>11. ASSUME NEW p \in Pages, NEW q \in Pages, span2[p] \cap span2[q] # {}
       PROVE  (lv2[p] = lv2[q] => p = q) /\ (lv2[p] < lv2[q] => span2[p] \subseteq span2[q])
  <2>1. PICK k \in span2[p] : k \in span2[q]
    BY <1>11
  <2>2. k \in span[from(p)] \cap span[from(q)]
    BY <1>7, <2>1
  <2>3. /\ lv2[p] = lv2[q] => from(p) = from(q)
        /\ lv2[p] < lv2[q] => span[from(p)] \subseteq span[from(q)]
    BY <1>7, <2>2 DEF Tree
  <2>4. ASSUME lv2[p] = lv2[q]
        PROVE  p = q
    <3>1. CASE p = R /\ q = S
      BY <1>4, <1>6, <2>1, <3>1
    <3>2. CASE p = S /\ q = R
      BY <1>4, <1>6, <2>1, <3>2
    <3> QED
      BY <2>3, <2>4, <3>1, <3>2
  <2>5. ASSUME lv2[p] < lv2[q]
        PROVE  span2[p] \subseteq span2[q]
    <3>1. CASE q \notin {S, R}
      BY <1>4, <1>7, <2>3, <2>5, <3>1
    <3>2. CASE q \in {S, R}
      <4>1. from(q) = S /\ lv2[q] = lv[S]
        BY <1>4, <3>2
      <4>2. p \notin {S, R}
        BY <1>3, <1>4, <2>5, <4>1
      <4>3. lv[p] < lv[S] /\ span2[p] = span[p] /\ span[p] \subseteq D /\ k \in span[p]
        BY <1>4, <2>1, <2>3, <2>5, <4>1, <4>2
      <4>4. ASSUME NEW l \in span[p]
            PROVE  k < separator <=> l < separator
        <5>1. k \in span[p] /\ k \in span[S] /\ l \in span[S] /\ lv[p] < lv[S]
          BY <4>3
        <5> QED
          BY <5>1, BelowOneHalf
      <4> QED
        BY <1>4, <1>6, <2>1, <3>2, <4>3, <4>4
    <3> QED
      BY <3>1, <3>2
  <2> QED
    BY <2>4, <2>5
<1>12. ASSUME NEW p \in Pages, NEW x \in span2[p], NEW z \in span2[p], NEW y \in Keys,
              x < y, y < z
       PROVE  y \in span2[p]
  <2>1. y \in span[from(p)] /\ x \in span[from(p)] /\ z \in span[from(p)]
    <3>1. from(p) \in Pages /\ x \in span[from(p)] /\ z \in span[from(p)]
      BY <1>7
    <3> HIDE DEF from
    <3> QED
      BY <1>12, <3>1 DEF Tree
  <2>2. /\ x \in Int /\ y \in Int /\ z \in Int /\ separator \in Int
    BY <1>1, <1>3, <1>4, <1>5
  <2>3. CASE p \notin {S, R}
    BY <1>4, <2>1, <2>3
  <2>4. CASE p = S
    <3>1. z < separator /\ y < separator
      BY <1>4, <1>6, <1>12, <2>1, <2>2, <2>4
    <3> QED
      BY <1>4, <1>6, <2>1, <2>4, <3>1
  <2>5. CASE p = R
    <3>1. ~(x < separator) /\ ~(y < separator)
      BY <1>4, <1>6, <1>12, <2>1, <2>2, <2>5
    <3> QED
      BY <1>4, <1>6, <2>1, <2>5, <3>1
  <2> QED
    BY <2>3, <2>4, <2>5
<1>13. ASSUME NEW node, NEW E, NEW level \in Int, NodeIn(node, lv, span, E, level),
              level - 1 # lv[S] \/ E \cap D = {}
       PROVE  NodeIn(node, lv2, span2, E, level)
  <2>1. CASE LeafIn(node, E, level)
    BY <2>1 DEF NodeIn
  <2>2. CASE InternalIn(node, lv, span, E, level)
    <3>1. ASSUME NEW k \in E, NEW r \in DOMAIN node.children, Leads(node.keys, k, r)
          PROVE  k \in span2[node.children[r]] /\ lv2[node.children[r]] = level - 1
      <4>1. k \in span[node.children[r]] /\ lv[node.children[r]] = level - 1
            /\ node.children[r] \in Pages
        <5>1. node.children \in Seq(Pages)
          BY <2>2 DEF InternalIn
        <5>2. node.children[r] \in Pages
          BY <5>1, LenProperties, ElementOfSeq
        <5> QED
          BY <2>2, <3>1, <5>2 DEF InternalIn
      <4>2. node.children[r] # R
        BY <4>1
      <4>3. node.children[r] # S
        BY <1>13, <4>1
      <4> QED
        BY <1>4, <4>1, <4>2, <4>3
    <3>2. InternalIn(node, lv2, span2, E, level)
      BY <2>2, <3>1 DEF InternalIn
    <3> QED
      BY <3>2 DEF NodeIn
  <2> QED
    BY <1>13, <2>1, <2>2 DEF NodeIn
<1>14. ASSUME NEW p \in Pages, span2[p] # {}
       PROVE  NodeIn(pg2[p], lv2, span2, span2[p], lv2[p])
  <2>1. lv[S] \in Nat /\ lv[S] - 1 # lv[S]
    BY <1>3
  <2>2. CASE p = S
    BY <1>1, <1>4, <1>13, <2>1, <2>2
  <2>3. CASE p = R
    BY <1>1, <1>4, <1>13, <2>1, <2>3
  <2>4. CASE p = P
    BY <1>2, <1>4, <2>4 DEF NodeIn
  <2>5. CASE p \notin {S, R, P}
    <3>1. span2[p] = span[p] /\ lv2[p] = lv[p] /\ span[p] # {} /\ pg2[p] = pg[p]
      BY <1>4, <1>14, <2>5
    <3>2. NodeIn(pg[p], lv, span, span[p], lv[p])
      BY <3>1 DEF Tree
    <3>3. lv[p] - 1 # lv[S] \/ span[p] \cap D = {}
      <4>1. ASSUME lv[p] - 1 = lv[S], span[p] \cap D # {}
            PROVE  FALSE
        <5>1. lv[p] = lv[P] /\ span[p] \cap span[P] # {}
          BY <1>2, <1>3, <4>1
        <5>2. p = P
          BY <5>1 DEF Tree
        <5> QED
          BY <2>5, <5>2
      <4> QED
        BY <4>1
    <3>4. lv[p] \in Int
      BY <1>3
    <3> QED
      BY <1>13, <3>1, <3>2, <3>3, <3>4
  <2> QED
    BY <2>2, <2>3, <2>4, <2>5
<1> QED
  <2>1. Tree(pg2, lv2, root, span2)
    BY <1>3, <1>4, <1>9, <1>10, <1>11, <1>12, <1>14 DEF Tree
  <2> QED
    BY <2>1 DEF lv2, span2

(* ... and answer the same for every key. *)
LEMMA SplitAnswers ==
    ASSUME NEW pg, NEW lv, NEW root, NEW span, Tree(pg, lv, root, span),
           NEW S \in Pages, span[S] # {}, NEW R \in Pages, R # S, span[R] = {},
           NEW P \in Pages, lv[P] = lv[S] + 1, span[P] \cap span[S] # {},
           NEW left, NEW right, NEW separator, Halves(pg[S], left, right, separator),
           NEW pg2, pg2[S] = left, pg2[R] = right, pg2[P] = PutChild(pg[P], separator, R),
           \A q \in Pages \ {S, R, P} : span[q] # {} => pg2[q] = pg[q],
           NEW map, Answers(pg, span, map)
    PROVE  Answers(pg2, SplitSpans(span, S, R, separator), map)
<1> DEFINE span2 == SplitSpans(span, S, R, separator)
           D == span[S]
<1>1. separator \in D /\ separator \in Int /\ D \in SUBSET Keys /\ \A k \in D : k \in Int
  BY HalfOfNode, TreeTypes
<1>2. /\ span2[R] = Upper(D, separator) /\ span2[S] = Lower(D, separator)
      /\ \A q \in Pages \ {S, R} : span2[q] = span[q]
  BY DEF Tree, SplitSpans
<1>3. ASSUME left.kind = "leaf" \/ right.kind = "leaf"
      PROVE  /\ pg[S].kind = "leaf"
             /\ \A answer : \A k \in D : Says(pg[S].entries, k, answer) =>
                   /\ k < separator => Says(left.entries, k, answer)
                   /\ separator <= k => Says(right.entries, k, answer)
  <2>1. pg[S].kind = "leaf"
    BY <1>3, InternalFields DEF Halves, LeftInternal, RightInternal
  <2> QED
    BY <2>1, HalfSays, ZenonT(30)
<1>4. pg2[P].kind = "internal"
  BY InternalFields DEF PutChild
<1> HIDE DEF span2
<1>5. ASSUME NEW p \in Pages, pg2[p].kind = "leaf", NEW k \in span2[p]
      PROVE  Says(pg2[p].entries, k, map[k])
  <2>1. CASE p = S
    <3>1. k \in D /\ k < separator
      BY <1>2, <2>1 DEF Lower
    <3>2. Says(pg[S].entries, k, map[k])
      BY <1>3, <1>5, <2>1, <3>1 DEF Answers
    <3> QED
      BY <1>3, <1>5, <2>1, <3>1, <3>2
  <2>2. CASE p = R
    <3>1. k \in D /\ separator <= k
      BY <1>2, <2>2 DEF Upper
    <3>2. Says(pg[S].entries, k, map[k])
      BY <1>3, <1>5, <2>2, <3>1 DEF Answers
    <3> QED
      BY <1>3, <1>5, <2>2, <3>1, <3>2
  <2>3. CASE p \notin {S, R}
    <3>1. p # P /\ k \in span[p]
      BY <1>2, <1>4, <1>5, <2>3
    <3>2. pg2[p] = pg[p]
      BY <2>3, <3>1
    <3> QED
      BY <1>5, <3>1, <3>2 DEF Answers
  <2> QED
    BY <2>1, <2>2, <2>3
<1> QED
  BY <1>5 DEF Answers, span2

(* A root above the root, with one child. *)
LEMMA RootAbove ==
    ASSUME NEW pg, NEW lv, NEW root, NEW span, Tree(pg, lv, root, span), Keys # {},
           NEW N \in Pages, span[N] = {},
           NEW pg2, pg2[N] = InternalNode(<<>>, <<root>>), \A q \in Pages \ {N} : pg2[q] = pg[q]
    PROVE  Tree(pg2, [lv EXCEPT ![N] = lv[root] + 1], N, [span EXCEPT ![N] = Keys])
<1> DEFINE lv2 == [lv EXCEPT ![N] = lv[root] + 1]
           span2 == [span EXCEPT ![N] = Keys]
<1>1. /\ lv \in [Pages -> Nat] /\ span \in [Pages -> SUBSET Keys]
      /\ root \in Pages /\ span[root] = Keys /\ N # root
  BY DEF Tree
<1>2. /\ lv2 \in [Pages -> Nat] /\ span2 \in [Pages -> SUBSET Keys]
      /\ lv2[N] = lv[root] + 1 /\ span2[N] = Keys
      /\ \A q \in Pages \ {N} : lv2[q] = lv[q] /\ span2[q] = span[q]
  BY <1>1
<1> HIDE DEF lv2, span2
<1>3. \A p \in Pages \ {N} : span2[p] # {} => lv2[p] < lv2[N]
  <2>1. \A p \in Pages : lv[p] \in Nat /\ (span[p] # {} => lv[p] <= lv[root])
    BY DEF Tree
  <2> QED
    BY <1>1, <1>2, <2>1
<1>4. ASSUME NEW p \in Pages, NEW q \in Pages, span2[p] \cap span2[q] # {}
      PROVE  (lv2[p] = lv2[q] => p = q) /\ (lv2[p] < lv2[q] => span2[p] \subseteq span2[q])
  <2>1. span2[p] # {} /\ span2[q] # {} /\ lv2[p] \in Nat /\ lv2[q] \in Nat
    BY <1>2, <1>4
  <2>2. CASE p # N /\ q # N
    BY <1>2, <1>4, <2>2 DEF Tree
  <2>3. CASE q = N
    BY <1>2, <1>3, <2>1, <2>3
  <2>4. CASE p = N /\ q # N
    BY <1>3, <2>1, <2>4
  <2> QED
    BY <2>2, <2>3, <2>4
<1>5. ASSUME NEW p \in Pages, NEW x \in span2[p], NEW z \in span2[p], NEW y \in Keys,
             x < y, y < z
      PROVE  y \in span2[p]
  <2>1. CASE p = N
    BY <1>2, <2>1
  <2>2. CASE p # N
    BY <1>2, <1>5, <2>2 DEF Tree
  <2> QED
    BY <2>1, <2>2
<1>6. ASSUME NEW p \in Pages, span2[p] # {}
      PROVE  NodeIn(pg2[p], lv2, span2, span2[p], lv2[p])
  <2>1. CASE p # N
    <3>1. /\ pg2[p] = pg[p] /\ span2[p] = span[p] /\ lv2[p] = lv[p]
          /\ NodeIn(pg[p], lv, span, span[p], lv[p])
      BY <1>2, <1>6, <2>1 DEF Tree
    <3>2. CASE InternalIn(pg[p], lv, span, span[p], lv[p])
      <4>1. ASSUME NEW k \in span[p], NEW r \in DOMAIN pg[p].children,
                   Leads(pg[p].keys, k, r)
            PROVE  k \in span2[pg[p].children[r]] /\ lv2[pg[p].children[r]] = lv[p] - 1
        <5>1. /\ pg[p].children[r] \in Pages /\ k \in span[pg[p].children[r]]
              /\ lv[pg[p].children[r]] = lv[p] - 1
          BY <3>2, <4>1, ChildOf
        <5> QED
          BY <1>2, <5>1
      <4>2. InternalIn(pg[p], lv2, span2, span[p], lv[p])
        BY <3>2, <4>1 DEF InternalIn
      <4> QED
        BY <3>1, <4>2 DEF NodeIn
    <3> QED
      BY <3>1, <3>2 DEF NodeIn
  <2>2. CASE p = N
    <3>1. PICK node : node = pg2[N]
      OBVIOUS
    <3>2. node.kind = "internal" /\ node.keys = <<>> /\ node.children = <<root>>
      BY <3>1, InternalFields
    <3>3. /\ node.keys \in Seq(Keys) /\ node.children \in Seq(Pages)
          /\ Len(node.keys) = 0 /\ Len(node.children) = 1
          /\ DOMAIN node.keys = {} /\ DOMAIN node.children = {1} /\ node.children[1] = root
      BY <1>1, <3>2
    <3>4. lv2[root] = lv2[N] - 1 /\ span2[root] = Keys
      BY <1>1, <1>2
    <3>5. InternalIn(node, lv2, span2, span2[N], lv2[N])
      BY <1>2, <3>2, <3>3, <3>4 DEF InternalIn, Rising
    <3> QED
      BY <2>2, <3>1, <3>5 DEF NodeIn
  <2> QED
    BY <2>1, <2>2
<1>7. \A p \in Pages : span2[p] # {} => lv2[p] <= lv2[N]
  BY <1>2, <1>3
<1> QED
  <2>1. Tree(pg2, lv2, N, span2)
    BY <1>2, <1>4, <1>5, <1>6, <1>7 DEF Tree
  <2> QED
    BY <2>1 DEF lv2, span2

-----------------------------------------------------------------------------
(* The chain of the leaves *)

(* A page that is no leaf, or a leaf in the same place; its entries have keys of
   the leaf, or are as before. *)
KeepsPlace(pg, span, pg2, span2, p) ==
    /\ pg2[p].kind = "leaf" <=> pg[p].kind = "leaf"
    /\ pg[p].kind = "leaf" =>
          /\ span2[p] = span[p] /\ pg2[p].next = pg[p].next
          /\ \A i \in DOMAIN pg2[p].entries :
                \/ pg2[p].entries[i].key \in span[p]
                \/ \E j \in DOMAIN pg[p].entries :
                      pg[p].entries[j].key = pg2[p].entries[i].key

LEMMA ChainKept ==
    ASSUME NEW pg, NEW span \in [Pages -> SUBSET Keys], NEW pg2, NEW span2,
           \A p \in Pages : KeepsPlace(pg, span, pg2, span2, p)
    PROVE  /\ Linked(pg, span) => Linked(pg2, span2)
           /\ \A page : Unlinked(pg, page) => Unlinked(pg2, page)
<1>0. \A page : Unlinked(pg, page) => Unlinked(pg2, page)
  BY DEF KeepsPlace, Unlinked
<1> SUFFICES ASSUME NEW beyond, ChainIn(pg, span, beyond), NEW p \in Pages, pg[p].kind = "leaf"
             PROVE  LeafInChain(pg2, span2, beyond, p)
  BY <1>0 DEF Linked, ChainIn, KeepsPlace
<1>1. LeafInChain(pg, span, beyond, p) /\ span2[p] = span[p] /\ pg2[p].next = pg[p].next
  BY DEF ChainIn, KeepsPlace
<1>2. pg2[p].next # INVALID_PAGE_ID =>
         /\ pg2[p].next \in Pages /\ pg2[pg2[p].next].kind = "leaf"
         /\ beyond[p] = span2[pg2[p].next] \cup beyond[pg2[p].next]
  BY <1>1 DEF LeafInChain, KeepsPlace
<1>3. ASSUME NEW l \in beyond[p], NEW i \in DOMAIN pg2[p].entries
      PROVE  pg2[p].entries[i].key < l
  BY <1>1 DEF LeafInChain, KeepsPlace
<1>4. ASSUME NEW i \in DOMAIN pg2[p].entries
      PROVE  pg2[p].entries[i].key \in Keys
  BY <1>1 DEF LeafInChain, KeepsPlace
<1> QED
  BY <1>1, <1>2, <1>3, <1>4 DEF LeafInChain

(* A new leaf takes over where its left half goes on, before it is linked. *)
LEMMA ChainNewLeaf ==
    ASSUME NEW pg, NEW span \in [Pages -> SUBSET Keys], Linked(pg, span),
           NEW S \in Pages, NEW R \in Pages, R # S, span[R] = {},
           pg[S].kind = "leaf", pg[R].kind # "leaf", NEW pg2,
           \A q \in {S, R} :
              /\ pg2[q].kind = "leaf" /\ pg2[q].next = pg[S].next
              /\ \A i \in DOMAIN pg2[q].entries : pg2[q].entries[i].key \in span[S],
           \A q \in Pages \ {S, R} : pg2[q] = pg[q]
    PROVE  Linked(pg2, span) /\ Unlinked(pg2, R)
<1>1. PICK beyond : ChainIn(pg, span, beyond)
  BY DEF Linked
<1> DEFINE beyond2 == [beyond EXCEPT ![R] = beyond[S]]
<1>2. /\ beyond2 \in [Pages -> SUBSET Keys] /\ beyond2[R] = beyond[S]
      /\ \A q \in Pages \ {R} : beyond2[q] = beyond[q]
  BY <1>1 DEF ChainIn
<1> HIDE DEF beyond2
<1>3. \A p \in Pages : pg[p].kind = "leaf" => LeafInChain(pg, span, beyond, p) /\ pg[p].next # R
  BY <1>1 DEF ChainIn, LeafInChain, INVALID_PAGE_ID, Pages
<1>4. ASSUME NEW p \in Pages, pg2[p].kind = "leaf"
      PROVE  LeafInChain(pg2, span, beyond2, p) /\ pg2[p].next # R
  <2>1. PICK q \in Pages : q = IF p = R THEN S ELSE p
    OBVIOUS
  <2>2. /\ LeafInChain(pg, span, beyond, q) /\ pg[q].next # R /\ q # R
        /\ pg2[p].next = pg[q].next /\ beyond2[p] = beyond[q] /\ beyond2[q] = beyond[q]
    BY <1>2, <1>3, <1>4, <2>1
  <2>3. pg[q].next # INVALID_PAGE_ID =>
           /\ pg[q].next \in Pages /\ pg2[pg[q].next].kind = "leaf"
           /\ beyond2[p] = span[pg[q].next] \cup beyond2[pg[q].next]
    BY <1>2, <2>2 DEF LeafInChain
  <2>4. \A l \in beyond[q] : /\ \A k \in span[p] : k < l
                             /\ \A i \in DOMAIN pg2[p].entries : pg2[p].entries[i].key < l
    <3>1. CASE p \in {S, R}
      BY <2>1, <2>2, <3>1 DEF LeafInChain
    <3>2. CASE p \notin {S, R}
      BY <2>1, <2>2, <3>2 DEF LeafInChain
    <3> QED
      BY <3>1, <3>2
  <2>5. \A k \in span[p], l \in Keys : k < l => l \in span[p] \cup beyond[q]
    BY <2>1, <2>2 DEF LeafInChain
  <2>6. \A i \in DOMAIN pg2[p].entries : pg2[p].entries[i].key \in Keys
    <3>1. CASE p \in {S, R}
      BY <3>1
    <3>2. CASE p \notin {S, R}
      BY <2>1, <2>2, <3>2 DEF LeafInChain
    <3> QED
      BY <3>1, <3>2
  <2> QED
    BY <2>2, <2>3, <2>4, <2>5, <2>6 DEF LeafInChain
<1> QED
  BY <1>2, <1>4 DEF Linked, ChainIn, Unlinked

(* The left half points to the right one; its keys may be shared between them,
   or not yet. *)
LEMMA ChainHalves ==
    ASSUME NEW pg, NEW span \in [Pages -> SUBSET Keys], Linked(pg, span),
           NEW S \in Pages, NEW R \in Pages, R # S, span[R] = {}, span[S] # {},
           Unlinked(pg, R), pg[S].kind = "leaf", pg[R].kind = "leaf", pg[R].next = pg[S].next,
           NEW pg2, pg2[S].kind = "leaf", pg2[S].next = R,
           pg2[R].kind = "leaf", pg2[R].next = pg[R].next,
           \A q \in Pages \ {S, R} : /\ pg2[q].kind = "leaf" <=> pg[q].kind = "leaf"
                                     /\ pg[q].kind = "leaf" => pg2[q] = pg[q],
           NEW span2, \A q \in Pages \ {S, R} : pg[q].kind = "leaf" => span2[q] = span[q],
           span2[S] \cup span2[R] = span[S],
           \A l \in span2[R] : /\ \A k \in span2[S] : k < l
                               /\ \A i \in DOMAIN pg2[S].entries : pg2[S].entries[i].key < l,
           \A q \in {S, R} : \A i \in DOMAIN pg2[q].entries : pg2[q].entries[i].key \in span[S]
    PROVE  Linked(pg2, span2)
<1>1. PICK beyond : ChainIn(pg, span, beyond)
  BY DEF Linked
<1> DEFINE beyond2 == [beyond EXCEPT ![S] = span2[R] \cup beyond[S]]
<1>2. \A k \in Keys : k \in Int
  BY KeysAssumption
<1>3. /\ beyond2 \in [Pages -> SUBSET Keys] /\ beyond2[S] = span2[R] \cup beyond[S]
      /\ \A q \in Pages \ {S} : beyond2[q] = beyond[q]
  BY <1>1 DEF ChainIn
<1> HIDE DEF beyond2
<1>4. \A p \in Pages : pg[p].kind = "leaf" => LeafInChain(pg, span, beyond, p) /\ pg[p].next # R
  BY <1>1 DEF ChainIn, Unlinked
<1>5. /\ LeafInChain(pg, span, beyond, S) /\ LeafInChain(pg, span, beyond, R)
      /\ beyond[S] \subseteq Keys /\ span[S] \subseteq Keys
  BY <1>1, <1>4 DEF ChainIn
<1>6. beyond[R] = beyond[S]
  <2>1. pg[S].next = INVALID_PAGE_ID => beyond[R] = {} /\ beyond[S] = {}
    BY <1>5 DEF LeafInChain
  <2>2. pg[S].next # INVALID_PAGE_ID =>
           /\ beyond[S] = span[pg[S].next] \cup beyond[pg[S].next]
           /\ beyond[R] = span[pg[S].next] \cup beyond[pg[S].next]
    BY <1>5 DEF LeafInChain
  <2> QED
    BY <2>1, <2>2
<1>7. pg[S].next # S
  <2>1. SUFFICES ASSUME pg[S].next = S
                 PROVE  FALSE
    OBVIOUS
  <2>2. span[S] \subseteq beyond[S]
    BY <1>5, <2>1 DEF LeafInChain, INVALID_PAGE_ID, Pages
  <2>3. PICK k \in span[S] : k < k
    BY <1>5, <2>2 DEF LeafInChain
  <2> QED
    BY <1>2, <1>5, <2>3
<1>8. R # INVALID_PAGE_ID
  BY DEF INVALID_PAGE_ID, Pages
<1>9. LeafInChain(pg2, span2, beyond2, S)
  <2>1. \A l \in beyond[S], k \in span[S] : k < l
    BY <1>5 DEF LeafInChain
  <2>2. \A l \in beyond2[S] : /\ \A k \in span2[S] : k < l
                              /\ \A i \in DOMAIN pg2[S].entries : pg2[S].entries[i].key < l
    BY <1>3, <2>1
  <2>3. \A k \in span2[S], l \in Keys : k < l => l \in span2[S] \cup beyond2[S]
    BY <1>3, <1>5 DEF LeafInChain
  <2> QED
    BY <1>3, <1>6, <1>8, <2>2, <2>3 DEF LeafInChain
<1>10. LeafInChain(pg2, span2, beyond2, R)
  <2>1. \A l \in beyond[S], k \in span[S] : k < l
    BY <1>5 DEF LeafInChain
  <2>2. \A l \in beyond2[R] : /\ \A k \in span2[R] : k < l
                              /\ \A i \in DOMAIN pg2[R].entries : pg2[R].entries[i].key < l
    BY <1>3, <1>6, <2>1
  <2>3. ASSUME NEW k \in span2[R], NEW l \in Keys, k < l
        PROVE  l \in span2[R] \cup beyond2[R]
    <3>1. k \in span[S] /\ k \in Int /\ l \in Int /\ ~(l < k)
      BY <1>2, <1>5, <2>3
    <3>2. l \in span[S] \cup beyond[S]
      BY <1>5, <2>3, <3>1 DEF LeafInChain
    <3>3. l \notin span2[S]
      BY <3>1
    <3> QED
      BY <1>3, <1>6, <3>2, <3>3
  <2>4. pg2[R].next # INVALID_PAGE_ID =>
           /\ pg2[R].next \in Pages /\ pg2[pg2[R].next].kind = "leaf"
           /\ beyond2[R] = span2[pg2[R].next] \cup beyond2[pg2[R].next]
    <3>1. SUFFICES ASSUME pg2[R].next # INVALID_PAGE_ID
                   PROVE  /\ pg2[R].next \in Pages /\ pg2[pg2[R].next].kind = "leaf"
                          /\ beyond2[R] = span2[pg2[R].next] \cup beyond2[pg2[R].next]
      OBVIOUS
    <3>2. PICK n : n = pg[S].next
      OBVIOUS
    <3>3. n \in Pages /\ n \notin {S, R} /\ pg[n].kind = "leaf" /\ pg2[R].next = n
      BY <1>4, <1>5, <1>7, <3>1, <3>2 DEF LeafInChain
    <3>4. beyond[S] = span[n] \cup beyond[n]
      BY <1>5, <3>1, <3>2 DEF LeafInChain
    <3> QED
      BY <1>3, <1>6, <3>3, <3>4
  <2>5. pg2[R].next = INVALID_PAGE_ID => beyond2[R] = {}
    BY <1>3, <1>5 DEF LeafInChain
  <2> QED
    BY <2>2, <2>3, <2>4, <2>5 DEF LeafInChain
<1>11. ASSUME NEW p \in Pages \ {S, R}, pg[p].kind = "leaf"
       PROVE  LeafInChain(pg2, span2, beyond2, p)
  <2>1. /\ LeafInChain(pg, span, beyond, p) /\ pg[p].next # R
        /\ pg2[p] = pg[p] /\ span2[p] = span[p] /\ beyond2[p] = beyond[p]
    BY <1>3, <1>4, <1>11
  <2>2. pg[p].next # INVALID_PAGE_ID =>
           /\ pg[p].next \in Pages /\ pg2[pg[p].next].kind = "leaf"
           /\ beyond[p] = span2[pg[p].next] \cup beyond2[pg[p].next]
    <3>1. CASE pg[p].next = S
      BY <1>3, <2>1, <3>1 DEF LeafInChain
    <3>2. CASE pg[p].next # S
      BY <1>3, <2>1, <3>2 DEF LeafInChain
    <3> QED
      BY <3>1, <3>2
  <2> QED
    BY <2>1, <2>2 DEF LeafInChain
<1> QED
  BY <1>3, <1>9, <1>10, <1>11 DEF Linked, ChainIn

(* Both halves of a node are written, and its keys shared between them or not. *)
LEMMA SplitLinks ==
    ASSUME NEW view, NEW lv, NEW root, NEW span, Tree(view, lv, root, span),
           NEW S \in Pages, NEW R \in Pages, R # S, span[S] # {}, span[R] = {},
           NEW left, NEW right, NEW separator, Halves(view[S], left, right, separator),
           NEW pg, Linked(pg, span), pg[S] = view[S], pg[R] = right,
           view[S].kind = "leaf" =>
              left.next = R /\ right.next = view[S].next /\ Unlinked(pg, R),
           NEW pg2, HalvesPut(pg, pg2, S, R, left, right),
           NEW span2, span2 = span \/ span2 = SplitSpans(span, S, R, separator)
    PROVE  Linked(pg2, span2)
<1>1. /\ span \in [Pages -> SUBSET Keys] /\ separator \in span[S]
      /\ NodeIn(view[S], lv, span, span[S], lv[S])
      /\ NodeIn(left, lv, span, Lower(span[S], separator), lv[S])
      /\ NodeIn(right, lv, span, Upper(span[S], separator), lv[S])
      /\ \A k \in Keys : k \in Int
  <2>1. /\ separator \in span[S]
        /\ NodeIn(left, lv, span, Lower(span[S], separator), lv[S])
        /\ NodeIn(right, lv, span, Upper(span[S], separator), lv[S])
    BY HalfOfNode
  <2> QED
    BY <2>1, KeysAssumption DEF Tree
<1>2. /\ \A q \in Pages \ {S, R} : span2[q] = span[q]
      /\ \/ span2[S] = span[S] /\ span2[R] = {}
         \/ span2[S] = Lower(span[S], separator) /\ span2[R] = Upper(span[S], separator)
      /\ span2 \in [Pages -> SUBSET Keys]
  BY <1>1 DEF SplitSpans, Lower, Upper
<1>5. /\ pg2[S] = left /\ pg2[R] = right
      /\ \A q \in Pages \ {S, R} : /\ pg2[q].kind = "leaf" <=> pg[q].kind = "leaf"
                                   /\ pg[q].kind = "leaf" => pg2[q] = pg[q]
  BY DEF HalvesPut
<1>3. CASE view[S].kind = "leaf"
  <2>1. /\ left.kind = "leaf" /\ right.kind = "leaf"
        /\ LeafIn(left, Lower(span[S], separator), lv[S])
        /\ LeafIn(right, Upper(span[S], separator), lv[S])
    BY <1>1, <1>3, InternalFields DEF Halves, NodeIn, InternalIn
  <2>2. /\ \A k \in Lower(span[S], separator) : k \in span[S] /\ k < separator /\ k \in Int
        /\ \A k \in Upper(span[S], separator) : k \in span[S] /\ separator <= k /\ k \in Int
        /\ separator \in Int
    BY <1>1 DEF Lower, Upper
  <2>3. /\ \A i \in DOMAIN left.entries : left.entries[i].key \in Lower(span[S], separator)
        /\ \A i \in DOMAIN right.entries : right.entries[i].key \in Upper(span[S], separator)
    BY <2>1 DEF LeafIn
  <2>4. span2[S] \cup span2[R] = span[S]
    <3>1. \A k \in span[S] : k < separator \/ separator <= k
      BY <1>1, <2>2
    <3> QED
      BY <1>2, <2>2, <3>1 DEF Lower, Upper
  <2>5. \A l \in span2[R] : /\ \A k \in span2[S] : k < l
                            /\ \A i \in DOMAIN left.entries : left.entries[i].key < l
    <3>1. ASSUME NEW l \in Upper(span[S], separator), NEW k \in Lower(span[S], separator)
          PROVE  k < l
      BY <2>2
    <3> QED
      BY <1>2, <2>3, <3>1
  <2>6. /\ \A i \in DOMAIN left.entries : left.entries[i].key \in span[S]
        /\ \A i \in DOMAIN right.entries : right.entries[i].key \in span[S]
    BY <2>2, <2>3
  <2> QED
    <3>1. /\ span \in [Pages -> SUBSET Keys]
          /\ pg[S].kind = "leaf" /\ pg[R].kind = "leaf" /\ pg[R].next = pg[S].next
          /\ Unlinked(pg, R)
      BY <1>1, <1>3, <2>1
    <3>2. /\ pg2[S].kind = "leaf" /\ pg2[S].next = R
          /\ pg2[R].kind = "leaf" /\ pg2[R].next = pg[R].next
      BY <1>3, <1>5, <2>1
    <3>3. \A q \in Pages \ {S, R} : pg[q].kind = "leaf" => span2[q] = span[q]
      BY <1>2
    <3>4. \A l \in span2[R] : /\ \A k \in span2[S] : k < l
                              /\ \A i \in DOMAIN pg2[S].entries : pg2[S].entries[i].key < l
      BY <1>5, <2>5
    <3>5. \A q \in {S, R} : \A i \in DOMAIN pg2[q].entries : pg2[q].entries[i].key \in span[S]
      BY <1>5, <2>6
    <3> QED
      BY <1>5, <2>4, <3>1, <3>2, <3>3, <3>4, <3>5, ChainHalves, SMTT(30)
<1>4. CASE view[S].kind # "leaf"
  <2>1. left.kind # "leaf" /\ right.kind # "leaf"
    BY <1>4, InternalFields DEF Halves, LeftInternal, RightInternal
  <2>3. \A p \in Pages : pg2[p].kind = "leaf" <=> pg[p].kind = "leaf"
    BY <1>4, <1>5, <2>1
  <2>4. \A p \in Pages : pg[p].kind = "leaf" => span2[p] = span[p] /\ pg2[p] = pg[p]
    BY <1>2, <1>4, <1>5, <2>1
  <2>5. \A p \in Pages : KeepsPlace(pg, span, pg2, span2, p)
    BY <2>3, <2>4 DEF KeepsPlace
  <2> QED
    BY <1>1, <1>2, <2>5, ChainKept
<1> QED
  BY <1>3, <1>4

-----------------------------------------------------------------------------
(* The tree when part of it is lost *)

Monotone(hat) ==
    /\ hat \in [Keys -> Keys]
    /\ \A k \in Keys : hat[k] <= k
    /\ \A k, l \in Keys : k <= l => hat[k] <= hat[l]

(* Which keys come to a page when the descent to k goes where the one to hat[k]
   went, from the node top. *)
Followed(lv, span, top, hat) ==
    [q \in Pages |-> IF lv[q] <= lv[top] THEN {k \in Keys : hat[k] \in span[q]} ELSE {}]

NodeKeys(node) ==
    IF node.kind = "leaf" THEN {node.entries[i].key : i \in DOMAIN node.entries}
    ELSE {node.keys[i] : i \in DOMAIN node.keys}

(* A tree of part of the keys: the others follow the descent of a smaller key,
   and find nothing. *)
LEMMA FollowedTree ==
    ASSUME NEW pg, NEW lv, NEW root, NEW span, Tree(pg, lv, root, span),
           NEW hat, Monotone(hat), NEW top \in Pages, \A k \in Keys : hat[k] \in span[top],
           NEW pg2,
           \A p \in Pages : Followed(lv, span, top, hat)[p] # {} =>
              /\ \A k \in NodeKeys(pg2[p]) : hat[k] = k
              /\ \E E \in SUBSET Followed(lv, span, top, hat)[p] :
                    /\ \A k \in Followed(lv, span, top, hat)[p] : hat[k] \in E
                    /\ NodeIn(pg2[p], lv, span, E, lv[p])
    PROVE  Tree(pg2, lv, top, Followed(lv, span, top, hat))
<1> DEFINE span2 == Followed(lv, span, top, hat)
<1>1. lv \in [Pages -> Nat] /\ span \in [Pages -> SUBSET Keys] /\ hat \in [Keys -> Keys]
  BY DEF Tree, Monotone
<1>2. /\ span2 \in [Pages -> SUBSET Keys]
      /\ \A p \in Pages, k \in Keys : k \in span2[p] <=> lv[p] <= lv[top] /\ hat[k] \in span[p]
      /\ \A p \in Pages : span2[p] \subseteq Keys
  BY DEF Followed
<1> HIDE DEF span2
<1>3. span2[top] = Keys
  <2>1. lv[top] <= lv[top]
    BY <1>1
  <2>2. \A k \in Keys : k \in span2[top]
    BY <1>2, <2>1
  <2> QED
    BY <1>2, <2>2
<1>4. \A p \in Pages : span2[p] # {} => lv[p] <= lv[top]
  BY <1>2
<1>5. ASSUME NEW p \in Pages, NEW q \in Pages, span2[p] \cap span2[q] # {}
      PROVE  (lv[p] = lv[q] => p = q) /\ (lv[p] < lv[q] => span2[p] \subseteq span2[q])
  <2>1. PICK k \in Keys : k \in span2[p] /\ k \in span2[q]
    BY <1>2, <1>5
  <2>2. span[p] \cap span[q] # {} /\ lv[q] <= lv[top]
    BY <1>2, <2>1
  <2>3. (lv[p] = lv[q] => p = q) /\ (lv[p] < lv[q] => span[p] \subseteq span[q])
    BY <2>2 DEF Tree
  <2> QED
    BY <1>2, <2>2, <2>3
<1>6. ASSUME NEW p \in Pages, NEW x \in span2[p], NEW z \in span2[p], NEW y \in Keys,
             x < y, y < z
      PROVE  y \in span2[p]
  <2>1. /\ x \in Keys /\ z \in Keys /\ x \in Int /\ y \in Int /\ z \in Int
        /\ hat[x] \in span[p] /\ hat[z] \in span[p] /\ lv[p] <= lv[top]
    BY <1>2, KeysAssumption
  <2>2. hat[x] <= hat[y] /\ hat[y] <= hat[z]
    BY <1>6, <2>1 DEF Monotone
  <2>3. hat[x] \in Int /\ hat[y] \in Int /\ hat[z] \in Int /\ hat[y] \in Keys
    BY <1>1, <2>1, KeysAssumption
  <2>4. hat[y] \in span[p]
    <3>1. CASE hat[y] = hat[x] \/ hat[y] = hat[z]
      BY <2>1, <3>1
    <3>2. CASE hat[x] < hat[y] /\ hat[y] < hat[z]
      BY <2>1, <2>3, <3>2 DEF Tree
    <3> QED
      BY <2>2, <2>3, <3>1, <3>2
  <2> QED
    BY <1>2, <2>1, <2>4
<1>7. ASSUME NEW p \in Pages, span2[p] # {}
      PROVE  NodeIn(pg2[p], lv, span2, span2[p], lv[p])
  <2>1. PICK E \in SUBSET span2[p] :
            /\ \A k \in span2[p] : hat[k] \in E
            /\ NodeIn(pg2[p], lv, span, E, lv[p])
    BY <1>7 DEF span2
  <2>2. \A k \in NodeKeys(pg2[p]) : hat[k] = k
    BY <1>7 DEF span2
  <2> DEFINE node == pg2[p]
  <2> HIDE DEF node
  <2>3. CASE LeafIn(node, E, lv[p])
    <3>1. LeafIn(node, span2[p], lv[p])
      BY <2>3 DEF LeafIn
    <3> QED
      BY <3>1 DEF NodeIn, node
  <2>4. CASE InternalIn(node, lv, span, E, lv[p])
    <3>1. node.keys \in Seq(Keys) /\ node.kind = "internal"
      BY <2>4 DEF InternalIn
    <3>2. \A i \in 1 .. Len(node.keys) : /\ node.keys[i] \in Keys /\ node.keys[i] \in Int
                                         /\ hat[node.keys[i]] = node.keys[i]
      <4>1. \A i \in 1 .. Len(node.keys) : node.keys[i] \in NodeKeys(node)
        BY <3>1, KeysAreInts DEF NodeKeys
      <4> QED
        BY <2>2, <3>1, <4>1, KeysAreInts DEF node
    <3>3. ASSUME NEW k \in span2[p], NEW r \in DOMAIN node.children, Leads(node.keys, k, r)
          PROVE  k \in span2[node.children[r]] /\ lv[node.children[r]] = lv[p] - 1
      <4>1. k \in Keys /\ k \in Int /\ hat[k] \in Keys /\ hat[k] \in Int /\ hat[k] <= k /\ hat[k] \in E
        BY <1>1, <1>2, <2>1, KeysAssumption DEF Monotone
      <4>2. \A i \in 1 .. Len(node.keys) : node.keys[i] <= k <=> node.keys[i] <= hat[k]
        <5>1. ASSUME NEW i \in 1 .. Len(node.keys)
              PROVE  node.keys[i] <= k <=> node.keys[i] <= hat[k]
          <6>1. node.keys[i] <= k => hat[node.keys[i]] <= hat[k]
            BY <3>2, <4>1 DEF Monotone
          <6> QED
            BY <3>2, <4>1, <6>1
        <5> QED
          BY <5>1
      <4>3. Leads(node.keys, hat[k], r)
        BY <3>3, <4>2 DEF Leads
      <4>4. hat[k] \in span[node.children[r]] /\ lv[node.children[r]] = lv[p] - 1
        BY <2>4, <4>1, <4>3 DEF InternalIn
      <4>5. node.children[r] \in Pages
        <5>1. node.children \in Seq(Pages)
          BY <2>4 DEF InternalIn
        <5> QED
          BY <5>1, LenProperties, ElementOfSeq
      <4>6. lv[p] <= lv[top] /\ lv[p] \in Nat /\ lv[top] \in Nat
        BY <1>1, <1>4, <1>7
      <4> QED
        BY <1>2, <4>1, <4>4, <4>5, <4>6
    <3>4. InternalIn(node, lv, span2, span2[p], lv[p])
      BY <2>4, <3>3 DEF InternalIn
    <3> QED
      BY <3>4 DEF NodeIn, node
  <2> QED
    BY <2>1, <2>3, <2>4 DEF NodeIn, node
<1> QED
  <2>1. Tree(pg2, lv, top, span2)
    BY <1>1, <1>2, <1>3, <1>4, <1>5, <1>6, <1>7 DEF Tree
  <2> QED
    BY <2>1 DEF span2

(* Keys that are followed elsewhere are not found any more. *)
Kept(map, hat) == [k \in Keys |-> IF hat[k] = k THEN map[k] ELSE None]

(* ... answers for the keys that are left, and for no other. *)
LEMMA FollowedAnswers ==
    ASSUME NEW lv, NEW span \in [Pages -> SUBSET Keys], NEW top, NEW hat, NEW pg2, NEW map,
           \A p \in Pages : \A k \in Followed(lv, span, top, hat)[p] :
              pg2[p].kind = "leaf" =>
                 /\ \A l \in NodeKeys(pg2[p]) : hat[l] = l
                 /\ hat[k] = k => Says(pg2[p].entries, k, map[k])
    PROVE  Answers(pg2, Followed(lv, span, top, hat), Kept(map, hat))
<1> SUFFICES ASSUME NEW p \in Pages, pg2[p].kind = "leaf",
                    NEW k \in Followed(lv, span, top, hat)[p]
             PROVE  Says(pg2[p].entries, k, Kept(map, hat)[k])
  BY DEF Answers
<1>1. k \in Keys
  BY DEF Followed
<1>2. CASE hat[k] = k
  BY <1>1, <1>2 DEF Kept
<1>3. CASE hat[k] # k
  <2>1. Kept(map, hat)[k] = None
    BY <1>1, <1>3 DEF Kept
  <2>2. \A i \in DOMAIN pg2[p].entries : pg2[p].entries[i].key # k
    BY <1>3 DEF NodeKeys
  <2> QED
    BY <2>1, <2>2 DEF Says
<1> QED
  BY <1>2, <1>3

(* Keys that follow the descent of a smaller one stay in order. *)
LEMMA ChainFollowed ==
    ASSUME NEW pg, NEW span, Linked(pg, span), NEW hat, Monotone(hat), NEW span2,
           \A p \in Pages : pg[p].kind = "leaf" => span2[p] = {k \in Keys : hat[k] \in span[p]}
    PROVE  Linked(pg, span2)
<1>1. PICK beyond : ChainIn(pg, span, beyond)
  BY DEF Linked
<1> DEFINE beyond2 == [p \in Pages |-> {k \in Keys : hat[k] \in beyond[p]}]
<1>2. /\ beyond2 \in [Pages -> SUBSET Keys]
      /\ \A p \in Pages : beyond2[p] = {k \in Keys : hat[k] \in beyond[p]}
  OBVIOUS
<1> HIDE DEF beyond2
<1>3. /\ hat \in [Keys -> Keys] /\ \A k \in Keys : k \in Int /\ hat[k] \in Keys /\ hat[k] \in Int
      /\ \A k \in Keys : hat[k] <= k
      /\ \A k, l \in Keys : k <= l => hat[k] <= hat[l]
  BY KeysAssumption DEF Monotone
<1>4. ASSUME NEW p \in Pages, pg[p].kind = "leaf"
      PROVE  LeafInChain(pg, span2, beyond2, p)
  <2>1. /\ LeafInChain(pg, span, beyond, p) /\ span2[p] = {k \in Keys : hat[k] \in span[p]}
        /\ beyond2[p] = {k \in Keys : hat[k] \in beyond[p]}
    BY <1>1, <1>2, <1>4 DEF ChainIn
  <2>2. pg[p].next # INVALID_PAGE_ID =>
           /\ pg[p].next \in Pages /\ pg[pg[p].next].kind = "leaf"
           /\ beyond2[p] = span2[pg[p].next] \cup beyond2[pg[p].next]
    <3>1. SUFFICES ASSUME pg[p].next # INVALID_PAGE_ID
                   PROVE  /\ pg[p].next \in Pages /\ pg[pg[p].next].kind = "leaf"
                          /\ beyond2[p] = span2[pg[p].next] \cup beyond2[pg[p].next]
      OBVIOUS
    <3>2. PICK n : n = pg[p].next
      OBVIOUS
    <3>3. n \in Pages /\ pg[n].kind = "leaf" /\ beyond[p] = span[n] \cup beyond[n]
      BY <2>1, <3>1, <3>2 DEF LeafInChain
    <3>4. /\ span2[n] = {k \in Keys : hat[k] \in span[n]}
          /\ beyond2[n] = {k \in Keys : hat[k] \in beyond[n]}
      BY <1>2, <3>3
    <3> QED
      BY <2>1, <3>2, <3>3, <3>4
  <2>3. ASSUME NEW l \in beyond2[p]
        PROVE  /\ \A k \in span2[p] : k < l
               /\ \A i \in DOMAIN pg[p].entries : pg[p].entries[i].key < l
    <3>1. l \in Keys /\ hat[l] \in beyond[p]
      BY <2>1, <2>3
    <3>2. ASSUME NEW k \in span2[p]
          PROVE  k < l
      <4>1. k \in Keys /\ hat[k] < hat[l]
        BY <2>1, <3>1 DEF LeafInChain
      <4>2. ~(l <= k)
        BY <1>3, <3>1, <4>1
      <4> QED
        BY <1>3, <3>1, <4>1, <4>2
    <3>3. ASSUME NEW i \in DOMAIN pg[p].entries
          PROVE  pg[p].entries[i].key < l
      <4>1. pg[p].entries[i].key < hat[l] /\ hat[l] <= l /\ hat[l] \in Int /\ l \in Int
        BY <1>3, <2>1, <3>1 DEF LeafInChain
      <4>2. pg[p].entries[i].key \in Int
        BY <2>1, KeysAssumption DEF LeafInChain
      <4> QED
        BY <4>1, <4>2
    <3> QED
      BY <3>2, <3>3
  <2>4. ASSUME NEW k \in span2[p], NEW l \in Keys, k < l
        PROVE  l \in span2[p] \cup beyond2[p]
    <3>1. k \in Keys /\ hat[k] \in span[p] /\ hat[k] <= hat[l]
      BY <1>3, <2>1, <2>4
    <3>2. hat[l] = hat[k] \/ hat[k] < hat[l]
      BY <1>3, <3>1
    <3>3. hat[l] \in span[p] \cup beyond[p]
      BY <1>3, <2>1, <3>1, <3>2 DEF LeafInChain
    <3> QED
      BY <2>1, <3>3
  <2>5. pg[p].next = INVALID_PAGE_ID => beyond2[p] = {}
    BY <2>1 DEF LeafInChain
  <2> QED
    BY <2>1, <2>2, <2>3, <2>4, <2>5 DEF LeafInChain
<1> QED
  BY <1>2, <1>4 DEF Linked, ChainIn

(* The keys up to one of them, if there are any. *)
InitialIn(S) ==
    /\ Keys # {} => S # {}
    /\ \A y \in S, x \in Keys : x < y => x \in S

(* ... and a page with the least keys still has them. *)
LEMMA FollowedInitial ==
    ASSUME NEW lv, NEW span \in [Pages -> SUBSET Keys], NEW top, NEW hat, Monotone(hat),
           NEW h \in Pages, lv[h] <= lv[top], InitialIn(span[h])
    PROVE  InitialIn(Followed(lv, span, top, hat)[h])
<1> DEFINE S == span[h]
           T == Followed(lv, span, top, hat)[h]
<1>1. T = {k \in Keys : hat[k] \in S} /\ S \subseteq Keys /\ hat \in [Keys -> Keys]
  BY DEF Followed, Monotone
<1>2. \A k \in Keys : k \in Int
  BY KeysAssumption
<1>3. \A y \in S, x \in Keys : x < y => x \in S
  BY DEF InitialIn
<1>4. \A y \in S, x \in Keys : x <= y => x \in S
  <2>1. ASSUME NEW y \in S, NEW x \in Keys, x <= y
        PROVE  x \in S
    <3>1. x = y \/ x < y
      BY <1>1, <1>2, <2>1
    <3> QED
      BY <1>3, <3>1
  <2> QED
    BY <2>1
<1>5. Keys # {} => T # {}
  <2>1. ASSUME Keys # {}
        PROVE  T # {}
    <3>1. PICK y \in S : TRUE
      BY <2>1 DEF InitialIn
    <3>2. hat[y] <= y /\ hat[y] \in Keys /\ y \in Keys
      BY <1>1 DEF Monotone
    <3> QED
      BY <1>1, <1>4, <3>2
  <2> QED
    BY <2>1
<1>6. ASSUME NEW y \in T, NEW x \in Keys, x < y
      PROVE  x \in T
  <2>1. y \in Keys /\ hat[y] \in S /\ x <= y
    BY <1>1, <1>2, <1>6
  <2>2. hat[x] <= hat[y] /\ hat[x] \in Keys
    BY <1>1, <2>1 DEF Monotone
  <2> QED
    BY <1>1, <1>4, <2>1, <2>2
<1> QED
  BY <1>5, <1>6 DEF InitialIn

(* A subtree with the least keys is a tree of its own (the root of a stale
   header): the keys that are greater follow its greatest one. *)
LEMMA SubTree ==
    ASSUME NEW pg, NEW lv, NEW root, NEW span, Tree(pg, lv, root, span),
           NEW map, Answers(pg, span, map),
           NEW top \in Pages, InitialIn(span[top])
    PROVE  \E span2, map2 :
              /\ Tree(pg, lv, top, span2) /\ Answers(pg, span2, map2)
              /\ map2 = [k \in Keys |-> map2[k]]
              /\ \A k \in Keys : map2[k] \in {map[k], None}
              /\ Linked(pg, span) => Linked(pg, span2)
<1> DEFINE S == span[top]
<1>1. /\ lv \in [Pages -> Nat] /\ span \in [Pages -> SUBSET Keys] /\ S \subseteq Keys
      /\ \A k \in Keys : k \in Int
      /\ \A y \in S, x \in Keys : x < y => x \in S
  BY KeysAssumption DEF Tree, InitialIn
<1>2. PICK m : S # Keys => m \in S /\ \A x \in S : x <= m
  <2>1. CASE S = Keys
    BY <2>1
  <2>2. CASE S # Keys
    <3>1. PICK y \in Keys : y \notin S
      BY <1>1, <2>2
    <3>2. S # {} /\ S \in SUBSET Int
      BY <1>1, <3>1 DEF InitialIn
    <3>3. y \in Int /\ \A x \in S : x <= y
      BY <1>1, <3>1
    <3>4. \E n \in S : \A x \in S : x <= n
      BY <3>2, <3>3, GreatestExists
    <3> QED
      BY <3>4
  <2> QED
    BY <2>1, <2>2
<1> DEFINE hat == [k \in Keys |-> IF k \in S THEN k ELSE m]
           span2 == Followed(lv, span, top, hat)
<1>3. /\ \A k \in Keys : hat[k] = IF k \in S THEN k ELSE m
      /\ \A k \in Keys : k \notin S => m \in S /\ m \in Keys /\ m < k
  BY <1>1, <1>2
<1>4. \A k \in Keys : hat[k] \in S
  BY <1>3
<1>5. Monotone(hat)
  <2>1. hat \in [Keys -> Keys]
    BY <1>1, <1>3
  <2>2. \A k \in Keys : hat[k] <= k
    BY <1>1, <1>3
  <2>3. ASSUME NEW k \in Keys, NEW l \in Keys, k <= l
        PROVE  hat[k] <= hat[l]
    <3>1. CASE k \in S /\ l \in S
      BY <1>3, <2>3, <3>1
    <3>2. CASE k \in S /\ l \notin S
      BY <1>2, <1>3, <3>2
    <3>3. CASE k \notin S /\ l \in S
      <4>1. k = l \/ k < l
        BY <1>1, <2>3
      <4> QED
        BY <1>1, <3>3, <4>1
    <3>4. CASE k \notin S /\ l \notin S
      BY <1>1, <1>3, <3>4
    <3> QED
      BY <3>1, <3>2, <3>3, <3>4
  <2> HIDE DEF hat
  <2> QED
    BY <2>1, <2>2, <2>3 DEF Monotone
<1> HIDE DEF hat
<1>6. ASSUME NEW p \in Pages, span2[p] # {}
      PROVE  /\ span[p] \subseteq S /\ span[p] \subseteq span2[p]
             /\ \A k \in span2[p] : hat[k] \in span[p]
             /\ span[p] # {}
  <2>1. PICK k \in Keys : lv[p] <= lv[top] /\ hat[k] \in span[p]
    BY <1>6 DEF Followed
  <2>2. span[p] \cap S # {}
    BY <1>4, <2>1
  <2>3. span[p] \subseteq S
    <3>1. lv[p] = lv[top] \/ lv[p] < lv[top]
      BY <1>1, <2>1
    <3>2. (lv[p] = lv[top] => p = top) /\ (lv[p] < lv[top] => span[p] \subseteq span[top])
      BY <2>2 DEF Tree
    <3> QED
      BY <3>1, <3>2
  <2>4. \A l \in span[p] : l \in Keys /\ hat[l] = l
    BY <1>1, <1>3, <2>3
  <2> QED
    BY <2>1, <2>3, <2>4 DEF Followed
<1>7. ASSUME NEW p \in Pages, span2[p] # {}
      PROVE  /\ NodeIn(pg[p], lv, span, span[p], lv[p])
             /\ \A k \in NodeKeys(pg[p]) : hat[k] = k
  <2>1. NodeIn(pg[p], lv, span, span[p], lv[p])
    BY <1>6, <1>7 DEF Tree
  <2>2. NodeKeys(pg[p]) \subseteq span[p]
    BY <2>1 DEF NodeIn, LeafIn, InternalIn, NodeKeys
  <2>3. \A k \in S : hat[k] = k
    BY <1>1, <1>3
  <2> QED
    BY <1>6, <1>7, <2>1, <2>2, <2>3
<1>8. Tree(pg, lv, top, span2)
  <2>1. \A p \in Pages : span2[p] # {} =>
            /\ \A k \in NodeKeys(pg[p]) : hat[k] = k
            /\ \E E \in SUBSET span2[p] :
                  /\ \A k \in span2[p] : hat[k] \in E
                  /\ NodeIn(pg[p], lv, span, E, lv[p])
    BY <1>6, <1>7
  <2> QED
    BY <1>4, <1>5, <2>1, FollowedTree
<1>9. Answers(pg, span2, Kept(map, hat))
  <2>1. ASSUME NEW p \in Pages, NEW k \in span2[p], pg[p].kind = "leaf"
        PROVE  /\ \A l \in NodeKeys(pg[p]) : hat[l] = l
               /\ hat[k] = k => Says(pg[p].entries, k, map[k])
    <3>1. hat[k] \in span[p]
      BY <1>6
    <3> QED
      BY <1>7, <2>1, <3>1 DEF Answers
  <2> HIDE DEF hat
  <2> QED
    BY <1>1, <2>1, FollowedAnswers
<1>10. /\ Kept(map, hat) = [k \in Keys |-> Kept(map, hat)[k]]
       /\ \A k \in Keys : Kept(map, hat)[k] \in {map[k], None}
  BY DEF Kept
<1>11. ASSUME NEW p \in Pages, pg[p].kind = "leaf"
       PROVE  span2[p] = {k \in Keys : hat[k] \in span[p]}
  <2>1. CASE span[p] = {}
    BY <2>1 DEF Followed
  <2>2. CASE span[p] # {}
    <3>1. lv[p] = 0
      BY <1>11, <2>2 DEF Tree, NodeIn, LeafIn, InternalIn
    <3> QED
      BY <1>1, <3>1 DEF Followed
  <2> QED
    BY <2>1, <2>2
<1>12. Linked(pg, span) => Linked(pg, span2)
  <2> HIDE DEF span2
  <2> QED
    BY <1>5, <1>11, ChainFollowed
<1> QED
  BY <1>8, <1>9, <1>10, <1>12

(* The right half of a node is lost: its keys follow the greatest one of the
   left half. *)
LEMMA CutTree ==
    ASSUME NEW pg, NEW lv, NEW root, NEW span, Tree(pg, lv, root, span),
           NEW map, Answers(pg, span, map),
           NEW S \in Pages, span[S] # {},
           NEW left, NEW right, NEW separator, Halves(pg[S], left, right, separator),
           NEW pg2, pg2[S] = left, \A q \in Pages \ {S} : span[q] # {} => pg2[q] = pg[q]
    PROVE  \E span2, map2 :
              /\ Tree(pg2, lv, root, span2) /\ Answers(pg2, span2, map2)
              /\ map2 = [k \in Keys |-> map2[k]]
              /\ \A k \in Keys : map2[k] \in {map[k], None}
              /\ \A p \in Pages : InitialIn(span[p]) => InitialIn(span2[p])
              /\ Linked(pg2, span) => Linked(pg2, span2)
<1> DEFINE D == span[S]
           L == Lower(D, separator)
           U == Upper(D, separator)
<1>1. /\ lv \in [Pages -> Nat] /\ span \in [Pages -> SUBSET Keys] /\ D \subseteq Keys
      /\ root \in Pages /\ span[root] = Keys
      /\ \A k \in Keys : k \in Int
  BY KeysAssumption DEF Tree
<1>2. /\ separator \in D /\ \E k \in D : k < separator
      /\ NodeIn(left, lv, span, L, lv[S])
  BY HalfOfNode
<1>3. /\ L \subseteq D /\ U \subseteq D /\ separator \in Int
      /\ \A k \in D : k \in L <=> k < separator
      /\ \A k \in D : k \in U <=> ~(k < separator)
  <2>1. \A k \in D : separator <= k <=> ~(k < separator)
    BY <1>1, <1>2
  <2> QED
    BY <1>1, <1>2, <2>1 DEF Lower, Upper
<1>4. PICK m \in L : \A x \in L : x <= m
  <2>1. PICK k \in D : k < separator
    BY <1>2
  <2>2. k \in L /\ \A x \in L : x \in Int /\ x <= separator
    BY <1>1, <1>3, <2>1
  <2> HIDE DEF L
  <2>3. L # {} /\ L \in SUBSET Int /\ \A x \in L : x <= separator
    BY <2>2
  <2> QED
    BY <1>3, <2>3, GreatestExists
<1> DEFINE hat == [k \in Keys |-> IF k \in U THEN m ELSE k]
           span2 == Followed(lv, span, root, hat)
<1>5. /\ \A k \in Keys : hat[k] = IF k \in U THEN m ELSE k
      /\ m \in D /\ m \in Keys /\ m < separator /\ m \in Int /\ m \notin U
      /\ \A k \in U : m < k /\ k \in Keys
  BY <1>1, <1>3, <1>4
<1> HIDE DEF hat, L, U
<1>6. Monotone(hat)
  <2>1. hat \in [Keys -> Keys]
    BY <1>5 DEF hat
  <2>2. \A k \in Keys : hat[k] <= k
    BY <1>1, <1>5
  <2>3. ASSUME NEW k \in Keys, NEW l \in Keys, k <= l
        PROVE  hat[k] <= hat[l]
    <3>1. k \in Int /\ l \in Int
      BY <1>1
    <3>2. CASE k \in U
      BY <1>5, <2>3, <3>1, <3>2
    <3>3. CASE k \notin U /\ l \notin U
      BY <1>5, <2>3, <3>3
    <3>4. CASE k \notin U /\ l \in U
      <4>1. k <= m
        <5>1. CASE k \in D
          BY <1>3, <1>4, <3>4, <5>1
        <5>2. CASE k \notin D
          <6>1. SUFFICES ASSUME m < k
                         PROVE  FALSE
            BY <1>5, <3>1
          <6>2. l \in D /\ k # l
            BY <1>3, <3>4
          <6>3. k < l
            BY <2>3, <3>1, <6>2
          <6>4. k \in span[S]
            BY <1>5, <6>1, <6>2, <6>3 DEF Tree
          <6> QED
            BY <5>2, <6>4
        <5> QED
          BY <5>1, <5>2
      <4> QED
        BY <1>5, <3>4, <4>1
    <3> QED
      BY <3>2, <3>3, <3>4
  <2> QED
    BY <2>1, <2>2, <2>3 DEF Monotone
<1>7. \A k \in Keys : hat[k] \in span[root]
  BY <1>1, <1>5
<1>8. \A p \in Pages, k \in Keys : hat[k] \in span[p] => lv[p] <= lv[root]
  BY DEF Tree
<1>9. \A p \in Pages : span2[p] = {k \in Keys : hat[k] \in span[p]}
  BY <1>8 DEF Followed
<1>10. \A k \in Keys : hat[k] = k <=> k \notin U
  BY <1>5
<1>11. ASSUME NEW p \in Pages, p # S, span2[p] # {}
       PROVE  /\ span[p] # {} /\ NodeIn(pg[p], lv, span, span[p], lv[p])
              /\ span[p] \subseteq span2[p]
              /\ \A k \in NodeKeys(pg[p]) : k \notin U
  <2>1. PICK j \in Keys : hat[j] \in span[p]
    BY <1>9, <1>11
  <2>2. hat[j] \in span[p] /\ hat[j] \notin U
    BY <1>5, <2>1
  <2>3. NodeIn(pg[p], lv, span, span[p], lv[p])
    BY <2>2 DEF Tree
  <2>4. NodeKeys(pg[p]) \subseteq span[p]
    BY <2>3 DEF NodeIn, LeafIn, InternalIn, NodeKeys
  <2>5. CASE span[p] \cap U = {}
    <3>1. \A k \in span[p] : k \in Keys /\ hat[k] = k
      BY <1>1, <1>10, <2>5
    <3> QED
      BY <1>9, <2>2, <2>3, <2>4, <2>5, <3>1
  <2>6. CASE span[p] \cap U # {}
    <3>1. PICK u \in span[p] : u \in U
      BY <2>6
    <3>2. u \in D /\ ~(u < separator) /\ lv[p] \in Nat /\ lv[S] \in Nat
      BY <1>1, <1>3, <3>1
    <3>3. lv[p] # lv[S]
      BY <1>11, <3>1, <3>2 DEF Tree
    <3>4. ~(lv[p] < lv[S])
      <4>1. SUFFICES ASSUME lv[p] < lv[S]
                     PROVE  FALSE
        OBVIOUS
      <4>2. span[p] \subseteq D
        BY <3>1, <3>2, <4>1 DEF Tree
      <4>3. hat[j] \in D /\ hat[j] < separator
        BY <1>3, <2>2, <4>2
      <4>4. hat[j] < separator <=> u < separator
        BY <2>2, <3>1, <3>2, <4>1, <4>3, BelowOneHalf, SMTT(30)
      <4> QED
        BY <3>2, <4>3, <4>4
    <3>5. lv[S] < lv[p]
      BY <3>2, <3>3, <3>4
    <3>6. D \subseteq span[p]
      BY <3>1, <3>2, <3>5 DEF Tree
    <3>7. m \in span[p]
      BY <1>5, <3>6
    <3>8. ASSUME NEW k \in span[p]
          PROVE  k \in span2[p]
      <4>1. k \in Keys
        BY <1>1
      <4>2. hat[k] \in {k, m}
        BY <1>5, <4>1
      <4> QED
        BY <1>9, <3>7, <4>1, <4>2
    <3>9. ASSUME NEW k \in NodeKeys(pg[p]), k \in U
          PROVE  FALSE
      <4>1. InternalIn(pg[p], lv, span, span[p], lv[p])
        BY <2>3, <3>2, <3>5 DEF NodeIn, LeafIn
      <4> DEFINE keys == pg[p].keys
      <4>2. keys \in Seq(Keys) /\ Rising(keys) /\ pg[p].kind = "internal"
        BY <4>1 DEF InternalIn
      <4>3. PICK i \in 1 .. Len(keys) : k = keys[i]
        BY <4>2, KeysAreInts DEF NodeKeys
      <4>4. PICK r : Leads(keys, k, r)
        BY <1>5, <3>9, <4>2, LeadsToChild
      <4>5. k \in D /\ k \in span[p] /\ m \in D /\ k \in Int /\ m < k
        BY <1>1, <1>3, <1>5, <2>4, <3>9
      <4>6. Leads(keys, m, r)
        BY <3>5, <3>7, <4>1, <4>4, <4>5, OneChild
      <4>7. keys[i] <= k <=> keys[i] <= m
        BY <4>4, <4>6 DEF Leads
      <4> QED
        BY <1>5, <4>3, <4>5, <4>7
    <3> QED
      BY <2>2, <2>3, <3>8, <3>9
  <2> QED
    BY <2>5, <2>6
<1>12. /\ \A k \in span2[S] : hat[k] \in L
       /\ L \subseteq span2[S]
       /\ \A k \in NodeKeys(pg2[S]) : k \notin U
  <2>1. \A k \in span2[S] : hat[k] \in L
    BY <1>3, <1>5, <1>9
  <2>2. \A k \in L : k \in Keys /\ k \in D /\ k \notin U
    BY <1>1, <1>3
  <2>3. NodeKeys(left) \subseteq L
    BY <1>2 DEF NodeIn, LeafIn, InternalIn, NodeKeys
  <2> QED
    BY <1>9, <1>10, <2>1, <2>2, <2>3
<1>13. ASSUME NEW p \in Pages, span2[p] # {}
       PROVE  /\ \A k \in NodeKeys(pg2[p]) : hat[k] = k
              /\ \E E \in SUBSET span2[p] :
                    /\ \A k \in span2[p] : hat[k] \in E
                    /\ NodeIn(pg2[p], lv, span, E, lv[p])
  <2>1. CASE p = S
    <3>1. \A k \in NodeKeys(left) : k \in Keys
      <4>1. L \subseteq Keys
        BY <1>1, <1>3
      <4> QED
        BY <1>2, <4>1 DEF NodeIn, LeafIn, InternalIn, NodeKeys
    <3> QED
      BY <1>2, <1>10, <1>12, <2>1, <3>1
  <2>2. CASE p # S
    <3>1. /\ pg2[p] = pg[p] /\ NodeIn(pg[p], lv, span, span[p], lv[p])
          /\ span[p] \subseteq span2[p] /\ span[p] \subseteq Keys
          /\ \A k \in NodeKeys(pg[p]) : k \notin U
      BY <1>1, <1>11, <1>13, <2>2
    <3>2. NodeKeys(pg[p]) \subseteq Keys
      BY <3>1 DEF NodeIn, LeafIn, InternalIn, NodeKeys
    <3> QED
      BY <1>9, <1>10, <3>1, <3>2
  <2> QED
    BY <2>1, <2>2
<1>14. Tree(pg2, lv, root, span2)
  BY <1>1, <1>6, <1>7, <1>13, FollowedTree
<1>15. ASSUME NEW p \in Pages, NEW k \in span2[p], pg2[p].kind = "leaf", hat[k] = k
       PROVE  Says(pg2[p].entries, k, map[k])
  <2>1. k \in Keys /\ k \in span[p] /\ k \notin U
    BY <1>9, <1>10, <1>15
  <2>2. CASE p # S
    BY <1>11, <1>15, <2>1, <2>2 DEF Answers
  <2>3. CASE p = S
    <3>1. pg[S].kind = "leaf"
      BY <1>15, <2>3, InternalFields DEF Halves, LeftInternal
    <3>2. k < separator /\ k \in span[S]
      BY <1>3, <2>1, <2>3
    <3>3. Says(pg[S].entries, k, map[k])
      BY <2>1, <2>3, <3>1 DEF Answers
    <3>4. Says(left.entries, k, map[k])
      BY <3>1, <3>2, <3>3, HalfSays
    <3> QED
      BY <2>3, <3>4
  <2> QED
    BY <2>2, <2>3
<1>16. Answers(pg2, span2, Kept(map, hat))
  <2>1. ASSUME NEW p \in Pages, NEW k \in span2[p], pg2[p].kind = "leaf"
        PROVE  /\ \A l \in NodeKeys(pg2[p]) : hat[l] = l
               /\ hat[k] = k => Says(pg2[p].entries, k, map[k])
    BY <1>13, <1>15, <2>1
  <2> QED
    BY <1>1, <2>1, FollowedAnswers
<1>17. ASSUME NEW p \in Pages, InitialIn(span[p])
       PROVE  InitialIn(span2[p])
  <2>1. CASE span[p] # {}
    <3>1. lv[p] <= lv[root]
      BY <2>1 DEF Tree
    <3> QED
      BY <1>1, <1>6, <1>17, <3>1, FollowedInitial
  <2>2. CASE span[p] = {}
    BY <1>1, <1>2, <1>17, <2>2 DEF InitialIn
  <2> QED
    BY <2>1, <2>2
<1>18. /\ Kept(map, hat) = [k \in Keys |-> Kept(map, hat)[k]]
       /\ \A k \in Keys : Kept(map, hat)[k] \in {map[k], None}
  BY DEF Kept
<1>19. Linked(pg2, span) => Linked(pg2, span2)
  BY <1>6, <1>9, ChainFollowed
<1> QED
  BY <1>14, <1>16, <1>17, <1>18, <1>19

-----------------------------------------------------------------------------
(* What search finds *)

(* One turn of the loop of find_leaf_page stays with the key. *)
LEMMA DescendsInTree ==
    ASSUME NEW lv, NEW root, NEW span, Tree(pages, lv, root, span),
           NEW p \in Pages, NEW k \in span[p]
    PROVE  /\ Below(k)[p] \in Pages /\ k \in span[Below(k)[p]]
           /\ lv[Below(k)[p]] = IF IsInternal(p) THEN lv[p] - 1 ELSE lv[p]
<1>1. Below(k)[p] = IF IsInternal(p) THEN Child(p, k) ELSE p
  BY DEF Below
<1>2. CASE ~IsInternal(p)
  BY <1>1, <1>2
<1>3. CASE IsInternal(p)
  <2>1. InternalIn(pages[p], lv, span, span[p], lv[p])
    <3>1. NodeIn(pages[p], lv, span, span[p], lv[p])
      BY DEF Tree
    <3> QED
      BY <1>3, <3>1 DEF NodeIn, LeafIn, IsInternal
  <2>2. pages[p].keys \in Seq(Keys) /\ Rising(pages[p].keys) /\ k \in Keys
    BY <2>1, TreeTypes DEF InternalIn
  <2>3. /\ child_index(pages[p].keys, k) = upper_bound(pages[p].keys, k)
        /\ Leads(pages[p].keys, k, upper_bound(pages[p].keys, k) + 1)
    BY <2>2, LeadsToChild
  <2> DEFINE r == upper_bound(pages[p].keys, k) + 1
  <2>4. Leads(pages[p].keys, k, r) /\ Child(p, k) = pages[p].children[r]
    BY <2>3 DEF Child
  <2> HIDE DEF r
  <2> QED
    BY <1>1, <1>3, <2>1, <2>4, ChildOf
<1> QED
  BY <1>2, <1>3

(* A descent visits pages with its key, one on each level of the tree. *)
LEMMA DescentInTree ==
    ASSUME PagesOK, at \notin {"left", "right", "root"}, NEW level, Leveled(level),
           NEW root \in Nodes, level[root] <= MaxPages,
           NEW lv, NEW span, Tree(pages, lv, root, span), NEW k \in Keys
    PROVE  /\ \A i \in 0 .. MaxPages :
                 /\ Descent(root, k)[i] \in Pages /\ k \in span[Descent(root, k)[i]]
                 /\ i <= level[root] => lv[Descent(root, k)[i]] = level[root] - i
           /\ lv[root] = level[root]
           /\ find_leaf_page(root, k) \in Nodes /\ IsLeaf(find_leaf_page(root, k))
           /\ k \in span[find_leaf_page(root, k)] /\ lv[find_leaf_page(root, k)] = 0
<1> DEFINE d == Descent(root, k)
           height == level[root]
           Holds(n) == /\ d[n] \in Pages /\ k \in span[d[n]]
                       /\ n <= height => lv[d[n]] = lv[root] - n
           Bad == {n \in Nat : n <= MaxPages /\ ~Holds(n)}
<1>1. d[0] = root /\ \A n \in 1 .. MaxPages : d[n] = Below(k)[d[n - 1]]
  BY DescentSteps
<1>2. /\ \A n \in 0 .. MaxPages : IsInternal(d[n]) <=> n < height
      /\ find_leaf_page(root, k) \in Nodes /\ IsLeaf(find_leaf_page(root, k))
      /\ find_leaf_page(root, k) = d[MaxPages]
  BY DescentEnds DEF find_leaf_page
<1>3. height \in Nat /\ MaxPages \in Nat /\ root \in Pages /\ lv[root] \in Nat /\ k \in span[root]
  BY NodesInPages DEF Leveled, Tree
<1> HIDE DEF d, height
<1>4. Bad = {}
  <2>1. SUFFICES ASSUME Bad # {}
                 PROVE  FALSE
    OBVIOUS
  <2>2. PICK n \in Bad : \A m \in Bad : ~(<<m, n>> \in OpToRel(<, Nat))
    <3>1. Bad \subseteq Nat
      OBVIOUS
    <3> HIDE DEF Bad
    <3> QED
      BY <2>1, <3>1, NatLessThanWellFounded, WFMin
  <2>3. n \in Nat /\ n <= MaxPages /\ ~Holds(n)
    OBVIOUS
  <2>4. n # 0
    BY <1>1, <1>3, <2>3
  <2>5. n - 1 \in Nat /\ n - 1 < n /\ n - 1 <= MaxPages /\ n \in 1 .. MaxPages
    BY <1>3, <2>3, <2>4
  <2>6. Holds(n - 1)
    <3>1. n - 1 \notin Bad
      BY <2>2, <2>3, <2>5 DEF OpToRel
    <3> QED
      BY <2>5, <3>1
  <2>7. d[n] = Below(k)[d[n - 1]] /\ (IsInternal(d[n - 1]) <=> n - 1 < height)
    BY <1>1, <1>2, <1>3, <2>5
  <2>8. /\ d[n] \in Pages /\ k \in span[d[n]]
        /\ lv[d[n]] = IF IsInternal(d[n - 1]) THEN lv[d[n - 1]] - 1 ELSE lv[d[n - 1]]
    BY <2>6, <2>7, DescendsInTree
  <2>9. Holds(n)
    BY <1>3, <2>5, <2>6, <2>7, <2>8
  <2> QED
    BY <2>3, <2>9
<1>5. \A i \in 0 .. MaxPages : Holds(i)
  <2>1. \A i \in 0 .. MaxPages : i \in Nat /\ i <= MaxPages
    BY <1>3
  <2> QED
    BY <1>4, <2>1
<1>6. \A p \in Pages : IsLeaf(p) /\ k \in span[p] => lv[p] = 0
  BY DEF Tree, NodeIn, LeafIn, InternalIn, IsLeaf
<1>7. lv[root] = height
  <2>1. height \in 0 .. MaxPages /\ ~(height < height) /\ height <= height
    BY <1>3 DEF height
  <2>2. d[height] \in Pages /\ k \in span[d[height]] /\ lv[d[height]] = lv[root] - height
    BY <1>5, <2>1
  <2>3. ~IsInternal(d[height])
    BY <1>2, <2>1
  <2>4. lv[d[height]] = 0
    BY <2>2, <2>3 DEF Tree, NodeIn, LeafIn, InternalIn, IsInternal
  <2> QED
    BY <1>3, <2>2, <2>4
<1>8. MaxPages \in 0 .. MaxPages
  BY <1>3
<1> QED
  BY <1>2, <1>5, <1>6, <1>7, <1>8 DEF d, height

(* What find_leaf_page finds, search returns. *)
LEMMA SearchSays ==
    ASSUME PagesOK, at \notin {"left", "right", "root"}, NEW level, Leveled(level),
           NEW root \in Nodes, level[root] <= MaxPages,
           NEW lv, NEW span, Tree(pages, lv, root, span)
    PROVE  /\ Answers(pages, span, SearchAll(root))
           /\ SearchAll(root) \in [Keys -> Rids \cup {None}]
<1>1. ASSUME NEW k \in Keys
      PROVE  /\ LET leaf == find_leaf_page(root, k)
                IN  Says(pages[leaf].entries, k, search(root, k))
             /\ search(root, k) \in Rids \cup {None}
  <2> DEFINE leaf == find_leaf_page(root, k)
             entries == pages[leaf].entries
             here == {i \in DOMAIN entries : entries[i].key = k}
  <2>1. IsLeaf(leaf) /\ leaf \in Nodes
    BY DescentEnds
  <2>2. entries \in Seq(Entry)
    BY <2>1, KindOf, NodeKinds
  <2>3. search(root, k) = IF here = {} THEN None
                          ELSE entries[CHOOSE i \in here : \A j \in here : i <= j].rid
    BY <2>1 DEF search, IsLeaf
  <2> HIDE DEF leaf, entries
  <2>4. DOMAIN entries = 1 .. Len(entries) /\ Len(entries) \in Nat
    BY <2>2, EntriesHaveKeys
  <2>5. CASE here = {}
    BY <2>3, <2>5 DEF Says, leaf, entries
  <2>6. CASE here # {}
    <3>1. \E i \in here : \A j \in here : i <= j
      <4>1. here \subseteq Nat
        BY <2>4
      <4>2. PICK i \in here : \A j \in here : ~(<<j, i>> \in OpToRel(<, Nat))
        <5> HIDE DEF here
        <5> QED
          BY <2>6, <4>1, NatLessThanWellFounded, WFMin
      <4>3. \A j \in here : ~(j < i)
        BY <4>1, <4>2 DEF OpToRel
      <4> HIDE DEF here
      <4>4. \A j \in here : i <= j
        BY <4>1, <4>3
      <4> QED
        BY <4>4
    <3>2. PICK i \in here : search(root, k) = entries[i].rid
      <4> HIDE DEF here
      <4> QED
        BY <2>3, <2>6, <3>1
    <3>3. entries[i].rid \in Rids
      BY <2>2, <2>4, EntriesHaveKeys
    <3> QED
      BY <3>2, <3>3 DEF Says, leaf, entries
  <2> QED
    BY <2>5, <2>6
<1>2. ASSUME NEW p \in Pages, pages[p].kind = "leaf", NEW k \in span[p]
      PROVE  Says(pages[p].entries, k, SearchAll(root)[k])
  <2> DEFINE leaf == find_leaf_page(root, k)
  <2>1. k \in Keys
    BY TreeTypes
  <2>2. leaf \in Nodes /\ leaf \in Pages /\ k \in span[leaf] /\ lv[leaf] = 0
    BY <2>1, DescentInTree, NodesInPages
  <2>3. lv[p] = 0
    BY <1>2 DEF Tree, NodeIn, LeafIn, InternalIn
  <2>4. p = leaf
    BY <2>2, <2>3 DEF Tree
  <2> HIDE DEF leaf
  <2>5. SearchAll(root)[k] = search(root, k)
    BY <2>1 DEF SearchAll
  <2> QED
    BY <1>1, <2>1, <2>4, <2>5 DEF leaf
<1> QED
  BY <1>1, <1>2 DEF Answers, SearchAll

(* The tree has one answer for each key, and search returns it. *)
LEMMA SearchIs ==
    ASSUME PagesOK, at \notin {"left", "right", "root"}, NEW level, Leveled(level),
           NEW root \in Nodes, level[root] <= MaxPages,
           NEW lv, NEW span, Tree(pages, lv, root, span),
           NEW map, Answers(pages, span, map), map = [k \in Keys |-> map[k]]
    PROVE  SearchAll(root) = map
<1>1. Answers(pages, span, SearchAll(root))
  BY SearchSays
<1>2. ASSUME NEW k \in Keys
      PROVE  SearchAll(root)[k] = map[k]
  <2> DEFINE leaf == find_leaf_page(root, k)
  <2>1. leaf \in Nodes /\ leaf \in Pages /\ IsLeaf(leaf) /\ k \in span[leaf]
    BY DescentInTree, NodesInPages
  <2> HIDE DEF leaf
  <2>2. LeafIn(pages[leaf], span[leaf], lv[leaf])
    BY <2>1 DEF Tree, NodeIn, InternalIn, IsLeaf
  <2>3. /\ Says(pages[leaf].entries, k, SearchAll(root)[k])
        /\ Says(pages[leaf].entries, k, map[k])
    BY <1>1, <2>1 DEF Answers, IsLeaf
  <2> QED
    BY <2>2, <2>3, SaysOnce DEF LeafIn
<1>3. SearchAll(root) = [k \in Keys |-> SearchAll(root)[k]]
  BY DEF SearchAll
<1> QED
  BY <1>2, <1>3

-----------------------------------------------------------------------------
(* The keys of the tree that runs *)

\* While a node is being split, the tree still has it whole.
View(whole) ==
    IF at \in {"left", "right", "up", "root"} THEN [pages EXCEPT ![split.page] = whole]
    ELSE pages

TreeRoot == IF at = "none" THEN pages[HEADER_PAGE_ID].root_page_id ELSE root_page_id_

HasTree == IF at = "none" THEN CanOpen ELSE at # "first_leaf"

\* What the running insertion is to make of the index.
After == [inserting.before EXCEPT ![inserting.key] = inserting.rid]

\* The insertions that run.
Calls == [key : Keys, rid : Rids, before : [Keys -> Rids \cup {None}], threw : {FALSE}]

InsertingOK ==
    IF at \in {"left", "right", "up", "root", "header"} THEN inserting \in Calls
    ELSE IF at = "idle" THEN inserting \in Calls \cup {NoInsert, Thrown}
    ELSE inserting = NoInsert

(* The root in the file is that of the tree, or one of before the root was split:
   then it has the least keys. *)
HeaderKeys(span) ==
    at # "none" /\ CanOpen => InitialIn(span[pages[HEADER_PAGE_ID].root_page_id])

(* The new entry is in the node that is split, or below it. *)
SplitKeys(lv, span, whole) ==
    /\ inserting.key \in span[split.page]
    /\ span[split.right_page] = {}
    /\ Halves(whole, split.left, split.right, split.separator)
    /\ Answers(View(whole), span, After)
    /\ lv[root_page_id_] = lv[split.page] + Len(path)
    /\ \A i \in DOMAIN path :
          /\ inserting.key \in span[path[i]]
          /\ lv[path[i]] = lv[split.page] + Len(path) + 1 - i
    /\ at # "left" => pages[split.page] = split.left
    /\ at \in {"up", "root"} => pages[split.right_page] = split.right
    /\ at = "root" => span[page_count - 1] = {}

\* The pages once both halves are written, but for the node that is split.
Ahead(whole) ==
    IF at \in {"left", "right", "up", "root"}
    THEN [View(whole) EXCEPT ![split.right_page] = split.right]
    ELSE pages

(* The new leaf takes over where the other goes on, and nothing leads to it
   before the left half does. *)
LinkOK(span, whole) ==
    HasTree =>
        /\ Linked(Ahead(whole), span)
        /\ at \in {"left", "right", "up", "root"} /\ whole.kind = "leaf" =>
              /\ split.left.next = split.right_page
              /\ split.right.next = whole.next
              /\ Unlinked(Ahead(whole), split.right_page)

KeysOK(lv, span, whole) ==
    /\ HasTree => Tree(View(whole), lv, TreeRoot, span)
    /\ LinkOK(span, whole)
    /\ HeaderKeys(span)
    /\ at = "first_header" => Answers(pages, span, NoInsert.before)
    /\ at = "header" => Answers(pages, span, After)
    /\ at \in {"left", "right", "up", "root"} => SplitKeys(lv, span, whole)

\* When no call of the pool throws, the file has the root.
HeaderFresh ==
    ~MayFail /\ at \in {"idle", "left", "right", "up", "root"} =>
        CanOpen /\ pages[HEADER_PAGE_ID].root_page_id = root_page_id_

MapInv == InsertingOK /\ HeaderFresh /\ \E lv, span, whole : KeysOK(lv, span, whole)

\* A page that a split has made, and that no node leads to yet.
Awaited(p) ==
    \/ at \in {"left", "right", "up", "root"} /\ p = split.right_page
    \/ at = "root" /\ p = page_count - 1

(* As long as no call fails, every node of the file is part of the tree. *)
Peopled(span) ==
    ~MayFail /\ Keys # {} => \A p \in Nodes : span[p] = {} => Awaited(p)

PeopledInv == \E lv, span, whole : KeysOK(lv, span, whole) /\ Peopled(span)

(* A step that leaves no page behind. *)
MapStep(span) ==
    /\ InsertingOK' /\ HeaderFresh'
    /\ \E lv2, span2, whole2 :
          KeysOK(lv2, span2, whole2)' /\ (Peopled(span) => Peopled(span2)')

(* The index is what the tree answers (SearchIs, of a state). *)
SearchOK ==
    at \in {"idle", "none"} /\ HasTree =>
        \A lv, span, map :
            /\ Tree(pages, lv, TreeRoot, span)
            /\ Answers(pages, span, map)
            /\ map = [k \in Keys |-> map[k]]
            => Index = map

\* What a step does to the index and the call.
IndexStep == [Map!Next]_<<Index, Call>>

(* The root the next call descends from, or the next process, is a node. *)
LEMMA TreeRootOK ==
    ASSUME PagesOK, NEW level \in [Pages -> Nat], NEW rank \in [Pages -> Nat],
           Shape(level, rank), at \in {"idle", "none"}, HasTree
    PROVE  TreeRoot \in Nodes /\ Leveled(level) /\ level[TreeRoot] <= MaxPages
<1>1. \E height : RootOK(level, TreeRoot, height, page_count)
  BY DEF Shape, MembersOK, HeaderOK, HasTree, CanOpen, TreeRoot
<1>2. PICK height : RootOK(level, TreeRoot, height, page_count)
  BY <1>1
<1> QED
  BY <1>2, NodesInPages DEF RootOK, Nodes, Shape

LEMMA IndexIsSearch ==
    at \in {"idle", "none"} /\ HasTree => Index = SearchAll(TreeRoot)
  BY DEF HasTree, Index, TreeRoot

(* What the shape of the tree says of search. *)
LEMMA TreeSearchOK == TreeInv => SearchOK
<1> SUFFICES ASSUME TreeInv, at \in {"idle", "none"}, HasTree,
                    NEW lv, NEW span, NEW map, Tree(pages, lv, TreeRoot, span),
                    Answers(pages, span, map), map = [k \in Keys |-> map[k]]
             PROVE  Index = map
  BY DEF SearchOK
<1>1. PICK level, rank \in [Pages -> Nat] : Shape(level, rank)
  BY DEF TreeInv
<1>2. PagesOK
  BY DEF TreeInv
<1>3. PICK root : root = TreeRoot
  OBVIOUS
<1>4. root \in Nodes /\ Leveled(level) /\ level[root] <= MaxPages
  BY <1>1, <1>2, <1>3, TreeRootOK
<1>5. SearchAll(root) = map
  BY <1>2, <1>3, <1>4, SearchIs
<1> QED
  BY <1>3, <1>5, IndexIsSearch

(* ... and the tree answers what the index is. *)
LEMMA IndexAnswers ==
    ASSUME PagesOK, NEW level \in [Pages -> Nat], NEW rank \in [Pages -> Nat],
           Shape(level, rank), at \in {"idle", "none"}, HasTree,
           NEW lv, NEW span, Tree(pages, lv, TreeRoot, span)
    PROVE  Answers(pages, span, Index) /\ Index \in [Keys -> Rids \cup {None}]
<1>1. PICK root : root = TreeRoot
  OBVIOUS
<1>2. root \in Nodes /\ Leveled(level) /\ level[root] <= MaxPages
  BY <1>1, TreeRootOK
<1>3. Answers(pages, span, SearchAll(root)) /\ SearchAll(root) \in [Keys -> Rids \cup {None}]
  BY <1>1, <1>2, SearchSays
<1> QED
  BY <1>1, <1>3, IndexIsSearch

(* A page that is no node is not part of the tree. *)
LEMMA NoKeys ==
    ASSUME NEW pg, NEW lv, NEW root, NEW span, Tree(pg, lv, root, span),
           NEW p \in Pages, pg[p].kind \notin {"leaf", "internal"}
    PROVE  span[p] = {}
  BY DEF Tree, NodeIn, LeafIn, InternalIn

(* A page that is not written yet, and the header, are not part of the tree. *)
LEMMA PagesNoKeys ==
    ASSUME PagesOK, NEW lv, NEW root, NEW span, NEW pg, Tree(pg, lv, root, span)
    PROVE  \A p \in Pages : pg[p] = pages[p] /\ (p = HEADER_PAGE_ID \/ p >= page_count)
                => span[p] = {}
<1> SUFFICES ASSUME NEW p \in Pages, pg[p] = pages[p],
                    p = HEADER_PAGE_ID \/ p >= page_count
             PROVE  span[p] = {}
  OBVIOUS
<1>1. p \notin Nodes
  BY NodesInPages DEF Pages, Nodes, HEADER_PAGE_ID
<1>2. ~IsLeaf(p) /\ ~IsInternal(p)
  BY <1>1, NodeKinds
<1> QED
  BY <1>2, NoKeys DEF IsLeaf, IsInternal

\* The running insertion.
CalledWith(key, rid) == key = inserting.key /\ rid = inserting.rid

LEMMA NoCalls ==
    /\ NoInsert.key = 0 /\ NoInsert.rid = None /\ NoInsert.threw = FALSE
    /\ Thrown.key = 0 /\ Thrown.rid = None /\ Thrown.threw = TRUE
  BY DEF NoInsert, Thrown

LEMMA CallIsKept ==
    ASSUME Index' = Index, inserting' = inserting
    PROVE  IndexStep
  BY DEF IndexStep, Call

LEMMA CallReturns ==
    ASSUME inserting.rid \in Rids, inserting' = NoInsert,
           Index' = [Index EXCEPT ![inserting.key] = inserting.rid]
    PROVE  IndexStep
<1>1. Map!Running /\ Call' = Map!NoCall
  BY NoneAssumption DEF Map!Running, Map!NoCall, Call, NoInsert
<1>2. Map!Return
  BY <1>1 DEF Map!Return, Call
<1> QED
  BY <1>2 DEF IndexStep, Map!Next

LEMMA NoneAnswered == NoInsert.before = [k \in Keys |-> None]
  BY DEF NoInsert

(* The root in the file is a node. *)
LEMMA HeaderIn ==
    ASSUME PagesOK, NEW level \in [Pages -> Nat], NEW rank \in [Pages -> Nat],
           Shape(level, rank), CanOpen
    PROVE  pages[HEADER_PAGE_ID].root_page_id \in Nodes
  BY NodesInPages DEF Shape, HeaderOK, CanOpen, RootOK, Nodes

LEMMA AllInitial == InitialIn(Keys)
  BY DEF InitialIn

-----------------------------------------------------------------------------
(* Opening, closing, and insertions that split no node *)

LEMMA InitMap == Init => MapInv /\ PeopledInv /\ Map!Init
<1> SUFFICES ASSUME Init
             PROVE  MapInv /\ PeopledInv /\ Map!Init
  OBVIOUS
<1>1. at = "none" /\ page_count = 0 /\ inserting = NoInsert
  BY DEF Init
<1>2. ~CanOpen
  BY <1>1 DEF CanOpen
<1>3. KeysOK(0, 0, 0)
  BY <1>1, <1>2 DEF KeysOK, HasTree, HeaderKeys, LinkOK
<1>4. Index = [k \in Keys |-> None]
  BY <1>1, <1>2, NoneAnswered DEF Index
<1>5. InsertingOK /\ HeaderFresh
  BY <1>1 DEF InsertingOK, HeaderFresh
<1>6. Peopled(0)
  BY <1>1 DEF Peopled, Nodes
<1>7. Call = Map!NoCall
  BY <1>1 DEF Call, NoInsert, Map!NoCall
<1> QED
  BY <1>3, <1>4, <1>5, <1>6, <1>7 DEF MapInv, PeopledInv, Map!Init

LEMMA OpenNewMap ==
    ASSUME PagesOK, InsertingOK, NEW span, OpenNew
    PROVE  MapStep(span) /\ IndexStep
<1>1. /\ at = "none" /\ page_count = 0 /\ at' = "first_leaf"
      /\ pages' = [pages EXCEPT ![page_count] = Blank] /\ inserting' = inserting
      /\ page_count' = page_count + 1
  BY DEF OpenNew, NewPage
<1>2. ~CanOpen
  BY <1>1 DEF CanOpen
<1>3. pages'[HEADER_PAGE_ID] = Blank
  BY <1>1, NodesInPages DEF HEADER_PAGE_ID, PagesOK
<1>4. ~CanOpen'
  BY <1>3, KindOf DEF CanOpen
<1>5. KeysOK(0, 0, 0)'
  BY <1>1, <1>4 DEF KeysOK, HasTree, HeaderKeys, LinkOK
<1>6. InsertingOK' /\ HeaderFresh'
  BY <1>1 DEF InsertingOK, HeaderFresh
<1>7. Index = inserting.before /\ Index' = inserting'.before
  BY <1>1, <1>2 DEF Index
<1>8. Peopled(0)'
  BY <1>1 DEF Peopled, Nodes
<1> QED
  BY <1>1, <1>5, <1>6, <1>7, <1>8, CallIsKept DEF MapStep

LEMMA CreateFirstLeafMap ==
    ASSUME PagesOK, AtOK, InsertingOK, NEW span, CreateFirstLeaf
    PROVE  MapStep(span) /\ IndexStep
<1>1. /\ at = "first_leaf" /\ page_count = 1 /\ at' = "first_header"
      /\ 1 < MaxPages /\ root_page_id_' = 1 /\ page_count' = 2
      /\ pages' = [pages EXCEPT ![1] = EmptyLeaf] /\ inserting' = inserting
      /\ pages[HEADER_PAGE_ID] = Blank
  BY DEF CreateFirstLeaf, NewPage, AtOK
<1>2. 1 \in Pages /\ HEADER_PAGE_ID # 1
  BY <1>1, TreePagesAssumption DEF Pages, HEADER_PAGE_ID
<1>3. pages'[1] = EmptyLeaf /\ pages'[HEADER_PAGE_ID] = Blank
  BY <1>1, <1>2, NodesInPages DEF PagesOK
<1>4. ~CanOpen'
  BY <1>3, KindOf DEF CanOpen
<1> DEFINE lv == [p \in Pages |-> 0]
           all == [p \in Pages |-> IF p = 1 THEN Keys ELSE {}]
<1>5. LeafIn(EmptyLeaf, Keys, 0) /\ EmptyLeaf.entries = <<>>
  BY DEF LeafIn, EmptyLeaf, LeafNode, RisingEntries
<1>6. Tree(pages', lv, 1, all)
  BY <1>2, <1>3, <1>5 DEF Tree, NodeIn
<1>7. Answers(pages', all, NoInsert.before)
  BY <1>3, <1>5, NoneAnswered DEF Answers, Says
<1>11. Linked(pages', all)
  <2> DEFINE beyond == [p \in Pages |-> {}]
  <2>1. \A p \in Pages : p # 1 => pages'[p].kind # "leaf"
    <3>1. \A p \in Pages : p \notin Nodes /\ (p # 1 => pages'[p] = pages[p])
      BY <1>1 DEF Nodes, PagesOK
    <3> QED
      BY <3>1, NodeKinds DEF IsLeaf
  <2>2. LeafInChain(pages', all, beyond, 1)
    BY <1>2, <1>3, <1>5 DEF LeafInChain, EmptyLeaf, LeafNode, INVALID_PAGE_ID
  <2>3. ChainIn(pages', all, beyond)
    BY <2>1, <2>2 DEF ChainIn
  <2> QED
    BY <2>3 DEF Linked
<1>8. KeysOK(lv, all, 0)'
  <2>1. LinkOK(all, 0)'
    BY <1>1, <1>11 DEF LinkOK, Ahead
  <2> QED
    BY <1>1, <1>4, <1>6, <1>7, <2>1 DEF KeysOK, HasTree, HeaderKeys, View, TreeRoot
<1>9. InsertingOK' /\ HeaderFresh'
  BY <1>1 DEF InsertingOK, HeaderFresh
<1>10. Index = inserting.before /\ Index' = inserting'.before
  BY <1>1 DEF Index
<1>12. Peopled(all)'
  BY <1>1, <1>2 DEF Peopled, Nodes
<1> QED
  BY <1>1, <1>8, <1>9, <1>10, <1>12, CallIsKept DEF MapStep

LEMMA WriteHeaderMap ==
    ASSUME PagesOK, InsertingOK, NEW level \in [Pages -> Nat], NEW rank \in [Pages -> Nat],
           Shape(level, rank), NEW lv, NEW span, NEW whole, KeysOK(lv, span, whole),
           SearchOK', WriteHeader
    PROVE  MapStep(span) /\ IndexStep
<1>1. /\ at \in {"first_header", "header"} /\ at' = "idle" /\ inserting' = NoInsert
      /\ root_page_id_' = root_page_id_ /\ page_count' = page_count
      /\ pages' = [pages EXCEPT ![HEADER_PAGE_ID] = Header]
  BY DEF WriteHeader, WritePage
<1>2. /\ pages'[HEADER_PAGE_ID] = Header
      /\ \A p \in Pages : p # HEADER_PAGE_ID => pages'[p] = pages[p]
  BY <1>1, NodesInPages DEF PagesOK
<1>3. Header.kind = "header" /\ Header.root_page_id = root_page_id_
  BY DEF Header, HeaderPage
<1>4. page_count > 0
  BY <1>1, NodesInPages DEF Shape, MembersOK, RootOK
<1>5. CanOpen' /\ pages'[HEADER_PAGE_ID].root_page_id = root_page_id_'
  BY <1>1, <1>2, <1>3, <1>4 DEF CanOpen
<1>6. Tree(pages, lv, root_page_id_, span)
  BY <1>1 DEF KeysOK, HasTree, View, TreeRoot
<1>7. span[HEADER_PAGE_ID] = {} /\ span[root_page_id_] = Keys
  BY <1>6, NodesInPages, PagesNoKeys DEF Tree
<1>8. Tree(pages', lv, root_page_id_', span)
  BY <1>1, <1>2, <1>6, <1>7, SameTree
<1>9. KeysOK(lv, span, whole)'
  <2>1. Linked(pages, span)
    BY <1>1 DEF KeysOK, LinkOK, HasTree, Ahead
  <2>2. \A p \in Pages : KeepsPlace(pages, span, pages', span, p)
    <3>1. pages[HEADER_PAGE_ID].kind # "leaf" /\ pages'[HEADER_PAGE_ID].kind # "leaf"
      BY <1>2, <1>3, NodesInPages, NodeKinds DEF IsLeaf
    <3> QED
      BY <1>2, <3>1 DEF KeepsPlace
  <2>3. Linked(pages', span)
    BY <1>8, <2>1, <2>2, ChainKept DEF Tree
  <2>4. LinkOK(span, whole)'
    BY <1>1, <2>3 DEF LinkOK, Ahead
  <2> QED
    BY <1>1, <1>5, <1>7, <1>8, <2>4, AllInitial DEF KeysOK, HasTree, HeaderKeys, View, TreeRoot
<1>16. Peopled(span) => Peopled(span)'
  BY <1>1 DEF Peopled, Awaited, Nodes
<1>10. InsertingOK' /\ HeaderFresh'
  BY <1>1, <1>5 DEF InsertingOK, HeaderFresh
<1>11. HasTree' /\ TreeRoot' = root_page_id_'
  BY <1>1 DEF HasTree, TreeRoot
<1>12. ASSUME NEW map, Answers(pages, span, map), map = [k \in Keys |-> map[k]]
       PROVE  Index' = map
  <2>1. Answers(pages', span, map)
    BY <1>2, <1>3, <1>7, <1>12 DEF Answers
  <2> QED
    BY <1>1, <1>8, <1>11, <1>12, <2>1 DEF SearchOK
<1>13. Index = inserting.before
  BY <1>1 DEF Index
<1>14. CASE at = "first_header"
  <2>1. Answers(pages, span, NoInsert.before) /\ inserting = NoInsert
    BY <1>14 DEF KeysOK, InsertingOK
  <2>2. Index' = NoInsert.before
    BY <1>12, <2>1, NoneAnswered
  <2> QED
    BY <1>1, <1>9, <1>10, <1>13, <1>16, <2>1, <2>2, CallIsKept DEF MapStep
<1>15. CASE at = "header"
  <2>1. /\ inserting.key \in Keys /\ inserting.rid \in Rids
        /\ inserting.before \in [Keys -> Rids \cup {None}]
    BY <1>15 DEF InsertingOK, Calls
  <2>2. Answers(pages, span, After) /\ After = [k \in Keys |-> After[k]]
    BY <1>15, <2>1 DEF KeysOK, After
  <2>3. Index' = [Index EXCEPT ![inserting.key] = inserting.rid]
    BY <1>12, <1>13, <2>2 DEF After
  <2> QED
    BY <1>1, <1>9, <1>10, <1>16, <2>1, <2>3, CallReturns DEF MapStep
<1> QED
  BY <1>1, <1>14, <1>15

LEMMA LoadHeaderMap ==
    ASSUME PagesOK, InsertingOK, NEW level \in [Pages -> Nat], NEW rank \in [Pages -> Nat],
           Shape(level, rank), NEW lv, NEW span, NEW whole, KeysOK(lv, span, whole),
           SearchOK', LoadHeader
    PROVE  MapStep(span) /\ IndexStep
<1> DEFINE root == pages[HEADER_PAGE_ID].root_page_id
<1>1. /\ at = "none" /\ CanOpen /\ at' = "idle" /\ root_page_id_' = root
      /\ pages' = pages /\ page_count' = page_count /\ inserting' = inserting
  BY DEF LoadHeader
<1>2. HasTree /\ TreeRoot = root /\ HasTree' /\ TreeRoot' = root /\ CanOpen'
  BY <1>1 DEF HasTree, TreeRoot, CanOpen
<1>3. Tree(pages, lv, TreeRoot, span)
  BY <1>1, <1>2 DEF KeysOK, View
<1>4. Tree(pages', lv, TreeRoot', span) /\ span[root] = Keys
  BY <1>1, <1>2, <1>3 DEF Tree
<1>5. KeysOK(lv, span, whole)'
  <2>1. Linked(pages, span)
    BY <1>1, <1>2 DEF KeysOK, LinkOK, Ahead
  <2>2. LinkOK(span, whole)'
    BY <1>1, <2>1 DEF LinkOK, Ahead
  <2> QED
    BY <1>1, <1>2, <1>4, <2>2, AllInitial DEF KeysOK, HeaderKeys, View
<1>6. InsertingOK' /\ HeaderFresh'
  BY <1>1, <1>2 DEF InsertingOK, HeaderFresh
<1>7. Answers(pages', span, Index) /\ Index = [k \in Keys |-> Index[k]]
  BY <1>1, <1>2, <1>3, IndexAnswers
<1>8. Index' = Index
  BY <1>1, <1>2, <1>4, <1>7 DEF SearchOK
<1>9. Peopled(span) => Peopled(span)'
  BY <1>1 DEF Peopled, Awaited, Nodes
<1> QED
  BY <1>1, <1>5, <1>6, <1>8, <1>9, CallIsKept DEF MapStep

(* No insertion runs; keys may be lost, and none gets another RID. *)
LEMMA Forgotten ==
    ASSUME Index \in [Keys -> Rids \cup {None}], inserting \in {NoInsert, Thrown},
           inserting' = NoInsert, NEW map, Index' = map, map = [k \in Keys |-> map[k]],
           \A k \in Keys : map[k] \in {Index[k], None}, MayFail \/ map = Index
    PROVE  IndexStep
<1>1. ~Map!Running /\ Call' = Map!NoCall
  BY DEF Map!Running, Map!NoCall, Call, NoInsert, Thrown
<1>2. Map!Forget
  BY <1>1 DEF Map!Forget, Map!Damaged
<1> QED
  BY <1>2 DEF IndexStep, Map!Next

LEMMA CloseMap ==
    ASSUME PagesOK, InsertingOK, HeaderFresh,
           NEW level \in [Pages -> Nat], NEW rank \in [Pages -> Nat],
           Shape(level, rank), NEW lv, NEW span, NEW whole, KeysOK(lv, span, whole),
           SearchOK', Close
    PROVE  MapStep(span) /\ IndexStep
<1> DEFINE top == pages[HEADER_PAGE_ID].root_page_id
<1>1. /\ at = "idle" /\ at' = "none" /\ root_page_id_' = root_page_id_
      /\ pages' = pages /\ page_count' = page_count /\ inserting' = NoInsert
      /\ inserting \in {NoInsert, Thrown}
  BY NoneAssumption DEF Close, Begun, InsertingOK, Calls
<1>2. InsertingOK' /\ HeaderFresh'
  BY <1>1 DEF InsertingOK, HeaderFresh
<1>3. HasTree /\ TreeRoot = root_page_id_ /\ HasTree' = CanOpen /\ CanOpen' = CanOpen
      /\ TreeRoot' = top
  BY <1>1 DEF HasTree, TreeRoot, CanOpen
<1>4. Tree(pages, lv, TreeRoot, span)
  BY <1>1, <1>3 DEF KeysOK, View
<1>5. Answers(pages, span, Index) /\ Index \in [Keys -> Rids \cup {None}]
  BY <1>1, <1>3, <1>4, IndexAnswers
<1>6. CASE MayFail
  <2>1. ASSUME NEW lv2, NEW span2, KeysOK(lv2, span2, whole)'
        PROVE  MapStep(span)
    BY <1>2, <1>6, <2>1 DEF MapStep, Peopled
  <2>2. CASE ~CanOpen
    <3>1. KeysOK(lv, span, whole)'
      BY <1>1, <1>3, <2>2 DEF KeysOK, HeaderKeys, LinkOK
    <3>2. Index' = [k \in Keys |-> None]
      BY <1>1, <1>3, <2>2, NoneAnswered DEF Index
    <3>3. IndexStep
      BY <1>1, <1>5, <1>6, <3>2, Forgotten
    <3> QED
      BY <2>1, <3>1, <3>3
  <2>3. CASE CanOpen
    <3>1. top \in Pages /\ InitialIn(span[top])
      BY <1>1, <2>3, HeaderIn, NodesInPages DEF KeysOK, HeaderKeys
    <3>2. PICK span2, map2 :
             /\ Tree(pages, lv, top, span2) /\ Answers(pages, span2, map2)
             /\ map2 = [k \in Keys |-> map2[k]]
             /\ \A k \in Keys : map2[k] \in {Index[k], None}
             /\ Linked(pages, span) => Linked(pages, span2)
      BY <1>4, <1>5, <3>1, SubTree
    <3>3. KeysOK(lv, span2, whole)'
      <4>1. Linked(pages, span)
        BY <1>1, <1>3 DEF KeysOK, LinkOK, Ahead
      <4>2. LinkOK(span2, whole)'
        BY <1>1, <3>2, <4>1 DEF LinkOK, Ahead
      <4> QED
        BY <1>1, <1>3, <3>2, <4>2 DEF KeysOK, HeaderKeys, View
    <3>4. Index' = map2
      BY <1>1, <1>3, <2>3, <3>2 DEF SearchOK
    <3>5. IndexStep
      BY <1>1, <1>5, <1>6, <3>2, <3>4, Forgotten
    <3> QED
      BY <2>1, <3>3, <3>5
  <2> QED
    BY <2>2, <2>3
<1>7. CASE ~MayFail
  <2>1. CanOpen /\ top = root_page_id_
    BY <1>1, <1>7 DEF HeaderFresh
  <2>2. Tree(pages', lv, TreeRoot', span) /\ Answers(pages', span, Index)
    BY <1>1, <1>3, <1>4, <1>5, <2>1
  <2>3. KeysOK(lv, span, whole)'
    <3>1. Linked(pages, span)
      BY <1>1, <1>3 DEF KeysOK, LinkOK, Ahead
    <3>2. LinkOK(span, whole)'
      BY <1>1, <3>1 DEF LinkOK, Ahead
    <3> QED
      BY <1>1, <1>3, <2>2, <3>2 DEF KeysOK, HeaderKeys, View
  <2>4. Index' = Index
    BY <1>1, <1>3, <1>5, <2>1, <2>2 DEF SearchOK
  <2>5. Peopled(span) => Peopled(span)'
    BY <1>1 DEF Peopled, Awaited, Nodes
  <2>6. IndexStep
    BY <1>1, <1>5, <2>4, Forgotten
  <2> QED
    BY <1>2, <2>3, <2>5, <2>6 DEF MapStep
<1> QED
  BY <1>6, <1>7

(* An entry is put into a leaf of the tree. *)
LEMMA LeafPut ==
    ASSUME NEW pg, NEW lv, NEW root, NEW span, Tree(pg, lv, root, span),
           NEW leaf \in Pages, pg[leaf].kind = "leaf",
           NEW key \in span[leaf], NEW rid \in Rids, NEW pg2, pg2[leaf].kind = "leaf",
           pg2[leaf].entries = PutEntry(pg[leaf].entries, key, rid),
           \A q \in Pages \ {leaf} : span[q] # {} => pg2[q] = pg[q],
           NEW map, map = [k \in Keys |-> map[k]], Answers(pg, span, map)
    PROVE  Tree(pg2, lv, root, span) /\ Answers(pg2, span, [map EXCEPT ![key] = rid])
<1> DEFINE entries == pg[leaf].entries
           put == PutEntry(entries, key, rid)
           map2 == [map EXCEPT ![key] = rid]
<1>1. LeafIn(pg[leaf], span[leaf], lv[leaf]) /\ key \in Keys
  BY DEF Tree, NodeIn, InternalIn
<1>2. /\ put \in Seq(Entry) /\ RisingEntries(put)
      /\ \A i \in DOMAIN put :
            put[i].key = key \/ \E j \in DOMAIN entries : put[i].key = entries[j].key
      /\ Says(put, key, rid)
      /\ \A answer : \A k \in Keys \ {key} : Says(entries, k, answer) => Says(put, k, answer)
  <2>1. entries \in Seq(Entry) /\ RisingEntries(entries)
    BY <1>1 DEF LeafIn
  <2> QED
    BY <1>1, <2>1, PutEntryAnswers
<1>3. pg2[leaf].kind = "leaf" /\ pg2[leaf].entries = put
  OBVIOUS
<1> HIDE DEF put
<1>4. LeafIn(pg2[leaf], span[leaf], lv[leaf])
  BY <1>1, <1>2, <1>3 DEF LeafIn
<1>5. Tree(pg2, lv, root, span)
  <2>1. \A q \in Pages : span[q] # {} =>
           pg2[q] = pg[q] \/ LeafIn(pg2[q], span[q], lv[q])
    BY <1>4
  <2> QED
    BY <2>1, SameTree
<1>6. map2[key] = rid /\ \A k \in Keys \ {key} : map2[k] = map[k]
  BY <1>1
<1> HIDE DEF map2
<1>7. ASSUME NEW p \in Pages, pg2[p].kind = "leaf", NEW k \in span[p]
      PROVE  Says(pg2[p].entries, k, map2[k])
  <2>1. k \in Keys
    BY TreeTypes
  <2>2. CASE p = leaf
    <3>1. Says(entries, k, map[k])
      BY <1>7, <2>2 DEF Answers
    <3> QED
      BY <1>2, <1>3, <1>6, <2>1, <2>2, <3>1
  <2>3. CASE p # leaf
    <3>1. pg2[p] = pg[p]
      BY <1>7, <2>3
    <3>2. LeafIn(pg[p], span[p], lv[p])
      BY <1>7, <3>1 DEF Tree, NodeIn, InternalIn
    <3>3. k # key
      <4>1. lv[p] = lv[leaf]
        BY <1>1, <3>2 DEF LeafIn
      <4> QED
        BY <1>7, <2>3, <4>1 DEF Tree
    <3> QED
      BY <1>6, <1>7, <2>1, <3>1, <3>3 DEF Answers
  <2> QED
    BY <2>2, <2>3
<1> QED
  BY <1>5, <1>7 DEF Answers, map2

(* The leaf of a key, and the nodes above it. *)
LEMMA WayToKey ==
    ASSUME PagesOK, NEW level \in [Pages -> Nat], NEW rank \in [Pages -> Nat],
           Shape(level, rank), at = "idle",
           NEW lv, NEW span, Tree(pages, lv, root_page_id_, span), NEW key \in Keys
    PROVE  LET above == PathTo(root_page_id_, key)
           IN  /\ LeafFor(key) \in Nodes /\ LeafFor(key) \in Pages /\ IsLeaf(LeafFor(key))
               /\ key \in span[LeafFor(key)] /\ lv[LeafFor(key)] = 0
               /\ lv[root_page_id_] = Len(above) /\ Len(above) \in Nat
               /\ DOMAIN above = 1 .. Len(above)
               /\ \A i \in DOMAIN above :
                     key \in span[above[i]] /\ lv[above[i]] = Len(above) + 1 - i
<1> DEFINE root == root_page_id_
           d == Descent(root, key)
           above == PathTo(root, key)
<1>1. /\ root \in Nodes /\ height_ \in Nat \ {0} /\ height_ <= page_count - 1
      /\ LeafFor(key) \in Nodes /\ IsLeaf(LeafFor(key))
      /\ above \in Seq(Nodes) /\ Len(above) = height_ - 1
  BY PlaceOfKey
<1>2. Leveled(level) /\ level[root] = height_ - 1
  BY <1>1 DEF Shape, MembersOK, RootOK
<1>3. level[root] <= MaxPages
  BY <1>1, <1>2, NodesInPages
<1>4. /\ \A i \in 0 .. MaxPages :
            /\ d[i] \in Pages /\ key \in span[d[i]]
            /\ i <= level[root] => lv[d[i]] = level[root] - i
      /\ lv[root] = level[root]
      /\ key \in span[LeafFor(key)] /\ lv[LeafFor(key)] = 0
  <2>1. at \notin {"left", "right", "root"}
    OBVIOUS
  <2>2. LeafFor(key) = find_leaf_page(root, key)
    BY DEF LeafFor
  <2> QED
    BY <1>1, <1>2, <1>3, <2>1, <2>2, DescentInTree, SMTT(30)
<1>5. DOMAIN above = 1 .. Len(above)
  BY <1>1
<1>6. \A i \in 1 .. Len(above) : above[i] = d[i - 1]
  BY <1>5 DEF PathTo
<1> HIDE DEF above, d
<1>7. ASSUME NEW i \in DOMAIN above
      PROVE  key \in span[above[i]] /\ lv[above[i]] = Len(above) + 1 - i
  <2>1. PICK j : j = i - 1
    OBVIOUS
  <2>2. i \in 1 .. height_ - 1 /\ page_count \in Nat /\ page_count <= MaxPages
    BY <1>1, <1>5, NodesInPages
  <2>3. i \in Nat /\ j \in 0 .. MaxPages /\ j <= level[root]
    BY <1>1, <1>2, <2>1, <2>2, TreePagesAssumption
  <2>4. above[i] = d[j]
    BY <1>5, <1>6, <2>1
  <2>5. key \in span[d[j]] /\ lv[d[j]] = level[root] - j
    BY <1>4, <2>3
  <2> QED
    BY <1>1, <1>2, <2>1, <2>2, <2>4, <2>5
<1> QED
  BY <1>1, <1>2, <1>4, <1>5, <1>7, NodesInPages DEF above

LEMMA InsertInLeafMap ==
    ASSUME PagesOK, InsertingOK, HeaderFresh,
           NEW level \in [Pages -> Nat], NEW rank \in [Pages -> Nat],
           Shape(level, rank), NEW lv, NEW span, NEW whole, KeysOK(lv, span, whole),
           SearchOK', NEW key \in Keys, NEW rid \in Rids,
           CalledWith(key, rid), InsertInLeaf(key, rid)
    PROVE  MapStep(span) /\ IndexStep
<1>1. PICK leaf : leaf = LeafFor(key)
  OBVIOUS
<1> DEFINE content == LeafNode(Values(key, rid), pages[leaf].next)
<1>2. /\ at = "idle" /\ at' = "idle"
      /\ pages' = [pages EXCEPT ![leaf] = content] /\ page_count' = page_count
      /\ root_page_id_' = root_page_id_ /\ inserting' = NoInsert
  BY <1>1 DEF InsertInLeaf, WritePage
<1>3. Tree(pages, lv, root_page_id_, span)
  BY <1>2 DEF KeysOK, HasTree, View, TreeRoot
<1>4. leaf \in Nodes /\ leaf \in Pages /\ IsLeaf(leaf) /\ key \in span[leaf]
  BY <1>1, <1>2, <1>3, WayToKey
<1>5. pages'[leaf] = content /\ \A q \in Pages \ {leaf} : pages'[q] = pages[q]
  BY <1>2, <1>4 DEF PagesOK
<1>6. content.kind = "leaf" /\ content.entries = PutEntry(pages[leaf].entries, key, rid)
  BY <1>1 DEF Values, LeafNode
<1>7. HasTree /\ TreeRoot = root_page_id_ /\ HasTree' /\ TreeRoot' = root_page_id_
  BY <1>2 DEF HasTree, TreeRoot
<1>8. Answers(pages, span, Index) /\ Index \in [Keys -> Rids \cup {None}]
  BY <1>2, <1>3, <1>7, IndexAnswers
<1> HIDE DEF content
<1>9. /\ Tree(pages', lv, root_page_id_, span)
      /\ Answers(pages', span, [Index EXCEPT ![key] = rid])
  <2>1. pages[leaf].kind = "leaf" /\ Index = [k \in Keys |-> Index[k]]
    BY <1>4, <1>8 DEF IsLeaf
  <2> QED
    BY <1>3, <1>4, <1>5, <1>6, <1>8, <2>1, LeafPut
<1>10. Index' = [Index EXCEPT ![key] = rid]
  BY <1>2, <1>7, <1>8, <1>9 DEF SearchOK
<1>11. pages'[HEADER_PAGE_ID] = pages[HEADER_PAGE_ID]
  BY <1>4, <1>5, NodesInPages
<1>12. CanOpen' = CanOpen
  BY <1>2, <1>11 DEF CanOpen
<1>15. \A p \in Pages : KeepsPlace(pages, span, pages', span, p)
  <2>1. pages[leaf].entries \in Seq(Entry) /\ RisingEntries(pages[leaf].entries) /\ key \in Keys
    <3>1. LeafIn(pages[leaf], span[leaf], lv[leaf])
      BY <1>3, <1>4 DEF Tree, NodeIn, InternalIn, IsLeaf
    <3> QED
      BY <3>1 DEF LeafIn
  <2>2. \A i \in DOMAIN PutEntry(pages[leaf].entries, key, rid) :
           \/ PutEntry(pages[leaf].entries, key, rid)[i].key = key
           \/ \E j \in DOMAIN pages[leaf].entries :
                 PutEntry(pages[leaf].entries, key, rid)[i].key = pages[leaf].entries[j].key
    BY <2>1, PutEntryAnswers
  <2>3. content.next = pages[leaf].next
    BY DEF content, LeafNode
  <2>4. KeepsPlace(pages, span, pages', span, leaf)
    BY <1>4, <1>5, <1>6, <2>2, <2>3 DEF KeepsPlace, IsLeaf
  <2> QED
    BY <1>5, <2>4 DEF KeepsPlace
<1>13. KeysOK(lv, span, whole)'
  <2>1. Linked(pages, span)
    BY <1>2, <1>7 DEF KeysOK, LinkOK, Ahead
  <2>2. Linked(pages', span)
    BY <1>3, <1>15, <2>1, ChainKept DEF Tree
  <2>3. LinkOK(span, whole)'
    BY <1>2, <2>2 DEF LinkOK, Ahead
  <2> QED
    BY <1>2, <1>7, <1>9, <1>11, <1>12, <2>3 DEF KeysOK, HeaderKeys, View
<1>14. InsertingOK' /\ HeaderFresh'
  BY <1>2, <1>11, <1>12 DEF InsertingOK, HeaderFresh
<1>16. Peopled(span) => Peopled(span)'
  BY <1>2 DEF Peopled, Awaited, Nodes
<1> QED
  BY <1>2, <1>10, <1>13, <1>14, <1>16, CallReturns DEF MapStep, CalledWith

LEMMA SplitLeafMap ==
    ASSUME PagesOK, InsertingOK, HeaderFresh,
           NEW level \in [Pages -> Nat], NEW rank \in [Pages -> Nat],
           Shape(level, rank), NEW lv, NEW span, NEW whole, KeysOK(lv, span, whole),
           NEW key \in Keys, NEW rid \in Rids,
           CalledWith(key, rid), SplitLeaf(key, rid)
    PROVE  MapStep(span) /\ IndexStep
<1>1. PICK leaf, new, values, node :
         /\ leaf = LeafFor(key) /\ new = page_count /\ values = Values(key, rid)
         /\ node = LeafNode(values, pages[leaf].next)
  OBVIOUS
<1> DEFINE above == PathTo(root_page_id_, key)
<1>2. /\ at = "idle" /\ at' = "left" /\ ~LeafFits(values) /\ page_count < MaxPages
      /\ pages' = [pages EXCEPT ![new] = EmptyLeaf] /\ page_count' = page_count + 1
      /\ root_page_id_' = root_page_id_ /\ path' = above
      /\ inserting' = [key |-> key, rid |-> rid, before |-> SearchAll(root_page_id_),
                       threw |-> FALSE]
      /\ split'.page = leaf /\ split'.left = LeafNode(Left(values), new)
      /\ split'.right_page = new /\ split'.right = LeafNode(Right(values), pages[leaf].next)
      /\ split'.separator = Right(values)[1].key
  BY <1>1 DEF SplitLeaf, NewPage, LeafSplit
<1>3. Tree(pages, lv, root_page_id_, span)
  BY <1>2 DEF KeysOK, HasTree, View, TreeRoot
<1>4. /\ leaf \in Nodes /\ leaf \in Pages /\ IsLeaf(leaf)
      /\ key \in span[leaf] /\ lv[leaf] = 0
      /\ lv[root_page_id_] = Len(above) /\ Len(above) \in Nat
      /\ \A i \in DOMAIN above : key \in span[above[i]] /\ lv[above[i]] = Len(above) + 1 - i
  BY <1>1, <1>2, <1>3, WayToKey
<1>5. new \in Pages /\ new # leaf /\ new # HEADER_PAGE_ID /\ span[new] = {}
  <2>1. new \in Pages /\ new # leaf /\ new # HEADER_PAGE_ID
    BY <1>1, <1>2, <1>4, NodesInPages DEF HEADER_PAGE_ID
  <2>2. new >= page_count
    BY <1>1, NodesInPages
  <2> QED
    BY <1>3, <2>1, <2>2, PagesNoKeys
<1>6. /\ HasTree /\ TreeRoot = root_page_id_ /\ HasTree' /\ TreeRoot' = root_page_id_
      /\ Index = SearchAll(root_page_id_) /\ Index' = SearchAll(root_page_id_)
  BY <1>2 DEF HasTree, TreeRoot, Index
<1>7. Answers(pages, span, Index) /\ Index \in [Keys -> Rids \cup {None}]
  BY <1>2, <1>3, <1>6, IndexAnswers
<1> DEFINE view == [pages' EXCEPT ![leaf] = node]
<1>8. /\ view[leaf].kind = "leaf"
      /\ view[leaf].entries = PutEntry(pages[leaf].entries, key, rid)
      /\ \A q \in Pages \ {leaf} : span[q] # {} => view[q] = pages[q]
      /\ view = View(node)'
  <2>1. node.kind = "leaf" /\ node.entries = PutEntry(pages[leaf].entries, key, rid)
    BY <1>1 DEF Values, LeafNode
  <2>2. /\ view[leaf] = node
        /\ \A q \in Pages \ {leaf} : span[q] # {} => view[q] = pages[q]
        /\ view = View(node)'
    BY <1>1, <1>2, <1>4, <1>5 DEF PagesOK, View
  <2> QED
    BY <2>1, <2>2
<1>18. /\ view[leaf] = node /\ \A q \in Pages \ {leaf, new} : view[q] = pages[q]
       /\ view = [p \in Pages |-> view[p]]
  BY <1>2, <1>4, <1>5 DEF PagesOK
<1> HIDE DEF view
<1>9. /\ Tree(view, lv, root_page_id_, span)
      /\ Answers(view, span, [Index EXCEPT ![key] = rid])
  <2>1. pages[leaf].kind = "leaf" /\ Index = [k \in Keys |-> Index[k]]
    BY <1>4, <1>7 DEF IsLeaf
  <2>2. /\ view[leaf].kind = "leaf"
        /\ view[leaf].entries = PutEntry(pages[leaf].entries, key, rid)
        /\ \A q \in Pages \ {leaf} : span[q] # {} => view[q] = pages[q]
    BY <1>8
  <2>3. PICK before : before = Index
    OBVIOUS
  <2> QED
    BY <1>3, <1>4, <1>7, <2>1, <2>2, <2>3, LeafPut
<1>10. values \in Seq(Entry) /\ Len(values) = MAX_LEAF_ENTRIES + 1
  <2>1. LeafOK(pages[leaf], page_count)
    BY <1>4, NodeKinds
  <2>2. pages[leaf].entries \in Seq(Entry) /\ Len(pages[leaf].entries) <= MAX_LEAF_ENTRIES
    BY <2>1, KindOf DEF LeafOK, LeafFits
  <2>3. /\ values \in Seq(Entry)
        /\ Len(values) \in {Len(pages[leaf].entries), Len(pages[leaf].entries) + 1}
    BY <1>1, <2>2, PutEntryProperties DEF Values
  <2>4. Len(values) \in Nat /\ Len(pages[leaf].entries) \in Nat
    BY <2>2, <2>3, LenProperties
  <2> QED
    BY <1>2, <2>2, <2>3, <2>4, LeafSizeAssumption DEF LeafFits
<1>11. Halves(node, split'.left, split'.right, split'.separator)
  BY <1>1, <1>2, <1>10 DEF Halves, LeafNode
<1>12. pages'[HEADER_PAGE_ID] = pages[HEADER_PAGE_ID]
  BY <1>2, <1>5, NodesInPages DEF PagesOK
<1>13. CanOpen' = CanOpen
  BY <1>2, <1>4, <1>12, NodesInPages DEF CanOpen
<1> HIDE DEF above
<1>14. HeaderKeys(span)'
  BY <1>2, <1>12, <1>13 DEF KeysOK, HeaderKeys
<1>15. SplitKeys(lv, span, node)'
  <2>1. After' = [Index EXCEPT ![key] = rid]
    BY <1>2, <1>6 DEF After
  <2>2. /\ lv[root_page_id_] = lv[leaf] + Len(above)
        /\ \A i \in DOMAIN above :
              key \in span[above[i]] /\ lv[above[i]] = lv[leaf] + Len(above) + 1 - i
    BY <1>4
  <2>3. Answers(View(node)', span, After')
    BY <1>8, <1>9, <2>1
  <2>4. /\ (inserting.key \in span[split.page])'
        /\ span[split'.right_page] = {}
        /\ Halves(node, split'.left, split'.right, split'.separator)
    BY <1>2, <1>4, <1>5, <1>11
  <2>5. /\ lv[root_page_id_'] = lv[split'.page] + Len(path')
        /\ \A i \in DOMAIN path' :
              /\ inserting'.key \in span[path'[i]]
              /\ lv[path'[i]] = lv[split'.page] + Len(path') + 1 - i
    BY <1>2, <2>2
  <2> QED
    BY <1>2, <2>3, <2>4, <2>5 DEF SplitKeys
<1>19. LinkOK(span, node)'
  <2>1. PICK ahead : ahead = Ahead(node)'
    OBVIOUS
  <2>2. ahead = [view EXCEPT ![new] = split'.right]
    BY <1>2, <1>8, <2>1 DEF Ahead
  <2>3. /\ ahead[leaf] = node /\ ahead[new] = split'.right
        /\ \A q \in Pages \ {leaf, new} : ahead[q] = pages[q]
    BY <1>4, <1>5, <1>18, <2>2
  <2>4. /\ node.kind = "leaf" /\ node.next = pages[leaf].next
        /\ split'.left.next = new
        /\ split'.right.kind = "leaf" /\ split'.right.next = pages[leaf].next
    BY <1>1, <1>2 DEF LeafNode
  <2>5. /\ \A i \in DOMAIN node.entries : node.entries[i].key \in span[leaf]
        /\ \A i \in DOMAIN split'.right.entries : split'.right.entries[i].key \in span[leaf]
    <3>1. PICK left, right, separator :
             left = split'.left /\ right = split'.right /\ separator = split'.separator
      OBVIOUS
    <3>2. /\ NodeIn(view[leaf], lv, span, span[leaf], lv[leaf])
          /\ NodeIn(right, lv, span, Upper(span[leaf], separator), lv[leaf])
      BY <1>4, <1>9, <1>11, <1>18, <3>1, HalfOfNode DEF Tree
    <3>3. /\ LeafIn(node, span[leaf], lv[leaf])
          /\ LeafIn(right, Upper(span[leaf], separator), lv[leaf])
      BY <1>18, <2>4, <3>1, <3>2 DEF NodeIn, InternalIn
    <3> QED
      BY <3>1, <3>3 DEF LeafIn, Upper
  <2>6. Linked(pages, span)
    BY <1>2, <1>6 DEF KeysOK, LinkOK, Ahead
  <2>7. pages[leaf].kind = "leaf" /\ pages[new].kind # "leaf"
    BY <1>1, <1>4, <1>5, NodesInPages, NodeKinds DEF IsLeaf
  <2>8. Linked(ahead, span) /\ Unlinked(ahead, new)
    <3>1. \A q \in {leaf, new} :
             /\ ahead[q].kind = "leaf" /\ ahead[q].next = pages[leaf].next
             /\ \A i \in DOMAIN ahead[q].entries : ahead[q].entries[i].key \in span[leaf]
      BY <2>3, <2>4, <2>5
    <3>2. span \in [Pages -> SUBSET Keys]
      BY <1>3 DEF Tree
    <3> QED
      BY <1>4, <1>5, <2>3, <2>6, <2>7, <3>1, <3>2, ChainNewLeaf
  <2> QED
    BY <1>2, <2>1, <2>4, <2>8 DEF LinkOK
<1>16. KeysOK(lv, span, node)'
  BY <1>2, <1>6, <1>8, <1>9, <1>14, <1>15, <1>19 DEF KeysOK
<1>17. InsertingOK' /\ HeaderFresh'
  BY <1>2, <1>6, <1>7, <1>12, <1>13 DEF InsertingOK, Calls, HeaderFresh
<1>20. Peopled(span) => Peopled(span)'
  <2>1. Nodes' = Nodes \cup {new}
    BY <1>1, <1>2, <1>5, NodesInPages DEF Nodes, Pages, HEADER_PAGE_ID
  <2> QED
    BY <1>2, <2>1 DEF Peopled, Awaited
<1>21. Call' = Call
  <2>1. inserting \in Calls
    BY <1>2, NoneAssumption, NoCalls DEF InsertingOK, CalledWith
  <2> QED
    BY <1>2, <2>1 DEF Calls, Call, CalledWith
<1> QED
  BY <1>6, <1>16, <1>17, <1>20, <1>21 DEF MapStep, IndexStep

-----------------------------------------------------------------------------
(* The steps of a split *)

(* What holds while a node is being split. *)
LEMMA SplitFacts ==
    ASSUME PagesOK, InsertingOK, NEW level \in [Pages -> Nat], NEW rank \in [Pages -> Nat],
           Shape(level, rank), NEW lv, NEW span, NEW whole, KeysOK(lv, span, whole),
           at \in {"left", "right", "up", "root"}
    PROVE  /\ Tree(View(whole), lv, root_page_id_, span) /\ SplitKeys(lv, span, whole)
           /\ HeaderKeys(span)
           /\ split.page \in Pages /\ split.right_page \in Pages /\ split.page # split.right_page
           /\ HEADER_PAGE_ID \notin {split.page, split.right_page}
           /\ split.right_page < page_count /\ split.page < page_count
           /\ View(whole) = [pages EXCEPT ![split.page] = whole]
           /\ View(whole)[split.page] = whole
           /\ \A q \in Pages \ {split.page} : View(whole)[q] = pages[q]
           /\ path \in Seq(Nodes) /\ Len(path) \in Nat /\ DOMAIN path = 1 .. Len(path)
           /\ inserting.key \in Keys /\ inserting.rid \in Rids
           /\ inserting.before \in [Keys -> Rids \cup {None}]
           /\ After = [k \in Keys |-> After[k]]
<1>1. WayUp(level)
  BY DEF Shape, SplitOK
<1>2. /\ split.page \in Nodes /\ split.right_page \in Nodes
      /\ split.page # split.right_page /\ path \in Seq(Nodes)
  BY <1>1 DEF WayUp
<1>3. HasTree /\ TreeRoot = root_page_id_
  BY DEF HasTree, TreeRoot
<1>4. /\ inserting.key \in Keys /\ inserting.rid \in Rids
      /\ inserting.before \in [Keys -> Rids \cup {None}]
  BY DEF InsertingOK, Calls
<1>5. After = [k \in Keys |-> After[k]]
  BY <1>4 DEF After
<1>6. View(whole) = [pages EXCEPT ![split.page] = whole]
  BY DEF View
<1>7. /\ View(whole)[split.page] = whole
      /\ \A q \in Pages \ {split.page} : View(whole)[q] = pages[q]
  BY <1>2, <1>6, NodesInPages DEF PagesOK
<1>8. /\ split.page \in Pages /\ split.right_page \in Pages
      /\ HEADER_PAGE_ID \notin {split.page, split.right_page}
      /\ split.right_page < page_count /\ split.page < page_count
  BY <1>2, NodesInPages
<1>9. Len(path) \in Nat /\ DOMAIN path = 1 .. Len(path)
  BY <1>2, LenProperties
<1>10. Tree(View(whole), lv, root_page_id_, span) /\ SplitKeys(lv, span, whole) /\ HeaderKeys(span)
  BY <1>3 DEF KeysOK
<1> QED
  BY <1>2, <1>4, <1>5, <1>6, <1>7, <1>8, <1>9, <1>10

(* The left half is written; the tree of View keeps the whole node. *)
LEMMA WriteLeftMap ==
    ASSUME PagesOK, InsertingOK, HeaderFresh,
           NEW level \in [Pages -> Nat], NEW rank \in [Pages -> Nat],
           Shape(level, rank), NEW lv, NEW span, NEW whole, KeysOK(lv, span, whole), WriteLeft
    PROVE  MapStep(span) /\ IndexStep
<1>1. /\ at = "left" /\ at' = "right"
      /\ pages' = [pages EXCEPT ![split.page] = split.left] /\ page_count' = page_count
      /\ root_page_id_' = root_page_id_ /\ split' = split /\ path' = path
      /\ inserting' = inserting
  BY DEF WriteLeft, WritePage
<1>2. /\ Tree(View(whole), lv, root_page_id_, span) /\ SplitKeys(lv, span, whole)
      /\ HeaderKeys(span)
      /\ split.page \in Pages /\ split.page # HEADER_PAGE_ID
      /\ View(whole) = [pages EXCEPT ![split.page] = whole]
  BY <1>1, SplitFacts
<1>3. /\ pages'[split.page] = split.left
      /\ \A q \in Pages \ {split.page} : pages'[q] = pages[q]
      /\ pages' = [p \in Pages |-> pages'[p]]
  BY <1>1, <1>2 DEF PagesOK
<1>4. View(whole)' = View(whole)
  <2>1. View(whole)' = [pages' EXCEPT ![split.page] = whole]
    BY <1>1 DEF View
  <2>2. [pages' EXCEPT ![split.page] = whole] = [pages EXCEPT ![split.page] = whole]
    BY <1>1, <1>2 DEF PagesOK
  <2> QED
    BY <1>2, <2>1, <2>2
<1>5. pages'[HEADER_PAGE_ID] = pages[HEADER_PAGE_ID] /\ CanOpen' = CanOpen
  BY <1>1, <1>2, <1>3, NodesInPages DEF CanOpen
<1>6. HasTree' /\ TreeRoot' = root_page_id_ /\ After' = After
  BY <1>1 DEF HasTree, TreeRoot, After
<1>7. SplitKeys(lv, span, whole)'
  BY <1>1, <1>2, <1>3, <1>4, <1>6 DEF SplitKeys
<1>8. KeysOK(lv, span, whole)'
  <2>1. Ahead(whole)' = Ahead(whole)
    BY <1>1, <1>4 DEF Ahead
  <2>2. LinkOK(span, whole)'
    BY <1>1, <2>1 DEF KeysOK, LinkOK, HasTree
  <2> QED
    BY <1>1, <1>2, <1>4, <1>5, <1>6, <1>7, <2>2 DEF KeysOK, HeaderKeys
<1>9. InsertingOK' /\ HeaderFresh'
  BY <1>1, <1>5 DEF InsertingOK, HeaderFresh
<1>10. Index' = Index
  BY <1>1 DEF Index
<1>11. Peopled(span) => Peopled(span)'
  BY <1>1 DEF Peopled, Awaited, Nodes
<1> QED
  BY <1>1, <1>8, <1>9, <1>10, <1>11, CallIsKept DEF MapStep

(* A page that is not part of the tree is written. *)
LEMMA SplitViewKept ==
    ASSUME PagesOK, NEW lv, NEW root, NEW span, NEW whole, NEW map,
           Tree(View(whole), lv, root, span), Answers(View(whole), span, map),
           NEW p \in Pages, span[p] = {}, NEW view,
           \A q \in Pages \ {p} : view[q] = View(whole)[q]
    PROVE  Tree(view, lv, root, span) /\ Answers(view, span, map)
<1>1. Tree(view, lv, root, span)
  BY SameTree
<1>2. ASSUME NEW q \in Pages, view[q].kind = "leaf", NEW k \in span[q]
      PROVE  Says(view[q].entries, k, map[k])
  <2>1. view[q] = View(whole)[q]
    BY <1>2
  <2> QED
    BY <1>2, <2>1 DEF Answers
<1> QED
  BY <1>1, <1>2 DEF Answers

(* The right half is written, in a page that is not part of the tree. *)
LEMMA WriteRightMap ==
    ASSUME PagesOK, InsertingOK, HeaderFresh,
           NEW level \in [Pages -> Nat], NEW rank \in [Pages -> Nat],
           Shape(level, rank), NEW lv, NEW span, NEW whole, KeysOK(lv, span, whole), WriteRight
    PROVE  MapStep(span) /\ IndexStep
<1>1. /\ at = "right" /\ at' = "up"
      /\ pages' = [pages EXCEPT ![split.right_page] = split.right] /\ page_count' = page_count
      /\ root_page_id_' = root_page_id_ /\ split' = split /\ path' = path
      /\ inserting' = inserting
  BY DEF WriteRight, WritePage
<1>2. /\ Tree(View(whole), lv, root_page_id_, span) /\ SplitKeys(lv, span, whole)
      /\ HeaderKeys(span)
      /\ split.page \in Pages /\ split.right_page \in Pages /\ split.page # split.right_page
      /\ HEADER_PAGE_ID \notin {split.page, split.right_page}
      /\ View(whole)[split.page] = whole
      /\ \A q \in Pages \ {split.page} : View(whole)[q] = pages[q]
  BY <1>1, SplitFacts
<1>3. /\ pages'[split.right_page] = split.right
      /\ \A q \in Pages \ {split.right_page} : pages'[q] = pages[q]
      /\ pages' = [p \in Pages |-> pages'[p]]
  BY <1>1, <1>2 DEF PagesOK
<1>4. PICK view : view = View(whole)'
  OBVIOUS
<1>5. \A q \in Pages \ {split.right_page} : view[q] = View(whole)[q]
  <2>1. view = [pages' EXCEPT ![split.page] = whole]
    BY <1>1, <1>4 DEF View
  <2>2. view[split.page] = whole /\ \A q \in Pages \ {split.page} : view[q] = pages'[q]
    BY <1>2, <1>3, <2>1
  <2> QED
    BY <1>2, <1>3, <2>2
<1>6. Tree(view, lv, root_page_id_, span) /\ Answers(view, span, After)
  <2>1. span[split.right_page] = {} /\ Answers(View(whole), span, After)
    BY <1>2 DEF SplitKeys
  <2> QED
    BY <1>2, <1>5, <2>1, SplitViewKept
<1>7. pages'[HEADER_PAGE_ID] = pages[HEADER_PAGE_ID] /\ CanOpen' = CanOpen
  BY <1>1, <1>2, <1>3, NodesInPages DEF CanOpen
<1>8. HasTree' /\ TreeRoot' = root_page_id_ /\ After' = After
  BY <1>1 DEF HasTree, TreeRoot, After
<1>9. SplitKeys(lv, span, whole)'
  BY <1>1, <1>2, <1>3, <1>4, <1>6, <1>8 DEF SplitKeys
<1>10. KeysOK(lv, span, whole)'
  <2>1. Ahead(whole)' = Ahead(whole)
    <3>1. [View(whole) EXCEPT ![split.right_page] = split.right]
             = [[pages EXCEPT ![split.right_page] = split.right] EXCEPT
                   ![split.page] = whole, ![split.right_page] = split.right]
      BY <1>1, <1>2 DEF View, PagesOK
    <3> QED
      BY <1>1, <1>2, <3>1 DEF Ahead, View, PagesOK
  <2>2. LinkOK(span, whole)'
    BY <1>1, <2>1 DEF KeysOK, LinkOK, HasTree
  <2> QED
    BY <1>1, <1>2, <1>4, <1>6, <1>7, <1>8, <1>9, <2>2 DEF KeysOK, HeaderKeys
<1>11. InsertingOK' /\ HeaderFresh'
  BY <1>1, <1>7 DEF InsertingOK, HeaderFresh
<1>12. Index' = Index
  BY <1>1 DEF Index
<1>13. Peopled(span) => Peopled(span)'
  BY <1>1 DEF Peopled, Awaited, Nodes
<1> QED
  BY <1>1, <1>10, <1>11, <1>12, <1>13, CallIsKept DEF MapStep

(* The page of a new root is not part of the tree yet. *)
LEMMA CreateRootMap ==
    ASSUME PagesOK, InsertingOK, HeaderFresh,
           NEW level \in [Pages -> Nat], NEW rank \in [Pages -> Nat],
           Shape(level, rank), NEW lv, NEW span, NEW whole, KeysOK(lv, span, whole), CreateRoot
    PROVE  MapStep(span) /\ IndexStep
<1>1. PICK new : new = page_count
  OBVIOUS
<1>2. /\ at = "up" /\ at' = "root" /\ page_count < MaxPages
      /\ pages' = [pages EXCEPT ![new] = EmptyInternal] /\ page_count' = page_count + 1
      /\ root_page_id_' = root_page_id_ /\ split' = split /\ path' = path
      /\ inserting' = inserting
  BY <1>1 DEF CreateRoot, NewPage
<1>3. /\ Tree(View(whole), lv, root_page_id_, span) /\ SplitKeys(lv, span, whole)
      /\ HeaderKeys(span)
      /\ split.page \in Pages /\ split.right_page \in Pages /\ split.page # split.right_page
      /\ split.right_page < page_count /\ split.page < page_count
      /\ View(whole)[split.page] = whole
      /\ \A q \in Pages \ {split.page} : View(whole)[q] = pages[q]
  BY <1>2, SplitFacts, SMTT(30)
<1>4. /\ new \in Pages /\ new \notin {split.page, split.right_page, HEADER_PAGE_ID}
      /\ page_count > 0 /\ page_count' - 1 = new
  <2>1. page_count \in Nat /\ \A p \in Pages : p \in Nat
    BY NodesInPages DEF Pages
  <2>2. page_count > 0 /\ new # split.page /\ new # split.right_page
    BY <1>1, <1>3, <2>1
  <2>3. new \in Pages /\ new # HEADER_PAGE_ID
    BY <1>1, <1>2, <2>1, <2>2, NodesInPages DEF HEADER_PAGE_ID
  <2>4. page_count' - 1 = new
    BY <1>1, <1>2, <2>1
  <2> QED
    BY <2>2, <2>3, <2>4
<1>5. span[new] = {}
  <2>1. View(whole)[new] = pages[new] /\ new >= page_count
    BY <1>1, <1>3, <1>4, NodesInPages
  <2> QED
    BY <1>3, <1>4, <2>1, PagesNoKeys
<1>6. /\ \A q \in Pages \ {new} : pages'[q] = pages[q]
      /\ pages' = [p \in Pages |-> pages'[p]]
  BY <1>2, <1>4 DEF PagesOK
<1>7. PICK view : view = View(whole)'
  OBVIOUS
<1>8. \A q \in Pages \ {new} : view[q] = View(whole)[q]
  <2>1. view = [pages' EXCEPT ![split.page] = whole]
    BY <1>2, <1>7 DEF View
  <2>2. view[split.page] = whole /\ \A q \in Pages \ {split.page} : view[q] = pages'[q]
    BY <1>3, <1>6, <2>1
  <2> QED
    BY <1>3, <1>6, <2>2
<1>9. Tree(view, lv, root_page_id_, span) /\ Answers(view, span, After)
  <2>1. Answers(View(whole), span, After)
    BY <1>3 DEF SplitKeys
  <2> QED
    BY <1>3, <1>4, <1>5, <1>8, <2>1, SplitViewKept
<1>10. pages'[HEADER_PAGE_ID] = pages[HEADER_PAGE_ID] /\ CanOpen' = CanOpen
  <2>1. pages'[HEADER_PAGE_ID] = pages[HEADER_PAGE_ID]
    BY <1>4, <1>6, NodesInPages
  <2> QED
    BY <1>2, <1>4, <2>1, NodesInPages DEF CanOpen
<1>11. HasTree' /\ TreeRoot' = root_page_id_ /\ After' = After
  BY <1>2 DEF HasTree, TreeRoot, After
<1>12. pages'[split.page] = pages[split.page] /\ pages'[split.right_page] = pages[split.right_page]
  BY <1>3, <1>4, <1>6
<1>13. SplitKeys(lv, span, whole)'
  BY <1>2, <1>3, <1>4, <1>5, <1>7, <1>9, <1>11, <1>12 DEF SplitKeys
<1>17. LinkOK(span, whole)'
  <2>1. PICK ahead, ahead2 : ahead = Ahead(whole) /\ ahead2 = Ahead(whole)'
    OBVIOUS
  <2>2. /\ ahead = [View(whole) EXCEPT ![split.right_page] = split.right]
        /\ ahead2 = [view EXCEPT ![split.right_page] = split.right]
        /\ View(whole) = [pages EXCEPT ![split.page] = whole]
        /\ view = [pages' EXCEPT ![split.page] = whole]
    BY <1>2, <1>7, <2>1 DEF Ahead, View
  <2>3. \A q \in Pages \ {new} : ahead2[q] = ahead[q]
    BY <1>3, <1>6, <1>8, <2>2 DEF PagesOK
  <2>4. ahead[new].kind # "leaf" /\ ahead2[new].kind # "leaf"
    <3>1. ahead[new] = pages[new] /\ ahead2[new] = EmptyInternal
      BY <1>2, <1>3, <1>4, <1>6, <2>2 DEF PagesOK
    <3>2. pages[new].kind # "leaf"
      BY <1>1, <1>4, NodesInPages, NodeKinds DEF IsLeaf
    <3> QED
      BY <3>1, <3>2, InternalFields DEF EmptyInternal
  <2>5. \A p \in Pages : KeepsPlace(ahead, span, ahead2, span, p)
    BY <2>3, <2>4 DEF KeepsPlace
  <2>6. /\ Linked(ahead, span)
        /\ whole.kind = "leaf" =>
              /\ split.left.next = split.right_page /\ split.right.next = whole.next
              /\ Unlinked(ahead, split.right_page)
    BY <1>2, <2>1 DEF KeysOK, LinkOK, HasTree
  <2>7. /\ Linked(ahead2, span)
        /\ \A page : Unlinked(ahead, page) => Unlinked(ahead2, page)
    BY <1>3, <2>5, <2>6, ChainKept DEF Tree
  <2> QED
    BY <1>2, <2>1, <2>6, <2>7 DEF LinkOK
<1>14. KeysOK(lv, span, whole)'
  BY <1>2, <1>3, <1>7, <1>9, <1>10, <1>11, <1>13, <1>17 DEF KeysOK, HeaderKeys
<1>15. InsertingOK' /\ HeaderFresh'
  BY <1>2, <1>10 DEF InsertingOK, HeaderFresh
<1>16. Index' = Index
  BY <1>2 DEF Index
<1>18. Peopled(span) => Peopled(span)'
  <2>1. Nodes' = Nodes \cup {new}
    BY <1>1, <1>2, <1>4, NodesInPages DEF Nodes
  <2> QED
    BY <1>2, <1>4, <2>1 DEF Peopled, Awaited
<1> QED
  BY <1>2, <1>14, <1>15, <1>16, <1>18, CallIsKept DEF MapStep

(* The page of the least keys keeps them when a node is split. *)
LEMMA SplitInitial ==
    ASSUME NEW pg, NEW lv, NEW root, NEW span, Tree(pg, lv, root, span), Keys # {},
           NEW S \in Pages, span[S] # {}, NEW R \in Pages, R # S, span[R] = {},
           NEW left, NEW right, NEW separator, Halves(pg[S], left, right, separator),
           NEW p \in Pages, InitialIn(span[p])
    PROVE  InitialIn(SplitSpans(span, S, R, separator)[p])
<1> DEFINE span2 == SplitSpans(span, S, R, separator)
<1>1. p # R
  BY DEF InitialIn
<1>2. /\ separator \in span[S] /\ \E k \in span[S] : k < separator
      /\ span \in [Pages -> SUBSET Keys]
  BY HalfOfNode DEF Tree
<1>3. CASE p = S
  <2>1. span2[p] = Lower(span[S], separator)
    BY <1>1, <1>2, <1>3 DEF SplitSpans
  <2>2. \A k \in Keys : k \in Int
    BY KeysAssumption
  <2>3. Lower(span[S], separator) # {}
    BY <1>2 DEF Lower
  <2>4. ASSUME NEW y \in Lower(span[S], separator), NEW x \in Keys, x < y
        PROVE  x \in Lower(span[S], separator)
    <3>1. y \in span[S] /\ y < separator /\ y \in Keys /\ separator \in Keys
      BY <1>2, <2>4 DEF Lower
    <3>2. x \in span[S]
      BY <1>3, <2>4, <3>1 DEF InitialIn
    <3>3. x < separator
      BY <2>2, <2>4, <3>1
    <3> QED
      BY <3>2, <3>3 DEF Lower
  <2> QED
    BY <2>1, <2>3, <2>4 DEF InitialIn
<1>4. CASE p # S
  <2>1. span2[p] = span[p]
    BY <1>1, <1>2, <1>4 DEF SplitSpans
  <2> QED
    BY <2>1
<1> QED
  BY <1>3, <1>4

(* The parent of the node that is split. *)
LEMMA ParentIs ==
    ASSUME PagesOK, InsertingOK, NEW level \in [Pages -> Nat], NEW rank \in [Pages -> Nat],
           Shape(level, rank), NEW lv, NEW span, NEW whole, KeysOK(lv, span, whole),
           at = "up", path # <<>>
    PROVE  /\ Parent \in Nodes /\ Parent \in Pages /\ Parent # HEADER_PAGE_ID
           /\ Parent # split.page /\ Parent # split.right_page
           /\ inserting.key \in span[Parent] /\ inserting.key \in span[split.page]
           /\ lv[Parent] = lv[split.page] + 1
           /\ Len(path) \in Nat \ {0} /\ Parent = path[Len(path)]
           /\ pages[Parent].kind # "leaf" /\ ParentNode.kind # "leaf"
<1>1. /\ Tree(View(whole), lv, root_page_id_, span) /\ SplitKeys(lv, span, whole)
      /\ split.page \in Pages
      /\ path \in Seq(Nodes) /\ Len(path) \in Nat /\ DOMAIN path = 1 .. Len(path)
  BY SplitFacts
<1>2. Len(path) \in Nat \ {0}
  BY <1>1, EmptySeq
<1>3. Parent = path[Len(path)] /\ Len(path) \in DOMAIN path
  BY <1>1, <1>2 DEF Parent, Last
<1>4. Parent \in Nodes
  BY <1>1, <1>3, ElementOfSeq
<1>5. Parent \in Pages /\ Parent # HEADER_PAGE_ID
  BY <1>4, NodesInPages
<1>6. inserting.key \in span[Parent] /\ lv[Parent] = lv[split.page] + Len(path) + 1 - Len(path)
  BY <1>1, <1>3 DEF SplitKeys
<1>7. lv[Parent] \in Nat /\ lv[split.page] \in Nat
  BY <1>1, <1>5, TreeTypes
<1>8. lv[Parent] = lv[split.page] + 1
  BY <1>2, <1>6, <1>7
<1>9. inserting.key \in span[split.page] /\ span[split.right_page] = {}
  BY <1>1 DEF SplitKeys
<1>10. Parent # split.page
  BY <1>7, <1>8
<1>11. Parent # split.right_page
  BY <1>6, <1>9
<1>12. IsInternal(Parent)
  BY <1>3 DEF Shape, SplitOK, WayUp
<1>13. ParentNode.kind = "internal"
  BY InternalFields DEF ParentNode, PutChild
<1> QED
  BY <1>2, <1>3, <1>4, <1>5, <1>6, <1>8, <1>9, <1>10, <1>11, <1>12, <1>13 DEF IsInternal

(* The tree with both halves, once the parent has the new page. *)
LEMMA ParentPut ==
    ASSUME PagesOK, InsertingOK, NEW level \in [Pages -> Nat], NEW rank \in [Pages -> Nat],
           Shape(level, rank), NEW lv, NEW span, NEW whole, KeysOK(lv, span, whole),
           at = "up", path # <<>>, NEW pg2, pg2[Parent] = ParentNode,
           \A q \in Pages \ {Parent} :
               q \in {split.page, split.right_page} \/ span[q] # {} => pg2[q] = pages[q]
    PROVE  LET lv2 == SplitLevels(lv, split.page, split.right_page)
               span2 == SplitSpans(span, split.page, split.right_page, split.separator)
           IN  /\ Tree(pg2, lv2, root_page_id_, span2)
               /\ Answers(pg2, span2, After)
               /\ \A p \in Pages : InitialIn(span[p]) => InitialIn(span2[p])
<1>1. PICK S, R, P, left, right, separator, pg :
         /\ S = split.page /\ R = split.right_page /\ P = Parent
         /\ left = split.left /\ right = split.right /\ separator = split.separator
         /\ pg = View(whole)
  OBVIOUS
<1>2. /\ Tree(pg, lv, root_page_id_, span) /\ SplitKeys(lv, span, whole)
      /\ S \in Pages /\ R \in Pages /\ R # S
      /\ pg[S] = whole /\ \A q \in Pages \ {S} : pg[q] = pages[q]
      /\ inserting.key \in Keys
  BY <1>1, SplitFacts
<1>3. /\ P \in Pages /\ P # S /\ P # R /\ lv[P] = lv[S] + 1
      /\ inserting.key \in span[P] /\ inserting.key \in span[S]
  BY <1>1, ParentIs
<1>4. /\ span[R] = {} /\ Halves(pg[S], left, right, separator)
      /\ Answers(pg, span, After)
      /\ pages[S] = left /\ pages[R] = right
  BY <1>1, <1>2 DEF SplitKeys
<1>5. /\ pg2[S] = left /\ pg2[R] = right /\ pg2[P] = PutChild(pg[P], separator, R)
      /\ \A q \in Pages \ {S, R, P} : span[q] # {} => pg2[q] = pg[q]
  BY <1>1, <1>2, <1>3, <1>4 DEF ParentNode
<1>6. span[S] # {} /\ span[P] \cap span[S] # {} /\ Keys # {}
  BY <1>2, <1>3
<1>7. Tree(pg2, SplitLevels(lv, S, R), root_page_id_, SplitSpans(span, S, R, separator))
  <2>1. /\ Tree(pg, lv, root_page_id_, span) /\ S \in Pages /\ R \in Pages /\ R # S
        /\ P \in Pages /\ lv[P] = lv[S] + 1 /\ span[R] = {}
        /\ Halves(pg[S], left, right, separator)
    BY <1>2, <1>3, <1>4
  <2> QED
    BY <1>5, <1>6, <2>1, SplitTree
<1>8. Answers(pg2, SplitSpans(span, S, R, separator), After)
  BY <1>2, <1>3, <1>4, <1>5, <1>6, SplitAnswers
<1>9. \A p \in Pages : InitialIn(span[p]) => InitialIn(SplitSpans(span, S, R, separator)[p])
  BY <1>2, <1>4, <1>6, SplitInitial
<1> QED
  BY <1>1, <1>7, <1>8, <1>9

(* Both halves have keys of the node that was split. *)
LEMMA SplitPeopled ==
    ASSUME PagesOK, InsertingOK, NEW level \in [Pages -> Nat], NEW rank \in [Pages -> Nat],
           Shape(level, rank), NEW lv, NEW span, NEW whole, KeysOK(lv, span, whole),
           at \in {"up", "root"}, NEW p \in Pages, span[p] # {} \/ p = split.right_page
    PROVE  SplitSpans(span, split.page, split.right_page, split.separator)[p] # {}
<1>1. PICK S, R, left, right, separator, pg :
         /\ S = split.page /\ R = split.right_page
         /\ left = split.left /\ right = split.right /\ separator = split.separator
         /\ pg = View(whole)
  OBVIOUS
<1>2. /\ Tree(pg, lv, root_page_id_, span) /\ SplitKeys(lv, span, whole)
      /\ S \in Pages /\ R \in Pages /\ R # S /\ pg[S] = whole
  BY <1>1, SplitFacts
<1>3. span[S] # {} /\ Halves(pg[S], left, right, separator)
  BY <1>1, <1>2 DEF SplitKeys
<1>4. PICK k \in span[S] : separator \in span[S] /\ k < separator
  BY <1>2, <1>3, HalfOfNode
<1>5. separator \in Int /\ span \in [Pages -> SUBSET Keys]
  BY <1>2, <1>4, TreeTypes DEF Tree
<1>6. k \in Lower(span[S], separator) /\ separator \in Upper(span[S], separator)
  BY <1>4, <1>5 DEF Lower, Upper
<1>7. SplitSpans(span, S, R, separator)[p] # {}
  BY <1>1, <1>2, <1>5, <1>6 DEF SplitSpans
<1> QED
  BY <1>1, <1>7

(* The chain with both halves. *)
LEMMA LinkPut ==
    ASSUME PagesOK, InsertingOK, NEW level \in [Pages -> Nat], NEW rank \in [Pages -> Nat],
           Shape(level, rank), NEW lv, NEW span, NEW whole, KeysOK(lv, span, whole),
           at \in {"up", "root"}, NEW pg2,
           HalvesPut(pages, pg2, split.page, split.right_page, split.left, split.right),
           NEW span2,
           \/ span2 = span
           \/ span2 = SplitSpans(span, split.page, split.right_page, split.separator)
    PROVE  Linked(pg2, span2)
<1>1. PICK S, R, left, right, separator, view, pg :
         /\ S = split.page /\ R = split.right_page
         /\ left = split.left /\ right = split.right /\ separator = split.separator
         /\ view = View(whole) /\ pg = Ahead(whole)
  OBVIOUS
<1>2. /\ Tree(view, lv, root_page_id_, span) /\ SplitKeys(lv, span, whole)
      /\ S \in Pages /\ R \in Pages /\ R # S
      /\ view = [pages EXCEPT ![S] = whole] /\ view[S] = whole
      /\ \A q \in Pages \ {S} : view[q] = pages[q]
  BY <1>1, SplitFacts
<1>3. pg = [view EXCEPT ![R] = right]
  BY <1>1 DEF Ahead
<1>4. /\ pg[S] = view[S] /\ pg[R] = right
      /\ \A q \in Pages \ {S, R} : pg[q] = pages[q]
  BY <1>2, <1>3 DEF PagesOK
<1>5. /\ span[S] # {} /\ span[R] = {} /\ Halves(view[S], left, right, separator)
  BY <1>1, <1>2 DEF SplitKeys
<1>6. /\ Linked(pg, span)
      /\ view[S].kind = "leaf" =>
            left.next = R /\ right.next = view[S].next /\ Unlinked(pg, R)
  BY <1>1, <1>2 DEF KeysOK, LinkOK, HasTree
<1>7. HalvesPut(pg, pg2, S, R, left, right)
  BY <1>1, <1>4 DEF HalvesPut
<1>8. span2 = span \/ span2 = SplitSpans(span, S, R, separator)
  BY <1>1
<1>9. PICK root : root = root_page_id_
  OBVIOUS
<1>10. /\ Tree(view, lv, root, span) /\ pg[S] = view[S]
       /\ view[S].kind = "leaf" =>
             left.next = R /\ right.next = view[S].next /\ Unlinked(pg, R)
  BY <1>2, <1>4, <1>6, <1>9
<1> QED
  <2>1. S \in Pages /\ R \in Pages /\ R # S
    BY <1>2
  <2>2. Linked(pg, span) /\ pg[S] = view[S] /\ pg[R] = right
    BY <1>4, <1>6
  <2> QED
    BY <2>1, <2>2, <1>5, <1>7, <1>8, <1>10, SplitLinks, ZenonT(60)

(* The parent is written: only now search sees the new entry. *)
LEMMA InsertInParentMap ==
    ASSUME PagesOK, InsertingOK, HeaderFresh,
           NEW level \in [Pages -> Nat], NEW rank \in [Pages -> Nat],
           Shape(level, rank), NEW lv, NEW span, NEW whole, KeysOK(lv, span, whole),
           SearchOK', InsertInParent
    PROVE  MapStep(span) /\ IndexStep
<1>1. /\ at = "up" /\ path # <<>> /\ at' = "idle"
      /\ pages' = [pages EXCEPT ![Parent] = ParentNode] /\ page_count' = page_count
      /\ root_page_id_' = root_page_id_ /\ inserting' = NoInsert
  BY DEF InsertInParent, WritePage
<1>2. /\ Parent \in Pages /\ Parent # HEADER_PAGE_ID
      /\ Parent # split.page /\ Parent # split.right_page
      /\ pages[Parent].kind # "leaf" /\ ParentNode.kind # "leaf"
  BY <1>1, ParentIs
<1>3. pages'[Parent] = ParentNode /\ \A q \in Pages \ {Parent} : pages'[q] = pages[q]
  BY <1>1, <1>2 DEF PagesOK
<1>4. PICK lv2, span2 :
         /\ Tree(pages', lv2, root_page_id_, span2) /\ Answers(pages', span2, After)
         /\ \A p \in Pages : InitialIn(span[p]) => InitialIn(span2[p])
         /\ Linked(pages', span2)
         /\ \A p \in Pages : span[p] # {} \/ p = split.right_page => span2[p] # {}
  <2> DEFINE lv2 == SplitLevels(lv, split.page, split.right_page)
             span2 == SplitSpans(span, split.page, split.right_page, split.separator)
  <2>1. /\ Tree(pages', lv2, root_page_id_, span2) /\ Answers(pages', span2, After)
        /\ \A p \in Pages : InitialIn(span[p]) => InitialIn(span2[p])
    BY <1>1, <1>3, ParentPut
  <2>2. Linked(pages', span2)
    <3>1. /\ pages'[split.page] = split.left /\ pages'[split.right_page] = split.right
      <4>1. /\ SplitKeys(lv, span, whole)
            /\ split.page \in Pages /\ split.right_page \in Pages
        BY <1>1, SplitFacts
      <4> QED
        BY <1>1, <1>2, <1>3, <4>1 DEF SplitKeys
    <3>2. \A q \in Pages \ {split.page, split.right_page} :
             /\ pages'[q].kind = "leaf" <=> pages[q].kind = "leaf"
             /\ pages[q].kind = "leaf" => pages'[q] = pages[q]
      BY <1>2, <1>3
    <3>3. HalvesPut(pages, pages', split.page, split.right_page, split.left, split.right)
      BY <3>1, <3>2 DEF HalvesPut
    <3> QED
      BY <1>1, <3>3, LinkPut
  <2>3. \A p \in Pages : span[p] # {} \/ p = split.right_page => span2[p] # {}
    BY <1>1, SplitPeopled
  <2> QED
    BY <2>1, <2>2, <2>3
<1>5. pages'[HEADER_PAGE_ID] = pages[HEADER_PAGE_ID] /\ CanOpen' = CanOpen
  BY <1>1, <1>2, <1>3, NodesInPages DEF CanOpen
<1>6. HasTree' /\ TreeRoot' = root_page_id_ /\ HeaderKeys(span)
  BY <1>1 DEF HasTree, TreeRoot, KeysOK
<1>7. HeaderKeys(span2)'
  <2>1. CanOpen => pages[HEADER_PAGE_ID].root_page_id \in Pages
    BY HeaderIn, NodesInPages
  <2> QED
    BY <1>1, <1>4, <1>5, <1>6, <2>1 DEF HeaderKeys
<1>8. KeysOK(lv2, span2, whole)'
  <2>1. LinkOK(span2, whole)'
    BY <1>1, <1>4 DEF LinkOK, Ahead
  <2> QED
    BY <1>1, <1>4, <1>6, <1>7, <2>1 DEF KeysOK, View
<1>9. InsertingOK' /\ HeaderFresh'
  BY <1>1, <1>5 DEF InsertingOK, HeaderFresh
<1>10. /\ inserting.key \in Keys /\ inserting.rid \in Rids
       /\ After = [k \in Keys |-> After[k]]
  BY <1>1, SplitFacts
<1>11. Index' = After
  BY <1>1, <1>4, <1>6, <1>10 DEF SearchOK
<1>12. Index = inserting.before
  BY <1>1 DEF Index
<1>13. IndexStep
  BY <1>1, <1>10, <1>11, <1>12, CallReturns DEF After
<1>14. Peopled(span) => Peopled(span2)'
  BY <1>1, <1>4, NodesInPages DEF Peopled, Awaited, Nodes
<1> QED
  BY <1>8, <1>9, <1>13, <1>14 DEF MapStep

(* The parent, with the new page, is the next node to be split. *)
LEMMA SplitParentMap ==
    ASSUME PagesOK, InsertingOK, HeaderFresh,
           NEW level \in [Pages -> Nat], NEW rank \in [Pages -> Nat],
           Shape(level, rank), NEW lv, NEW span, NEW whole, KeysOK(lv, span, whole), SplitParent
    PROVE  MapStep(span) /\ IndexStep
<1>1. PICK new, parent, node, S, R :
         /\ new = page_count /\ parent = Parent /\ node = ParentNode
         /\ S = split.page /\ R = split.right_page
  OBVIOUS
<1>2. /\ at = "up" /\ path # <<>> /\ at' = "left" /\ ~InternalFits(node)
      /\ page_count < MaxPages
      /\ pages' = [pages EXCEPT ![new] = EmptyInternal] /\ page_count' = page_count + 1
      /\ root_page_id_' = root_page_id_ /\ path' = Front(path) /\ inserting' = inserting
      /\ split'.page = parent /\ split'.left = LeftInternal(node)
      /\ split'.right_page = new /\ split'.right = RightInternal(node)
      /\ split'.separator = promoted(node)
  BY <1>1 DEF SplitParent, NewPage
<1>3. /\ Tree(View(whole), lv, root_page_id_, span) /\ SplitKeys(lv, span, whole)
      /\ HeaderKeys(span)
      /\ S \in Pages /\ R \in Pages /\ S # R /\ R < page_count /\ S < page_count
      /\ \A q \in Pages \ {S} : View(whole)[q] = pages[q]
      /\ path \in Seq(Nodes) /\ DOMAIN path = 1 .. Len(path)
  BY <1>1, <1>2, SplitFacts
<1>4. /\ parent \in Nodes /\ parent \in Pages /\ parent # HEADER_PAGE_ID
      /\ parent # S /\ parent # R
      /\ inserting.key \in span[parent] /\ inserting.key \in span[S]
      /\ lv[parent] = lv[S] + 1
      /\ Len(path) \in Nat \ {0} /\ parent = path[Len(path)]
      /\ pages[parent].kind # "leaf" /\ node.kind # "leaf"
  BY <1>1, <1>2, ParentIs
<1>5. /\ new \in Pages /\ new \notin {S, R, parent, HEADER_PAGE_ID} /\ page_count > 0
  <2>1. new \in Pages /\ new \in Nat /\ parent \in Nat /\ parent > 0 /\ parent < new
    BY <1>1, <1>2, <1>4, NodesInPages
  <2>2. S \in Nat /\ R \in Nat /\ S < new /\ R < new
    BY <1>1, <1>3 DEF Pages
  <2> QED
    BY <1>1, <2>1, <2>2 DEF HEADER_PAGE_ID
<1>6. span[new] = {}
  <2>1. View(whole)[new] = pages[new] /\ new >= page_count
    BY <1>1, <1>3, <1>5, NodesInPages
  <2> QED
    BY <1>3, <1>5, <2>1, PagesNoKeys
<1>7. \A q \in Pages \ {new} : pages'[q] = pages[q]
  BY <1>2, <1>5 DEF PagesOK
<1>8. PICK view : view = View(node)'
  OBVIOUS
<1>9. view[parent] = node /\ \A q \in Pages \ {parent} : view[q] = pages'[q]
  <2>1. view = [pages' EXCEPT ![parent] = node]
    BY <1>2, <1>8 DEF View
  <2>2. pages' = [p \in Pages |-> pages'[p]]
    BY <1>2, <1>5 DEF PagesOK
  <2> QED
    BY <1>4, <2>1, <2>2
<1> DEFINE lv2 == SplitLevels(lv, split.page, split.right_page)
           span2 == SplitSpans(span, split.page, split.right_page, split.separator)
<1>10. PICK l, s : l = lv2 /\ s = span2
  OBVIOUS
<1>11. /\ Tree(view, l, root_page_id_, s) /\ Answers(view, s, After)
       /\ \A p \in Pages : InitialIn(span[p]) => InitialIn(s[p])
  <2>1. view[Parent] = ParentNode
    BY <1>1, <1>9
  <2>2. \A q \in Pages \ {Parent} :
           q \in {split.page, split.right_page} \/ span[q] # {} => view[q] = pages[q]
    BY <1>1, <1>5, <1>6, <1>7, <1>9
  <2>3. /\ Tree(view, lv2, root_page_id_, span2) /\ Answers(view, span2, After)
        /\ \A p \in Pages : InitialIn(span[p]) => InitialIn(span2[p])
    BY <1>2, <2>1, <2>2, ParentPut
  <2> QED
    BY <1>10, <2>3
<1>12. /\ \A q \in Pages \ {R} : l[q] = lv[q]
       /\ \A q \in Pages \ {S, R} : s[q] = span[q]
  BY <1>1, <1>3, <1>10 DEF Tree, SplitLevels, SplitSpans
<1>13. Halves(node, split'.left, split'.right, split'.separator)
  <2>1. /\ node = InternalNode(node.keys, node.children) /\ node.keys \in Seq(Keys)
        /\ Len(node.keys) <= MAX_INTERNAL_KEYS + 1
    BY <1>1, <1>2, ParentFacts
  <2>2. Len(node.keys) = MAX_INTERNAL_KEYS + 1 /\ node.kind = "internal"
    BY <1>2, <2>1, LenProperties, InternalSizeAssumption, InternalFields DEF InternalFits
  <2> QED
    BY <1>2, <2>2 DEF Halves
<1>14. pages'[HEADER_PAGE_ID] = pages[HEADER_PAGE_ID] /\ CanOpen' = CanOpen
  <2>1. pages'[HEADER_PAGE_ID] = pages[HEADER_PAGE_ID]
    BY <1>5, <1>7, NodesInPages
  <2> QED
    BY <1>2, <1>5, <2>1, NodesInPages DEF CanOpen
<1>15. HeaderKeys(s)'
  <2>1. CanOpen => pages[HEADER_PAGE_ID].root_page_id \in Pages
    BY HeaderIn, NodesInPages
  <2> QED
    BY <1>2, <1>3, <1>11, <1>14, <2>1 DEF HeaderKeys
<1>16. HasTree' /\ TreeRoot' = root_page_id_ /\ After' = After
  BY <1>2 DEF HasTree, TreeRoot, After
\* What is above the parent.
<1>17. /\ Len(path') = Len(path) - 1 /\ DOMAIN path' = 1 .. Len(path) - 1
       /\ \A i \in DOMAIN path' : path'[i] = path[i]
  BY <1>2, <1>3, <1>4, FrontOfSeq
<1>18. /\ \A p \in Pages : lv[p] \in Nat
       /\ root_page_id_ \in Pages /\ root_page_id_ # R
       /\ lv[root_page_id_] = lv[S] + Len(path)
       /\ span[R] = {}
  <2>1. \A p \in Pages : lv[p] \in Nat
    BY <1>3, TreeTypes
  <2>2. lv[root_page_id_] = lv[S] + Len(path) /\ span[R] = {}
    BY <1>1, <1>3 DEF SplitKeys
  <2>3. root_page_id_ \in Pages /\ span[root_page_id_] = Keys /\ inserting.key \in Keys
    BY <1>3, <1>4, TreeTypes DEF Tree
  <2> QED
    BY <2>1, <2>2, <2>3
<1>19. l[root_page_id_] = l[parent] + Len(path')
  <2>1. l[root_page_id_] = lv[root_page_id_] /\ l[parent] = lv[S] + 1
    BY <1>4, <1>12, <1>18
  <2>2. lv[S] \in Nat
    BY <1>3, <1>18
  <2> QED
    BY <1>4, <1>17, <1>18, <2>1, <2>2
<1>20. ASSUME NEW i \in DOMAIN path'
       PROVE  inserting.key \in s[path'[i]] /\ l[path'[i]] = l[parent] + Len(path') + 1 - i
  <2>1. i \in DOMAIN path /\ path'[i] = path[i] /\ i \in Nat /\ i < Len(path)
    BY <1>3, <1>4, <1>17
  <2>2. PICK p : p = path[i]
    OBVIOUS
  <2>3. p \in Pages
    BY <1>3, <2>1, <2>2, ElementOfSeq, NodesInPages
  <2>4. inserting.key \in span[p] /\ lv[p] = lv[S] + Len(path) + 1 - i
    BY <1>1, <1>3, <2>1, <2>2 DEF SplitKeys
  <2>5. lv[S] \in Nat /\ l[parent] = lv[S] + 1
    BY <1>3, <1>4, <1>12, <1>18
  <2>6. p # S
    BY <1>4, <2>1, <2>4, <2>5
  <2>7. p # R
    BY <1>18, <2>4
  <2>8. inserting.key \in s[p] /\ l[p] = lv[S] + Len(path) + 1 - i
    BY <1>12, <2>3, <2>4, <2>6, <2>7
  <2>9. lv[S] + Len(path) + 1 - i = l[parent] + Len(path') + 1 - i
    <3>1. Len(path) \in Int /\ i \in Int /\ lv[S] \in Int
      BY <1>4, <2>1, <2>5
    <3>2. l[parent] = lv[S] + 1 /\ Len(path') = Len(path) - 1
      BY <1>17, <2>5
    <3>3. \A a, n, j \in Int : a + n + 1 - j = a + 1 + (n - 1) + 1 - j
      OBVIOUS
    <3>4. lv[S] + Len(path) + 1 - i = lv[S] + 1 + (Len(path) - 1) + 1 - i
      BY <3>1, <3>3
    <3> QED
      BY <3>2, <3>4
  <2>10. path'[i] = p
    BY <2>1, <2>2
  <2> QED
    BY <2>8, <2>9, <2>10
<1>21. SplitKeys(l, s, node)'
  <2>1. s[parent] = span[parent] /\ s[new] = {}
    BY <1>4, <1>5, <1>6, <1>12
  <2>2. /\ inserting'.key \in s[split'.page] /\ s[split'.right_page] = {}
        /\ Answers(View(node)', s, After')
    BY <1>2, <1>4, <1>8, <1>11, <1>16, <2>1
  <2>3. /\ l[root_page_id_'] = l[split'.page] + Len(path')
        /\ \A i \in DOMAIN path' :
              /\ inserting'.key \in s[path'[i]]
              /\ l[path'[i]] = l[split'.page] + Len(path') + 1 - i
    BY <1>2, <1>19, <1>20
  <2> QED
    BY <1>2, <1>13, <2>2, <2>3 DEF SplitKeys
<1>25. LinkOK(s, node)'
  <2>1. PICK ahead : ahead = Ahead(node)'
    OBVIOUS
  <2>2. ahead = [view EXCEPT ![new] = RightInternal(node)]
    BY <1>2, <1>8, <2>1 DEF Ahead
  <2>3. view = [[pages EXCEPT ![new] = EmptyInternal] EXCEPT ![parent] = node]
    BY <1>2, <1>8 DEF View
  <2>4. /\ ahead[parent] = node /\ ahead[new] = RightInternal(node)
        /\ \A q \in Pages \ {parent, new} : ahead[q] = pages[q]
    BY <1>4, <1>5, <2>2, <2>3 DEF PagesOK
  <2>5. pages[new].kind # "leaf" /\ ahead[new].kind # "leaf"
    BY <1>1, <1>5, <2>4, NodesInPages, NodeKinds, InternalFields DEF IsLeaf, RightInternal
  <2>6. ahead[S] = split.left /\ ahead[R] = split.right
    BY <1>1, <1>2, <1>3, <1>4, <1>5, <2>4 DEF SplitKeys
  <2>7. HalvesPut(pages, ahead, S, R, split.left, split.right)
    BY <1>4, <2>4, <2>5, <2>6 DEF HalvesPut
  <2>11. S = split.page /\ R = split.right_page
    BY <1>1
  <2>9. HalvesPut(pages, ahead, split.page, split.right_page, split.left, split.right)
    BY <2>7, <2>11
  <2>10. s = span \/ s = SplitSpans(span, split.page, split.right_page, split.separator)
    BY <1>2, <1>10
  <2>12. at \in {"up", "root"}
    BY <1>2
  <2>8. Linked(ahead, s)
    BY <2>9, <2>10, <2>12, LinkPut, SMTT(30)
  <2> QED
    BY <1>4, <2>1, <2>8 DEF LinkOK
<1>22. KeysOK(l, s, node)'
  BY <1>2, <1>8, <1>11, <1>15, <1>16, <1>21, <1>25 DEF KeysOK
<1>23. InsertingOK' /\ HeaderFresh'
  BY <1>2, <1>14 DEF InsertingOK, HeaderFresh
<1>24. Index' = Index
  BY <1>2 DEF Index
<1>26. Peopled(span) => Peopled(s)'
  <2>1. \A p \in Pages : span[p] # {} \/ p = split.right_page => s[p] # {}
    BY <1>2, <1>10, SplitPeopled
  <2>2. Nodes' = Nodes \cup {new}
    BY <1>1, <1>2, <1>5, NodesInPages DEF Nodes
  <2> QED
    BY <1>2, <2>1, <2>2, NodesInPages DEF Peopled, Awaited
<1> QED
  BY <1>2, <1>22, <1>23, <1>24, <1>26, CallIsKept DEF MapStep

(* A tree of one level more: a root with one child, which then gets the new page. *)
LEMMA RootPut ==
    ASSUME NEW pg, NEW lv, NEW root, NEW span, Tree(pg, lv, root, span), Keys # {},
           NEW S \in Pages, span[S] = Keys, lv[root] = lv[S],
           NEW R \in Pages, R # S, span[R] = {},
           NEW left, NEW right, NEW separator, Halves(pg[S], left, right, separator),
           NEW N \in Pages, span[N] = {}, N # R,
           NEW pg2, pg2[S] = left, pg2[R] = right,
           pg2[N] = InternalNode(<<separator>>, <<root, R>>),
           \A q \in Pages \ {S, R, N} : pg2[q] = pg[q],
           NEW map, Answers(pg, span, map)
    PROVE  \E lv2, span2 :
              /\ Tree(pg2, lv2, N, span2) /\ Answers(pg2, span2, map)
              /\ \A p \in Pages : InitialIn(span[p]) => InitialIn(span2[p])
              /\ \A p \in Pages \ {N} : span2[p] = SplitSpans(span, S, R, separator)[p]
<1> DEFINE one == InternalNode(<<>>, <<root>>)
           pg1 == [p \in Pages |-> IF p = N THEN one ELSE pg[p]]
           lv1 == [lv EXCEPT ![N] = lv[root] + 1]
           span1 == [span EXCEPT ![N] = Keys]
<1>1. /\ lv \in [Pages -> Nat] /\ span \in [Pages -> SUBSET Keys] /\ N # S
      /\ separator \in Keys
  BY HalfOfNode DEF Tree
<1>2. /\ pg1[N] = one /\ \A q \in Pages \ {N} : pg1[q] = pg[q]
      /\ lv1[N] = lv[S] + 1 /\ lv1[S] = lv[S]
      /\ span1[N] = Keys /\ \A q \in Pages \ {N} : span1[q] = span[q]
  BY <1>1
<1> HIDE DEF pg1
<1>3. Tree(pg1, lv1, N, span1)
  BY <1>2, RootAbove
<1> HIDE DEF lv1, span1
<1>4. Answers(pg1, span1, map)
  <2>1. one.kind # "leaf"
    BY InternalFields
  <2> QED
    BY <1>2, <2>1 DEF Answers
<1>5. PutChild(one, separator, R) = InternalNode(<<separator>>, <<root, R>>)
  <2>1. one.keys = <<>> /\ one.children = <<root>>
    BY InternalFields
  <2>2. upper_bound(<<>>, separator) = 0
    BY FS_EmptySet DEF upper_bound
  <2>3. InsertAt(<<>>, 1, separator) = <<separator>>
    <3>1. PICK s \in Seq(Keys) : s = <<>>
      <4>1. <<>> \in Seq(Keys)
        BY EmptySeq
      <4> QED
        BY <4>1
    <3>2. PICK n \in 1 .. Len(s) + 1 : n = 1
      BY <3>1
    <3>3. PICK t : t = InsertAt(s, n, separator)
      OBVIOUS
    <3>4. t \in Seq(Keys) /\ Len(t) = Len(s) + 1 /\ t[n] = separator
      BY <1>1, <3>3, InsertAtElements
    <3>5. Len(t) = 1 /\ \A i \in 1 .. 1 : t[i] = <<separator>>[i]
      BY <3>1, <3>2, <3>4
    <3>6. t = InsertAt(<<>>, 1, separator)
      BY <3>1, <3>2, <3>3
    <3>7. <<separator>> \in Seq(Keys) /\ Len(<<separator>>) = 1
      BY <1>1
    <3> QED
      BY <3>4, <3>5, <3>6, <3>7, SeqEqual
  <2>4. InsertAt(<<root>>, 2, R) = <<root, R>>
    <3>1. PICK s \in Seq(Pages) : s = <<root>>
      <4>1. <<root>> \in Seq(Pages)
        BY DEF Tree
      <4> QED
        BY <4>1
    <3>2. PICK n \in 1 .. Len(s) + 1 : n = 2
      BY <3>1
    <3>3. PICK t : t = InsertAt(s, n, R)
      OBVIOUS
    <3>4. /\ t \in Seq(Pages) /\ Len(t) = Len(s) + 1 /\ t[n] = R
          /\ \A i \in 1 .. n - 1 : t[i] = s[i]
      BY <3>3, InsertAtElements
    <3>5. Len(t) = 2 /\ \A i \in 1 .. 2 : t[i] = <<root, R>>[i]
      BY <3>1, <3>2, <3>4
    <3>6. t = InsertAt(<<root>>, 2, R)
      BY <3>1, <3>2, <3>3
    <3>7. <<root, R>> \in Seq(Pages) /\ Len(<<root, R>>) = 2
      BY DEF Tree
    <3> QED
      BY <3>4, <3>5, <3>6, <3>7, SeqEqual
  <2> QED
    BY <2>1, <2>2, <2>3, <2>4 DEF PutChild
<1>6. /\ span1[S] # {} /\ span1[R] = {} /\ lv1[N] = lv1[S] + 1
      /\ span1[N] \cap span1[S] # {} /\ Halves(pg1[S], left, right, separator)
  BY <1>1, <1>2
<1>7. /\ pg2[N] = PutChild(pg1[N], separator, R)
      /\ \A q \in Pages \ {S, R, N} : span1[q] # {} => pg2[q] = pg1[q]
  BY <1>2, <1>5
<1> DEFINE lv2 == SplitLevels(lv1, S, R)
           span2 == SplitSpans(span1, S, R, separator)
<1>8. Tree(pg2, lv2, N, span2)
  BY <1>3, <1>6, <1>7, SplitTree, SMTT(30)
<1>9. Answers(pg2, span2, map)
  BY <1>3, <1>4, <1>6, <1>7, SplitAnswers
<1>10. ASSUME NEW p \in Pages, InitialIn(span[p])
       PROVE  InitialIn(span2[p])
  <2>1. InitialIn(span1[p])
    BY <1>2, <1>10, AllInitial
  <2> QED
    BY <1>3, <1>6, <2>1, SplitInitial
<1>11. ASSUME NEW p \in Pages \ {N}
       PROVE  span2[p] = SplitSpans(span, S, R, separator)[p]
  <2>1. span1 \in [Pages -> SUBSET Keys] /\ span1[S] = span[S] /\ span1[p] = span[p]
    BY <1>1, <1>2, <1>3 DEF Tree
  <2> QED
    BY <1>1, <2>1 DEF SplitSpans
<1> QED
  BY <1>8, <1>9, <1>10, <1>11

(* The new root is written; write_header may still fail. *)
LEMMA WriteRootMap ==
    ASSUME PagesOK, InsertingOK, HeaderFresh,
           NEW level \in [Pages -> Nat], NEW rank \in [Pages -> Nat],
           Shape(level, rank), NEW lv, NEW span, NEW whole, KeysOK(lv, span, whole), WriteRoot
    PROVE  MapStep(span) /\ IndexStep
<1>1. PICK root, new, S, R, left, right, separator, pg :
         /\ root = root_page_id_ /\ new = page_count - 1
         /\ S = split.page /\ R = split.right_page
         /\ left = split.left /\ right = split.right /\ separator = split.separator
         /\ pg = View(whole)
  OBVIOUS
<1>2. /\ at = "root" /\ at' = "header" /\ page_count' = page_count
      /\ pages' = [pages EXCEPT ![new] = InternalNode(<<separator>>, <<root, R>>)]
      /\ root_page_id_' = new /\ inserting' = inserting
  BY <1>1 DEF WriteRoot, WritePage
<1>3. /\ Tree(pg, lv, root, span) /\ SplitKeys(lv, span, whole) /\ HeaderKeys(span)
      /\ S \in Pages /\ R \in Pages /\ S # R
      /\ pg = [pages EXCEPT ![S] = whole]
      /\ pg[S] = whole /\ \A q \in Pages \ {S} : pg[q] = pages[q]
      /\ inserting.key \in Keys
  BY <1>1, <1>2, SplitFacts, SMTT(30)
<1>4. path = <<>> /\ R < new /\ new \in Nodes
  <2>1. path = <<>> /\ R < new /\ R \in Nodes
    BY <1>1, <1>2 DEF Shape, SplitOK, WayUp
  <2> QED
    BY <1>1, <2>1, NodesInPages DEF Nodes
<1>5. new \in Pages /\ new # HEADER_PAGE_ID /\ new # R
  BY <1>3, <1>4, NodesInPages DEF Pages
<1>6. /\ span[R] = {} /\ Halves(pg[S], left, right, separator) /\ Answers(pg, span, After)
      /\ inserting.key \in span[S] /\ span[new] = {}
      /\ pages[S] = left /\ pages[R] = right
      /\ lv[root] = lv[S] + Len(path)
  BY <1>1, <1>2, <1>3 DEF SplitKeys
<1>7. lv[root] = lv[S] /\ span[S] = Keys /\ S # new
  <2>1. lv[root] \in Nat /\ lv[S] \in Nat /\ span[root] = Keys
    BY <1>3 DEF Tree
  <2>2. lv[root] = lv[S]
    BY <1>4, <1>6, <2>1
  <2>3. span[root] \cap span[S] # {}
    BY <1>3, <1>6, <2>1
  <2>4. root = S
    BY <1>3, <2>2, <2>3 DEF Tree
  <2> QED
    BY <1>6, <2>1, <2>2, <2>4
<1>8. /\ pages'[new] = InternalNode(<<separator>>, <<root, R>>)
      /\ \A q \in Pages \ {new} : pages'[q] = pages[q]
  BY <1>2, <1>3, <1>5 DEF PagesOK
<1>9. /\ pages'[S] = left /\ pages'[R] = right
      /\ \A q \in Pages \ {S, R, new} : pages'[q] = pg[q]
  BY <1>3, <1>5, <1>6, <1>7, <1>8
<1>10. PICK lv2, span2 :
         /\ Tree(pages', lv2, new, span2) /\ Answers(pages', span2, After)
         /\ \A p \in Pages : InitialIn(span[p]) => InitialIn(span2[p])
         /\ \A p \in Pages \ {new} : span2[p] = SplitSpans(span, S, R, separator)[p]
  <2>1. /\ Tree(pg, lv, root, span) /\ Keys # {} /\ S \in Pages /\ R \in Pages /\ R # S
        /\ new \in Pages /\ new # R
    BY <1>3, <1>5
  <2>2. pages'[new] = InternalNode(<<separator>>, <<root, R>>)
    BY <1>8
  <2>3. PICK pg2, map : pg2 = pages' /\ map = After
    OBVIOUS
  <2>4. /\ pg2[S] = left /\ pg2[R] = right /\ pg2[new] = InternalNode(<<separator>>, <<root, R>>)
        /\ \A q \in Pages \ {S, R, new} : pg2[q] = pg[q]
    BY <1>9, <2>2, <2>3
  <2>5. /\ span[S] = Keys /\ lv[root] = lv[S] /\ span[R] = {} /\ span[new] = {}
        /\ Halves(pg[S], left, right, separator) /\ Answers(pg, span, map)
    BY <1>6, <1>7, <2>3
  <2>6. \E lv2, span2 :
           /\ Tree(pg2, lv2, new, span2) /\ Answers(pg2, span2, map)
           /\ \A p \in Pages : InitialIn(span[p]) => InitialIn(span2[p])
           /\ \A p \in Pages \ {new} : span2[p] = SplitSpans(span, S, R, separator)[p]
    BY <2>1, <2>4, <2>5, RootPut, SMTT(60)
  <2> QED
    BY <2>3, <2>6
<1>11. pages'[HEADER_PAGE_ID] = pages[HEADER_PAGE_ID] /\ CanOpen' = CanOpen
  <2>1. pages'[HEADER_PAGE_ID] = pages[HEADER_PAGE_ID]
    BY <1>5, <1>8, NodesInPages
  <2> QED
    BY <1>2, <2>1 DEF CanOpen
<1>12. HasTree' /\ TreeRoot' = new /\ View(whole)' = pages' /\ After' = After
  BY <1>2 DEF HasTree, TreeRoot, View, After
<1>13. HeaderKeys(span2)'
  <2>1. CanOpen => pages[HEADER_PAGE_ID].root_page_id \in Pages
    BY HeaderIn, NodesInPages
  <2> QED
    BY <1>2, <1>3, <1>10, <1>11, <2>1 DEF HeaderKeys
<1>17. LinkOK(span2, whole)'
  <2>1. PICK s : s = SplitSpans(span, S, R, separator)
    OBVIOUS
  <2>2. pages[new].kind # "leaf" /\ pages'[new].kind # "leaf"
    <3>1. IsInternal(new)
      BY <1>1, <1>2 DEF Shape, SplitOK
    <3> QED
      BY <1>8, <3>1, InternalFields DEF IsInternal
  <2>3. Linked(pages', s)
    <3>7. PICK pg1, pg2 : pg1 = pages /\ pg2 = pages'
      OBVIOUS
    <3>1. \A q \in Pages \ {S, R} :
             /\ pg2[q].kind = "leaf" <=> pg1[q].kind = "leaf"
             /\ pg1[q].kind = "leaf" => pg2[q] = pg1[q]
      BY <1>8, <2>2, <3>7
    <3>8. pg2[S] = left /\ pg2[R] = right
      BY <1>9, <3>7
    <3>9. HalvesPut(pg1, pg2, S, R, left, right)
      BY <3>1, <3>8 DEF HalvesPut
    <3>2. HalvesPut(pages, pages', S, R, left, right)
      BY <3>7, <3>9, ZenonT(30)
    <3>5. /\ S = split.page /\ R = split.right_page
          /\ left = split.left /\ right = split.right /\ separator = split.separator
      BY <1>1
    <3>3. HalvesPut(pages, pages', split.page, split.right_page, split.left, split.right)
      BY <3>2, <3>5
    <3>4. s = SplitSpans(span, split.page, split.right_page, split.separator)
      BY <2>1, <3>5
    <3>6. at \in {"up", "root"}
      BY <1>2
    <3> QED
      BY <3>3, <3>4, <3>6, LinkPut, SMTT(30)
  <2>4. \A p \in Pages : KeepsPlace(pages', s, pages', span2, p)
    BY <1>10, <2>1, <2>2 DEF KeepsPlace
  <2>5. s \in [Pages -> SUBSET Keys]
    BY <1>3, <2>1 DEF Tree, SplitSpans, Lower, Upper
  <2>6. Linked(pages', span2)
    BY <2>3, <2>4, <2>5, ChainKept
  <2> QED
    BY <1>2, <2>6 DEF LinkOK, Ahead
<1>14. KeysOK(lv2, span2, whole)'
  BY <1>2, <1>10, <1>12, <1>13, <1>17 DEF KeysOK
<1>15. InsertingOK' /\ HeaderFresh'
  BY <1>2 DEF InsertingOK, HeaderFresh
<1>16. Index' = Index
  BY <1>2 DEF Index
<1>18. Peopled(span) => Peopled(span2)'
  <2>1. \A p \in Pages : span[p] # {} \/ p = R => SplitSpans(span, S, R, separator)[p] # {}
    BY <1>1, <1>2, SplitPeopled
  <2>2. span2[new] # {}
    BY <1>3, <1>10 DEF Tree
  <2>3. \A p \in Pages : span[p] # {} \/ p \in {R, new} => span2[p] # {}
    BY <1>10, <2>1, <2>2
  <2> QED
    BY <1>1, <1>2, <2>3, NodesInPages DEF Peopled, Awaited, Nodes
<1> QED
  BY <1>2, <1>14, <1>15, <1>16, <1>18, CallIsKept DEF MapStep

-----------------------------------------------------------------------------
(* A call that fails *)

(* The insertion is not done, or it is, and keys may be lost. *)
LEMMA InsertionFailed ==
    ASSUME InsertingOK, at \in {"up", "header"} \/ Begun, inserting' = Thrown,
           Index \in [Keys -> Rids \cup {None}], NEW map, Index' = map,
           map = [k \in Keys |-> map[k]],
           \A k \in Keys :
              \/ map[k] \in {Index[k], None}
              \/ k = inserting.key /\ map[k] = inserting.rid
    PROVE  IndexStep
<1>1. inserting.key \in Keys /\ inserting.rid \in Rids
  BY NoCalls DEF InsertingOK, Calls, Begun
<1>2. Map!Running /\ Call' = Map!Threw
  <2>1. Map!Running
    BY <1>1, NoneAssumption DEF Map!Running, Call
  <2>2. Call' = [key |-> inserting'.key, rid |-> inserting'.rid, threw |-> inserting'.threw]
    BY DEF Call
  <2> QED
    BY <2>1, <2>2, NoCalls DEF Map!Threw
<1>3. /\ Index' \in [Keys -> Rids \cup {None}]
      /\ \A k \in Keys :
            Index'[k] \in {Index[k], None} \cup (IF k = Call.key THEN {Call.rid} ELSE {})
  BY <1>1 DEF Call
<1>4. Map!InsertFails
  BY <1>2, <1>3 DEF Map!InsertFails, Map!Damaged
<1> QED
  BY <1>4 DEF IndexStep, Map!Next

(* A step that writes nothing, between insertions or at the call of one. *)
LEMMA IdleMap ==
    ASSUME PagesOK, InsertingOK', HeaderFresh,
           NEW level \in [Pages -> Nat], NEW rank \in [Pages -> Nat],
           Shape(level, rank), NEW lv, NEW span, NEW whole, KeysOK(lv, span, whole),
           SearchOK', at = "idle", at' = "idle", UNCHANGED <<pages, page_count, root_page_id_>>
    PROVE  MapStep(span) /\ Index' = Index /\ Index \in [Keys -> Rids \cup {None}]
<1>1. HasTree /\ HasTree' /\ TreeRoot = root_page_id_ /\ TreeRoot' = root_page_id_
      /\ CanOpen' = CanOpen
  BY DEF HasTree, TreeRoot, CanOpen
<1>2. Tree(pages, lv, root_page_id_, span) /\ Linked(pages, span) /\ HeaderKeys(span)
  BY <1>1 DEF KeysOK, View, LinkOK, Ahead
<1>3. HeaderKeys(span)' /\ HeaderFresh'
  BY <1>1, <1>2 DEF HeaderKeys, HeaderFresh
<1>4. LinkOK(span, whole)'
  BY <1>2 DEF LinkOK, Ahead
<1>5. KeysOK(lv, span, whole)'
  BY <1>1, <1>2, <1>3, <1>4 DEF KeysOK, View
<1>6. Answers(pages, span, Index) /\ Index \in [Keys -> Rids \cup {None}]
  BY <1>1, <1>2, IndexAnswers
<1>7. Index' = Index
  BY <1>1, <1>2, <1>6 DEF SearchOK
<1>8. Peopled(span) => Peopled(span)'
  BY DEF Peopled, Awaited, Nodes
<1> QED
  BY <1>3, <1>5, <1>6, <1>7, <1>8 DEF MapStep

LEMMA BeginInsertMap ==
    ASSUME PagesOK, InsertingOK, HeaderFresh,
           NEW level \in [Pages -> Nat], NEW rank \in [Pages -> Nat],
           Shape(level, rank), NEW lv, NEW span, NEW whole, KeysOK(lv, span, whole),
           SearchOK', NEW key \in Keys, NEW rid \in Rids, BeginInsert(key, rid)
    PROVE  MapStep(span) /\ IndexStep
<1>1. /\ at = "idle" /\ at' = "idle" /\ UNCHANGED <<pages, page_count, root_page_id_>>
      /\ inserting.rid = None /\ inserting' = [NoInsert EXCEPT !.key = key, !.rid = rid]
  BY DEF BeginInsert, Begun
<1>2. InsertingOK'
  BY <1>1 DEF InsertingOK, Calls, NoInsert
<1>3. MapStep(span) /\ Index' = Index
  BY <1>1, <1>2, IdleMap
<1>4. Map!Begin(key, rid)
  <2>1. inserting'.key = key /\ inserting'.rid = rid /\ inserting'.threw = FALSE
    BY <1>1 DEF NoInsert
  <2>2. ~Map!Running /\ Call' = [key |-> key, rid |-> rid, threw |-> FALSE]
    BY <1>1, <2>1 DEF Map!Running, Call
  <2> QED
    BY <1>3, <2>2 DEF Map!Begin
<1> QED
  BY <1>3, <1>4 DEF IndexStep, Map!Next

LEMMA FailsMap ==
    ASSUME PagesOK, AtOK, InsertingOK, HeaderFresh,
           NEW level \in [Pages -> Nat], NEW rank \in [Pages -> Nat],
           Shape(level, rank), NEW lv, NEW span, NEW whole, KeysOK(lv, span, whole),
           SearchOK', Fails
    PROVE  MapInv' /\ IndexStep
<1>1. /\ at \in {"first_leaf", "up", "header"} \/ Begun
      /\ at = "header" => MayFail
      /\ at' = IF at = "first_leaf" THEN "none" ELSE "idle"
      /\ pages' = pages /\ page_count' = page_count /\ root_page_id_' = root_page_id_
      /\ inserting' = IF at = "first_leaf" THEN NoInsert ELSE Thrown
  BY DEF Fails, Creates, MayMiss, LeafFull, NoLeaf, Begun
<1>2. InsertingOK'
  BY <1>1 DEF InsertingOK
<1>3. CanOpen' = CanOpen
  BY <1>1 DEF CanOpen
<1>4. CASE at = "first_leaf"
  <2>1. ~CanOpen /\ at' = "none"
    BY <1>1, <1>4, KindOf DEF AtOK, CanOpen
  <2>2. KeysOK(lv, span, whole)' /\ HeaderFresh'
    BY <1>3, <2>1 DEF KeysOK, HasTree, HeaderKeys, HeaderFresh, LinkOK
  <2>3. Index = NoInsert.before /\ inserting' = inserting
    BY <1>1, <1>4 DEF InsertingOK, Index
  <2>4. Index' = NoInsert.before
    BY <1>1, <1>3, <1>4, <2>1 DEF Index
  <2> QED
    BY <1>2, <2>2, <2>3, <2>4, CallIsKept DEF MapInv
<1>7. ASSUME at \in {"up", "header"}
      PROVE  /\ Index \in [Keys -> Rids \cup {None}]
             /\ \A k \in Keys : \/ After[k] = Index[k]
                                \/ k = inserting.key /\ After[k] = inserting.rid
  <2>1. inserting.before \in [Keys -> Rids \cup {None}] /\ Index = inserting.before
    BY <1>7 DEF InsertingOK, Calls, Index
  <2> QED
    BY <2>1 DEF After
<1>5. CASE at = "up"
  <2>1. /\ Tree(View(whole), lv, root_page_id_, span) /\ SplitKeys(lv, span, whole)
        /\ HeaderKeys(span) /\ split.page \in Pages
        /\ View(whole)[split.page] = whole
        /\ \A q \in Pages \ {split.page} : View(whole)[q] = pages[q]
    BY <1>5, SplitFacts
  <2>2. /\ Answers(View(whole), span, After) /\ inserting.key \in span[split.page]
        /\ Halves(whole, split.left, split.right, split.separator)
        /\ pages[split.page] = split.left
    BY <1>5, <2>1 DEF SplitKeys
  <2>3. PICK span2, map2 :
           /\ Tree(pages, lv, root_page_id_, span2) /\ Answers(pages, span2, map2)
           /\ map2 = [k \in Keys |-> map2[k]]
           /\ \A k \in Keys : map2[k] \in {After[k], None}
           /\ \A p \in Pages : InitialIn(span[p]) => InitialIn(span2[p])
           /\ Linked(pages, span) => Linked(pages, span2)
    <3>1. PICK S, left, right, separator :
             S = split.page /\ left = split.left /\ right = split.right
             /\ separator = split.separator
      OBVIOUS
    <3>2. /\ S \in Pages /\ span[S] # {} /\ Halves(View(whole)[S], left, right, separator)
          /\ pages[S] = left
          /\ \A q \in Pages \ {S} : span[q] # {} => pages[q] = View(whole)[q]
      BY <2>1, <2>2, <3>1
    <3>3. PICK pg, map, pg2 : pg = View(whole) /\ map = After /\ pg2 = pages
      OBVIOUS
    <3>4. Tree(pg, lv, root_page_id_, span) /\ Answers(pg, span, map)
      BY <2>1, <2>2, <3>3
    <3>5. /\ Halves(pg[S], left, right, separator) /\ pg2[S] = left
          /\ \A q \in Pages \ {S} : span[q] # {} => pg2[q] = pg[q]
      BY <3>2, <3>3
    <3>6. \E span2, map2 :
             /\ Tree(pg2, lv, root_page_id_, span2) /\ Answers(pg2, span2, map2)
             /\ map2 = [k \in Keys |-> map2[k]]
             /\ \A k \in Keys : map2[k] \in {map[k], None}
             /\ \A p \in Pages : InitialIn(span[p]) => InitialIn(span2[p])
             /\ Linked(pg2, span) => Linked(pg2, span2)
      BY <3>2, <3>4, <3>5, CutTree
    <3> QED
      BY <3>3, <3>6
  <2>4. HasTree' /\ TreeRoot' = root_page_id_ /\ at' = "idle"
    BY <1>1, <1>5 DEF HasTree, TreeRoot
  <2>5. HeaderKeys(span2)'
    <3>1. CanOpen => pages[HEADER_PAGE_ID].root_page_id \in Pages
      BY HeaderIn, NodesInPages
    <3> QED
      BY <1>1, <1>3, <1>5, <2>1, <2>3, <2>4, <3>1 DEF HeaderKeys
  <2>6. KeysOK(lv, span2, whole)'
    <3>1. Linked(pages, span)
      <4>1. pages[split.page] = split.left /\ pages[split.right_page] = split.right
        BY <1>5, <2>1 DEF SplitKeys
      <4>2. HalvesPut(pages, pages, split.page, split.right_page, split.left, split.right)
        BY <4>1 DEF HalvesPut
      <4> QED
        BY <1>5, <4>2, LinkPut
    <3>2. LinkOK(span2, whole)'
      BY <1>1, <2>3, <2>4, <3>1 DEF LinkOK, Ahead
    <3> QED
      BY <1>1, <2>3, <2>4, <2>5, <3>2 DEF KeysOK, View
  <2>7. HeaderFresh'
    BY <1>1, <1>3, <1>5 DEF HeaderFresh
  <2>8. Index' = map2
    BY <1>1, <2>3, <2>4 DEF SearchOK
  <2>9. IndexStep
    BY <1>1, <1>5, <1>7, <2>3, <2>8, InsertionFailed
  <2> QED
    BY <1>2, <2>6, <2>7, <2>9 DEF MapInv
<1>6. CASE at = "header"
  <2>1. /\ Tree(pages, lv, root_page_id_, span) /\ HeaderKeys(span)
        /\ Answers(pages, span, After)
    BY <1>6 DEF KeysOK, HasTree, View, TreeRoot
  <2>2. HasTree' /\ TreeRoot' = root_page_id_ /\ at' = "idle"
    BY <1>1, <1>6 DEF HasTree, TreeRoot
  <2>3. KeysOK(lv, span, whole)'
    <3>1. Linked(pages, span)
      BY <1>6 DEF KeysOK, LinkOK, HasTree, Ahead
    <3>2. LinkOK(span, whole)'
      BY <1>1, <2>2, <3>1 DEF LinkOK, Ahead
    <3> QED
      BY <1>1, <1>3, <1>6, <2>1, <2>2, <3>2 DEF KeysOK, HeaderKeys, View
  <2>4. HeaderFresh'
    BY <1>1, <1>6 DEF HeaderFresh
  <2>5. After = [k \in Keys |-> After[k]]
    BY <1>6 DEF InsertingOK, Calls, After
  <2>6. Index' = After
    BY <1>1, <2>1, <2>2, <2>5 DEF SearchOK
  <2>7. IndexStep
    BY <1>1, <1>6, <1>7, <2>5, <2>6, InsertionFailed
  <2> QED
    BY <1>2, <2>3, <2>4, <2>7 DEF MapInv
<1>8. CASE Begun
  <2>1. at = "idle" /\ at' = "idle" /\ inserting' = Thrown
    BY <1>1, <1>8 DEF Begun
  <2>2. MapStep(span) /\ Index' = Index /\ Index \in [Keys -> Rids \cup {None}]
    BY <1>1, <1>2, <2>1, IdleMap
  <2>3. IndexStep
    BY <1>8, <2>1, <2>2, InsertionFailed
  <2> QED
    BY <2>2, <2>3 DEF MapStep, MapInv
<1> QED
  BY <1>1, <1>4, <1>5, <1>6, <1>8

-----------------------------------------------------------------------------
(* The theorems of the map *)

LEMMA StutterMap ==
    ASSUME PagesOK, InsertingOK, HeaderFresh,
           NEW level \in [Pages -> Nat], NEW rank \in [Pages -> Nat],
           Shape(level, rank), NEW lv, NEW span, NEW whole, KeysOK(lv, span, whole),
           SearchOK', UNCHANGED vars
    PROVE  MapStep(span) /\ UNCHANGED Index
<1>1. /\ pages' = pages /\ page_count' = page_count /\ root_page_id_' = root_page_id_
      /\ at' = at /\ split' = split /\ path' = path /\ inserting' = inserting
  BY DEF vars
<1>2. InsertingOK' /\ HeaderFresh'
  BY <1>1 DEF InsertingOK, HeaderFresh, CanOpen
<1>3. KeysOK(lv, span, whole)'
  <2>1. HeaderKeys(span)' /\ HasTree' = HasTree /\ TreeRoot' = TreeRoot /\ After' = After
    BY <1>1 DEF KeysOK, HeaderKeys, HasTree, TreeRoot, After, CanOpen
  <2>2. View(whole)' = View(whole)
    BY <1>1 DEF View
  <2>3. at \in {"left", "right", "up", "root"} => SplitKeys(lv, span, whole)'
    BY <1>1, <2>1, <2>2 DEF KeysOK, SplitKeys
  <2>4. LinkOK(span, whole)'
    <3>1. Ahead(whole)' = Ahead(whole)
      BY <1>1, <2>2 DEF Ahead
    <3> QED
      BY <1>1, <2>1, <3>1 DEF KeysOK, LinkOK
  <2> QED
    BY <1>1, <2>1, <2>2, <2>3, <2>4 DEF KeysOK
<1>6. Peopled(span) => Peopled(span)'
  BY <1>1 DEF Peopled, Awaited, Nodes
<1>4. CASE at \in {"idle", "none"} /\ HasTree
  <2>1. HasTree' /\ TreeRoot' = TreeRoot /\ Tree(pages, lv, TreeRoot, span)
    BY <1>1, <1>4 DEF KeysOK, View, HasTree, TreeRoot, CanOpen
  <2>2. Answers(pages, span, Index) /\ Index \in [Keys -> Rids \cup {None}]
    BY <1>4, <2>1, IndexAnswers
  <2>3. Index' = Index
    BY <1>1, <1>4, <2>1, <2>2 DEF SearchOK
  <2> QED
    BY <1>2, <1>3, <1>6, <2>3 DEF MapStep
<1>5. CASE ~(at \in {"idle", "none"} /\ HasTree)
  <2>1. Index = inserting.before /\ Index' = inserting'.before
    BY <1>1, <1>5 DEF Index, HasTree, CanOpen
  <2> QED
    BY <1>1, <1>2, <1>3, <1>6, <2>1 DEF MapStep
<1> QED
  BY <1>4, <1>5

(* A step keeps the tree, and, unless a call fails, the pages that belong to it. *)
LEMMA StepMap ==
    ASSUME PagesOK, AtOK, InsertingOK, HeaderFresh,
           NEW level \in [Pages -> Nat], NEW rank \in [Pages -> Nat],
           Shape(level, rank), NEW lv, NEW span, NEW whole, KeysOK(lv, span, whole),
           SearchOK', [Next]_vars
    PROVE  ((Fails /\ MapInv') \/ MapStep(span)) /\ IndexStep
<1>1. ASSUME NEW key \in Keys, NEW rid \in Rids, BeginInsert(key, rid)
      PROVE  MapStep(span) /\ IndexStep
  BY <1>1, BeginInsertMap
<1>2. CASE Continues
  <2>1. CASE OpenNew
    BY <2>1, OpenNewMap
  <2>2. CASE CreateFirstLeaf
    BY <2>2, CreateFirstLeafMap
  <2>3. CASE WriteHeader
    BY <2>3, WriteHeaderMap
  <2>4. CASE LoadHeader
    BY <2>4, LoadHeaderMap
  <2>5. CASE WriteLeft
    BY <2>5, WriteLeftMap
  <2>6. CASE WriteRight
    BY <2>6, WriteRightMap
  <2>7. CASE InsertInParent
    BY <2>7, InsertInParentMap
  <2>8. CASE SplitParent
    BY <2>8, SplitParentMap
  <2>9. CASE CreateRoot
    BY <2>9, CreateRootMap
  <2>10. CASE WriteRoot
    BY <2>10, WriteRootMap
  <2>11. CASE Fails
    BY <2>11, FailsMap
  <2>12. CASE Inserts
    <3>1. inserting.key \in Keys /\ inserting.rid \in Rids
      BY <2>12, NoCalls DEF Inserts, Begun, InsertingOK, Calls
    <3>2. PICK key \in Keys, rid \in Rids :
             CalledWith(key, rid) /\ (InsertInLeaf(key, rid) \/ SplitLeaf(key, rid))
      BY <2>12, <3>1 DEF Inserts, CalledWith
    <3> QED
      BY <3>2, InsertInLeafMap, SplitLeafMap
  <2> QED
    BY <1>2, <2>1, <2>2, <2>3, <2>4, <2>5, <2>6, <2>7, <2>8, <2>9, <2>10, <2>11, <2>12
       DEF Continues
<1>3. CASE Close
  BY <1>3, CloseMap
<1>4. CASE UNCHANGED vars
  <2>1. inserting' = inserting
    BY <1>4 DEF vars
  <2> QED
    BY <1>4, <2>1, StutterMap, CallIsKept
<1> QED
  BY <1>1, <1>2, <1>3, <1>4 DEF Next

LEMMA NextMap ==
    ASSUME TreeInv, MapInv, SearchOK', [Next]_vars
    PROVE  MapInv' /\ IndexStep
<1>1. PagesOK /\ AtOK /\ InsertingOK /\ HeaderFresh
  BY DEF TreeInv, MapInv
<1>2. PICK level, rank \in [Pages -> Nat] : Shape(level, rank)
  BY DEF TreeInv
<1>3. PICK lv, span, whole : KeysOK(lv, span, whole)
  BY DEF MapInv
<1>4. ((Fails /\ MapInv') \/ MapStep(span)) /\ IndexStep
  BY <1>1, <1>2, <1>3, StepMap
<1> QED
  BY <1>4 DEF MapStep, MapInv

LEMMA NextPeopled ==
    ASSUME TreeInv, MapInv, PeopledInv, SearchOK', [Next /\ ~Fails]_vars
    PROVE  PeopledInv'
<1>1. PagesOK /\ AtOK /\ InsertingOK /\ HeaderFresh
  BY DEF TreeInv, MapInv
<1>2. PICK level, rank \in [Pages -> Nat] : Shape(level, rank)
  BY DEF TreeInv
<1>3. PICK lv, span, whole : KeysOK(lv, span, whole) /\ Peopled(span)
  BY DEF PeopledInv
<1>4. MapStep(span)
  <2>1. CASE Next /\ ~Fails
    BY <1>1, <1>2, <1>3, <2>1, StepMap
  <2>2. CASE UNCHANGED vars
    BY <1>1, <1>2, <1>3, <2>2, StutterMap
  <2> QED
    BY <2>1, <2>2
<1> QED
  BY <1>3, <1>4 DEF MapStep, PeopledInv

(* In every state there is a tree of which each page has an interval of the
   keys, as far as its nodes are written, and the file has its root or an older
   one with the least keys (insert, write_header). *)
THEOREM MapInvariant == Spec => []MapInv
<1>1. TreeInv => SearchOK
  BY TreeSearchOK
<1>2. Init => MapInv
  BY InitMap
<1>3. TreeInv /\ MapInv /\ SearchOK' /\ [Next]_vars => MapInv'
  BY NextMap
<1> QED
  BY <1>1, <1>2, <1>3, TreeInvariant, PTL DEF Spec

(* While no call fails, every node of the file has keys that descend to it, but
   for a page that a running split has just made (insert_into_leaf,
   insert_into_internal, insert). *)
THEOREM TreePeopled == Spec /\ [][~Fails]_vars => []PeopledInv
<1>1. TreeInv => SearchOK
  BY TreeSearchOK
<1>2. Init => PeopledInv
  BY InitMap
<1>3. TreeInv /\ MapInv /\ PeopledInv /\ SearchOK' /\ [Next]_vars /\ [~Fails]_vars
         => PeopledInv'
  <2>1. [Next]_vars /\ [~Fails]_vars => [Next /\ ~Fails]_vars
    OBVIOUS
  <2> QED
    BY <2>1, NextPeopled
<1> QED
  BY <1>1, <1>2, <1>3, TreeInvariant, MapInvariant, PTL DEF Spec

(* The B+ tree implements the map, for every size of node, every set of keys
   and every choice of failing calls: an insertion that returns has given its
   key its RID, one that throws has changed no other key but by losing it, and
   search answers the same otherwise, but for a tree closed after a failure. *)
THEOREM TreeImplementsIndexMap == Spec => ImplementsIndexMap
<1>1. Init => Map!Init
  BY InitMap
<1>2. TreeInv /\ MapInv /\ SearchOK' /\ [Next]_vars => [Map!Next]_<<Index, Call>>
  BY NextMap DEF IndexStep
<1>3. TreeInv => SearchOK
  BY TreeSearchOK
<1> QED
  BY <1>1, <1>2, <1>3, TreeInvariant, MapInvariant, PTL DEF Spec, ImplementsIndexMap, Map!Spec

-----------------------------------------------------------------------------
(* What range_scan collects *)

(* Induction on the numbers of a loop. *)
LEMMA UpToLast ==
    ASSUME NEW last \in Nat, NEW S, 0 \in S, \A n \in 1 .. last : n - 1 \in S => n \in S
    PROVE  0 .. last \subseteq S
<1> DEFINE Missing == {n \in Nat : n <= last /\ n \notin S}
<1>1. SUFFICES ASSUME Missing # {}
               PROVE  FALSE
  OBVIOUS
<1>2. PICK n \in Missing : \A m \in Missing : ~(<<m, n>> \in OpToRel(<, Nat))
  <2>1. Missing \subseteq Nat
    OBVIOUS
  <2> HIDE DEF Missing
  <2> QED
    BY <1>1, <2>1, NatLessThanWellFounded, WFMin
<1>3. n \in Nat /\ n <= last /\ n \notin S /\ n # 0
  OBVIOUS
<1>4. n - 1 \in Nat /\ n - 1 < n /\ n - 1 <= last /\ n \in 1 .. last
  BY <1>3
<1>5. n - 1 \notin Missing
  BY <1>2, <1>3, <1>4 DEF OpToRel
<1> QED
  BY <1>3, <1>4, <1>5

\* A loop of last turns whose turns depend on their number.
Loops(f, S, step, start, last) ==
    /\ f \in [0 .. last -> S] /\ f[0] = start
    /\ \A i \in 1 .. last : f[i] = step[<<i, f[i - 1]>>]

(* Every such loop has its values. *)
LEMMA LoopExists ==
    ASSUME NEW last \in Nat, NEW S, NEW start \in S, NEW step,
           \A i \in 1 .. last, x \in S : step[<<i, x>>] \in S
    PROVE  \E f : Loops(f, S, step, start, last)
<1> DEFINE Runs(f, n) == f[0] = start /\ \A i \in 1 .. n : f[i] = step[<<i, f[i - 1]>>]
           Done == {n \in 0 .. last : \E f \in [0 .. n -> S] : Runs(f, n)}
<1>1. 0 \in Done
  <2>1. PICK f : f = [i \in 0 .. 0 |-> start]
    OBVIOUS
  <2>2. f \in [0 .. 0 -> S] /\ f[0] = start /\ 1 .. 0 = {} /\ 0 \in 0 .. last
    BY <2>1
  <2>3. Runs(f, 0)
    BY <2>2
  <2> QED
    BY <2>2, <2>3
<1>2. ASSUME NEW n \in 1 .. last, n - 1 \in Done
      PROVE  n \in Done
  <2>1. PICK g \in [0 .. n - 1 -> S] : Runs(g, n - 1)
    BY <1>2
  <2>2. g[n - 1] \in S /\ step[<<n, g[n - 1]>>] \in S
    OBVIOUS
  <2>3. PICK f : f = [i \in 0 .. n |-> IF i < n THEN g[i] ELSE step[<<n, g[n - 1]>>]]
    OBVIOUS
  <2>4. /\ \A i \in 0 .. n - 1 : f[i] = g[i]
        /\ f[n] = step[<<n, g[n - 1]>>]
    BY <2>3
  <2>5. f \in [0 .. n -> S]
    BY <2>2, <2>3
  <2>6. ASSUME NEW i \in 1 .. n
        PROVE  f[i] = step[<<i, f[i - 1]>>]
    <3>1. CASE i = n
      BY <2>4, <3>1
    <3>2. CASE i # n
      <4>1. i \in 1 .. n - 1 /\ i \in 0 .. n - 1 /\ i - 1 \in 0 .. n - 1
        BY <3>2
      <4>2. g[i] = step[<<i, g[i - 1]>>]
        BY <2>1, <4>1
      <4> QED
        BY <2>4, <4>1, <4>2
    <3> QED
      BY <3>1, <3>2
  <2>7. Runs(f, n)
    BY <2>1, <2>4, <2>6
  <2> QED
    BY <2>5, <2>7
<1>3. 0 .. last \subseteq Done
  <2> HIDE DEF Done
  <2> QED
    BY <1>1, <1>2, UpToLast
<1>4. last \in Done
  BY <1>3
<1> QED
  BY <1>4 DEF Loops

\* The entry is one of those found.
Has(found, entry) == \E i \in DOMAIN found : found[i] = entry

LEMMA HasAppended ==
    ASSUME NEW T, NEW s \in Seq(T), NEW x \in T
    PROVE  /\ Append(s, x) \in Seq(T) /\ Has(Append(s, x), x)
           /\ \A y : Has(s, y) => Has(Append(s, x), y)
<1>1. /\ Len(s) \in Nat /\ DOMAIN s = 1 .. Len(s)
      /\ Append(s, x) \in Seq(T) /\ Len(Append(s, x)) = Len(s) + 1
      /\ \A i \in 1 .. Len(s) : Append(s, x)[i] = s[i]
      /\ Append(s, x)[Len(s) + 1] = x
  BY AppendProperties, LenProperties
<1>2. DOMAIN Append(s, x) = 1 .. Len(s) + 1
  BY <1>1, LenProperties
<1> QED
  BY <1>1, <1>2 DEF Has

LEMMA HasJoined ==
    ASSUME NEW T, NEW s \in Seq(T), NEW t \in Seq(T)
    PROVE  /\ s \o t \in Seq(T)
           /\ \A y : Has(s, y) \/ Has(t, y) => Has(s \o t, y)
<1>1. /\ s \o t \in Seq(T) /\ Len(s \o t) = Len(s) + Len(t)
      /\ Len(s) \in Nat /\ Len(t) \in Nat
      /\ DOMAIN s = 1 .. Len(s) /\ DOMAIN t = 1 .. Len(t)
      /\ \A i \in 1 .. Len(s) + Len(t) : (s \o t)[i] = IF i <= Len(s) THEN s[i] ELSE t[i - Len(s)]
  BY ConcatProperties, LenProperties
<1>2. DOMAIN (s \o t) = 1 .. Len(s) + Len(t)
  BY <1>1, LenProperties
<1>3. ASSUME NEW i \in DOMAIN s
      PROVE  Has(s \o t, s[i])
  <2>1. i \in 1 .. Len(s) + Len(t) /\ i <= Len(s)
    BY <1>1
  <2> QED
    BY <1>1, <1>2, <2>1 DEF Has
<1>4. ASSUME NEW i \in DOMAIN t
      PROVE  Has(s \o t, t[i])
  <2>1. PICK j : j = Len(s) + i
    OBVIOUS
  <2>2. j \in 1 .. Len(s) + Len(t) /\ ~(j <= Len(s)) /\ j - Len(s) = i
    BY <1>1, <2>1
  <2> QED
    BY <1>1, <1>2, <2>2 DEF Has
<1> QED
  BY <1>1, <1>3, <1>4 DEF Has

\* The entry is in the range.
Within(entry, start_key, end_key) == start_key <= entry.key /\ entry.key <= end_key

(* The loop over the entries of a leaf. *)
LEMMA InRangeSteps ==
    ASSUME NEW entries \in Seq(Entry), NEW start_key, NEW end_key
    PROVE  \E t :
              /\ t[0] = <<>> /\ InRange(entries, start_key, end_key) = t[Len(entries)]
              /\ \A i \in 1 .. Len(entries) :
                    t[i] = IF Within(entries[i], start_key, end_key)
                           THEN Append(t[i - 1], entries[i]) ELSE t[i - 1]
<1> DEFINE n == Len(entries)
           In(i) == start_key <= entries[i].key /\ entries[i].key <= end_key
           Takes(t) == t = [i \in 0 .. n |->
                               IF i = 0 THEN <<>>
                               ELSE IF In(i) THEN Append(t[i - 1], entries[i]) ELSE t[i - 1]]
           taken == CHOOSE t : Takes(t)
<1>1. /\ InRange(entries, start_key, end_key) = taken[n]
  BY DEF InRange
<1>2. n \in Nat /\ DOMAIN entries = 1 .. n /\ \A i \in 1 .. n : entries[i] \in Entry
  BY LenProperties, ElementOfSeq
<1>3. \E t : Takes(t)
  <2> DEFINE step == [a \in (1 .. n) \X Seq(Entry) |->
                         IF In(a[1]) THEN Append(a[2], entries[a[1]]) ELSE a[2]]
  <2>1. \A i \in 1 .. n, s \in Seq(Entry) : step[<<i, s>>] \in Seq(Entry)
    BY <1>2, AppendProperties
  <2>2. <<>> \in Seq(Entry)
    BY EmptySeq
  <2>3. \A i \in 1 .. n, s \in Seq(Entry) :
           step[<<i, s>>] = IF In(i) THEN Append(s, entries[i]) ELSE s
    OBVIOUS
  <2> HIDE DEF step, In
  <2>4. PICK f \in [0 .. n -> Seq(Entry)] :
           f[0] = <<>> /\ \A i \in 1 .. n : f[i] = step[<<i, f[i - 1]>>]
    <3> HIDE DEF n
    <3>1. \E f : Loops(f, Seq(Entry), step, <<>>, n)
      BY <1>2, <2>1, <2>2, LoopExists
    <3> QED
      BY <3>1 DEF Loops
  <2>5. ASSUME NEW i \in 0 .. n
        PROVE  f[i] = IF i = 0 THEN <<>>
                      ELSE IF In(i) THEN Append(f[i - 1], entries[i]) ELSE f[i - 1]
    <3>1. CASE i = 0
      BY <2>4, <3>1
    <3>2. CASE i # 0
      <4>1. i \in 1 .. n /\ i - 1 \in 0 .. n
        BY <1>2, <3>2
      <4> QED
        BY <2>3, <2>4, <3>2, <4>1
    <3> QED
      BY <3>1, <3>2
  <2>6. Takes(f)
    BY <2>5
  <2> QED
    BY <2>6
<1>4. Takes(taken)
  BY <1>3
<1>5. PICK t : t = taken
  OBVIOUS
<1> HIDE DEF taken, In
<1>6. /\ t[0] = <<>>
      /\ \A i \in 1 .. n : t[i] = IF In(i) THEN Append(t[i - 1], entries[i]) ELSE t[i - 1]
  <2>1. Takes(t)
    BY <1>4, <1>5
  <2>2. 0 \in 0 .. n /\ \A i \in 1 .. n : i \in 0 .. n /\ i # 0
    BY <1>2
  <2> HIDE DEF n
  <2> QED
    BY <2>1, <2>2
<1> QED
  BY <1>1, <1>5, <1>6 DEF In, Within

(* The entries of a leaf that range_scan collects are those in the range. *)
LEMMA InRangeHas ==
    ASSUME NEW entries \in Seq(Entry), NEW start_key, NEW end_key
    PROVE  /\ InRange(entries, start_key, end_key) \in Seq(Entry)
           /\ \A i \in DOMAIN entries :
                 start_key <= entries[i].key /\ entries[i].key <= end_key
                    => Has(InRange(entries, start_key, end_key), entries[i])
<1> DEFINE n == Len(entries)
           In(i) == Within(entries[i], start_key, end_key)
<1>2. n \in Nat /\ DOMAIN entries = 1 .. n /\ \A i \in 1 .. n : entries[i] \in Entry
  BY LenProperties, ElementOfSeq
<1>6. PICK t :
         /\ t[0] = <<>> /\ InRange(entries, start_key, end_key) = t[n]
         /\ \A i \in 1 .. n : t[i] = IF In(i) THEN Append(t[i - 1], entries[i]) ELSE t[i - 1]
  BY InRangeSteps
<1> HIDE DEF In
<1> DEFINE Done == {i \in 0 .. n : /\ t[i] \in Seq(Entry)
                                   /\ \A j \in 1 .. i : In(j) => Has(t[i], entries[j])}
<1>7. 0 .. n \subseteq Done
  <2>1. 0 \in Done
    <3>1. 0 \in 0 .. n /\ 1 .. 0 = {} /\ t[0] \in Seq(Entry)
      BY <1>2, <1>6, EmptySeq
    <3> QED
      BY <3>1
  <2>2. ASSUME NEW i \in 1 .. n, i - 1 \in Done
        PROVE  i \in Done
    <3>1. /\ t[i - 1] \in Seq(Entry) /\ entries[i] \in Entry
          /\ \A j \in 1 .. i - 1 : In(j) => Has(t[i - 1], entries[j])
      BY <1>2, <2>2
    <3>2. t[i] = IF In(i) THEN Append(t[i - 1], entries[i]) ELSE t[i - 1]
      BY <1>6
    <3>3. /\ Append(t[i - 1], entries[i]) \in Seq(Entry)
          /\ Has(Append(t[i - 1], entries[i]), entries[i])
          /\ \A y : Has(t[i - 1], y) => Has(Append(t[i - 1], entries[i]), y)
      BY <3>1, HasAppended
    <3>4. \A j \in 1 .. i : j = i \/ j \in 1 .. i - 1
      BY <1>2
    <3>5. t[i] \in Seq(Entry) /\ \A j \in 1 .. i : In(j) => Has(t[i], entries[j])
      BY <3>1, <3>2, <3>3, <3>4
    <3> QED
      BY <3>5
  <2> HIDE DEF Done
  <2> QED
    BY <1>2, <2>1, <2>2, UpToLast
<1>8. n \in Done
  BY <1>2, <1>7
<1>9. t[n] \in Seq(Entry) /\ \A j \in 1 .. n : In(j) => Has(t[n], entries[j])
  BY <1>8
<1> QED
  BY <1>2, <1>6, <1>9 DEF In, Within

(* Two rising sequences, one after the other. *)
LEMMA RisingJoined ==
    ASSUME NEW s \in Seq(Entry), NEW t \in Seq(Entry), RisingEntries(s), RisingEntries(t),
           \A i \in DOMAIN s, j \in DOMAIN t : s[i].key < t[j].key
    PROVE  /\ s \o t \in Seq(Entry) /\ RisingEntries(s \o t)
           /\ \A i \in DOMAIN (s \o t) : Has(s, (s \o t)[i]) \/ Has(t, (s \o t)[i])
<1>1. PICK m, n, u : m = Len(s) /\ n = Len(t) /\ u = s \o t
  OBVIOUS
<1>2. /\ u \in Seq(Entry) /\ Len(u) = m + n /\ m \in Nat /\ n \in Nat
      /\ DOMAIN s = 1 .. m /\ DOMAIN t = 1 .. n /\ DOMAIN u = 1 .. m + n
      /\ \A i \in 1 .. m + n : u[i] = IF i <= m THEN s[i] ELSE t[i - m]
  BY <1>1, ConcatProperties, LenProperties
<1>3. ASSUME NEW i \in 1 .. m + n
      PROVE  \/ i \in 1 .. m /\ u[i] = s[i]
             \/ i - m \in 1 .. n /\ u[i] = t[i - m] /\ ~(i <= m)
  BY <1>2
<1>4. ASSUME NEW i \in 1 .. m + n, NEW j \in 1 .. m + n, i < j
      PROVE  u[i].key < u[j].key
  <2>1. CASE i \in 1 .. m /\ j \in 1 .. m /\ u[i] = s[i] /\ u[j] = s[j]
    BY <1>2, <1>4, <2>1 DEF RisingEntries
  <2>2. CASE i \in 1 .. m /\ j - m \in 1 .. n /\ u[i] = s[i] /\ u[j] = t[j - m]
    BY <1>2, <2>2
  <2>3. CASE i - m \in 1 .. n /\ j - m \in 1 .. n /\ u[i] = t[i - m] /\ u[j] = t[j - m]
    <3>1. i - m < j - m
      BY <1>2, <1>4
    <3> QED
      BY <1>2, <2>3, <3>1 DEF RisingEntries
  <2> QED
    BY <1>2, <1>3, <1>4, <2>1, <2>2, <2>3
<1>5. RisingEntries(u) /\ \A i \in DOMAIN u : Has(s, u[i]) \/ Has(t, u[i])
  BY <1>2, <1>3, <1>4 DEF RisingEntries, Has
<1> QED
  BY <1>1, <1>2, <1>5

(* Nothing else is collected, and in the order of the leaf. *)
LEMMA InRangeOnly ==
    ASSUME NEW entries \in Seq(Entry), RisingEntries(entries), NEW start_key, NEW end_key
    PROVE  LET taken == InRange(entries, start_key, end_key)
           IN  /\ RisingEntries(taken)
               /\ \A i \in DOMAIN taken : Has(entries, taken[i])
                                         /\ Within(taken[i], start_key, end_key)
<1> DEFINE n == Len(entries)
           In(i) == Within(entries[i], start_key, end_key)
<1>1. n \in Nat /\ DOMAIN entries = 1 .. n /\ \A i \in 1 .. n : entries[i] \in Entry
  BY LenProperties, ElementOfSeq
<1>2. PICK t :
         /\ t[0] = <<>> /\ InRange(entries, start_key, end_key) = t[n]
         /\ \A i \in 1 .. n : t[i] = IF In(i) THEN Append(t[i - 1], entries[i]) ELSE t[i - 1]
  BY InRangeSteps
<1> HIDE DEF In
<1> DEFINE Done == {i \in 0 .. n :
                       /\ t[i] \in Seq(Entry) /\ RisingEntries(t[i])
                       /\ \A m \in DOMAIN t[i] : \E j \in 1 .. i : t[i][m] = entries[j] /\ In(j)}
<1>3. 0 \in Done
  <2>1. /\ 0 \in 0 .. n /\ t[0] \in Seq(Entry) /\ DOMAIN t[0] = {}
    BY <1>1, <1>2, EmptySeq
  <2> QED
    BY <2>1 DEF RisingEntries
<1>4. ASSUME NEW i \in 1 .. n, i - 1 \in Done
      PROVE  i \in Done
  <2>1. PICK s, x : s = t[i - 1] /\ x = entries[i]
    OBVIOUS
  <2>2. /\ s \in Seq(Entry) /\ RisingEntries(s) /\ x \in Entry
        /\ \A m \in DOMAIN s : \E j \in 1 .. i - 1 : s[m] = entries[j] /\ In(j)
    BY <1>1, <1>4, <2>1
  <2>3. i \in 0 .. n /\ \A j \in 1 .. i - 1 : j \in 1 .. i /\ j \in 1 .. n /\ j < i
    BY <1>1
  <2>4. CASE ~In(i)
    <3>1. t[i] = s
      BY <1>2, <2>1, <2>4
    <3> QED
      BY <2>2, <2>3, <3>1
  <2>5. CASE In(i)
    <3>1. t[i] = Append(s, x)
      BY <1>2, <2>1, <2>5
    <3>2. /\ Len(s) \in Nat /\ DOMAIN s = 1 .. Len(s)
          /\ Append(s, x) \in Seq(Entry) /\ DOMAIN Append(s, x) = 1 .. Len(s) + 1
          /\ \A m \in 1 .. Len(s) : Append(s, x)[m] = s[m]
          /\ Append(s, x)[Len(s) + 1] = x
      BY <2>2, AppendProperties, LenProperties
    <3>3. \A m \in DOMAIN s : s[m].key < x.key
      BY <1>1, <2>1, <2>2, <2>3 DEF RisingEntries
    <3>4. \A m \in 1 .. Len(s) + 1 : m \in 1 .. Len(s) \/ m = Len(s) + 1
      BY <3>2
    <3>5. RisingEntries(Append(s, x))
      BY <2>2, <3>2, <3>3, <3>4 DEF RisingEntries
    <3>6. ASSUME NEW m \in DOMAIN Append(s, x)
          PROVE  \E j \in 1 .. i : Append(s, x)[m] = entries[j] /\ In(j)
      BY <2>1, <2>2, <2>3, <2>5, <3>2, <3>4
    <3> QED
      BY <2>3, <3>1, <3>2, <3>5, <3>6
  <2> QED
    BY <2>4, <2>5
<1>5. n \in Done
  <2> HIDE DEF Done
  <2>1. 0 .. n \subseteq Done
    BY <1>1, <1>3, <1>4, UpToLast
  <2> QED
    BY <1>1, <2>1
<1>6. /\ RisingEntries(t[n])
      /\ \A m \in DOMAIN t[n] : Has(entries, t[n][m]) /\ Within(t[n][m], start_key, end_key)
  BY <1>1, <1>5 DEF In, Has
<1> QED
  BY <1>2, <1>6

\* What the loop of range_scan has between two turns.
Scans == [page : Pages \cup {INVALID_PAGE_ID}, found : Seq(Entry)]

\* One turn of the loop of range_scan.
ScanOn(so_far, end_key, start_key) ==
    LET leaf == pages[so_far.page]
        past == \E j \in DOMAIN leaf.entries : leaf.entries[j].key > end_key
    IN  IF so_far.page = INVALID_PAGE_ID \/ ~IsLeaf(so_far.page)
        THEN so_far
        ELSE [page  |-> IF past THEN INVALID_PAGE_ID ELSE leaf.next,
              found |-> so_far.found \o InRange(leaf.entries, start_key, end_key)]

(* The loop stays on pages of the file, and collects entries. *)
LEMMA ScanOnIn ==
    ASSUME PagesOK, NEW end_key, NEW start_key, NEW so_far \in Scans
    PROVE  ScanOn(so_far, end_key, start_key) \in Scans
<1> DEFINE p == so_far.page
           leaf == pages[p]
<1>1. CASE p = INVALID_PAGE_ID \/ ~IsLeaf(p)
  BY <1>1 DEF ScanOn
<1>2. CASE p # INVALID_PAGE_ID /\ IsLeaf(p)
  <2>1. p \in Nodes /\ so_far.found \in Seq(Entry)
    BY <1>2, NodeKinds DEF Scans
  <2>2. leaf.entries \in Seq(Entry) /\ leaf.next \in Pages \cup {INVALID_PAGE_ID}
    BY <1>2, <2>1, NodeKinds, NodesInPages, KindOf DEF LeafOK, Nodes
  <2>3. PICK taken \in Seq(Entry) : taken = InRange(leaf.entries, start_key, end_key)
    BY <2>2, InRangeHas
  <2>4. so_far.found \o taken \in Seq(Entry)
    BY <2>1, HasJoined
  <2>5. PICK next \in Pages \cup {INVALID_PAGE_ID} :
           ScanOn(so_far, end_key, start_key) = [page |-> next, found |-> so_far.found \o taken]
    BY <1>2, <2>2, <2>3 DEF ScanOn
  <2> QED
    BY <2>4, <2>5 DEF Scans
<1> QED
  BY <1>1, <1>2

(* range_scan is what the loop has after MaxPages turns. *)
LEMMA ScanSteps ==
    ASSUME PagesOK, NEW root, NEW start_key, NEW end_key, find_leaf_page(root, start_key) \in Pages
    PROVE  \E s :
              /\ s[0] = [page |-> find_leaf_page(root, start_key), found |-> <<>>]
              /\ \A i \in 1 .. MaxPages : s[i] = ScanOn(s[i - 1], end_key, start_key)
              /\ Scan(root, start_key, end_key) = s[MaxPages]
<1> DEFINE S == Scans
           first == [page |-> find_leaf_page(root, start_key), found |-> <<>>]
           Loop(s) == s = [i \in 0 .. MaxPages |->
                               IF i = 0 THEN first ELSE ScanOn(s[i - 1], end_key, start_key)]
           scanned == CHOOSE s : Loop(s)
<1>1. Scan(root, start_key, end_key) = scanned[MaxPages]
  BY DEF Scan, ScanOn
<1>2. MaxPages \in Nat
  BY TreePagesAssumption
<1>3. first \in S
  BY EmptySeq DEF Scans
<1>4. \E s : Loop(s)
  <2> DEFINE step == [a \in (1 .. MaxPages) \X S |-> ScanOn(a[2], end_key, start_key)]
  <2>1. \A i \in 1 .. MaxPages, x \in S : step[<<i, x>>] = ScanOn(x, end_key, start_key)
    OBVIOUS
  <2>2. \A x \in S : ScanOn(x, end_key, start_key) \in S
    BY ScanOnIn
  <2>3. \A i \in 1 .. MaxPages, x \in S : step[<<i, x>>] \in S
    BY <2>1, <2>2
  <2> HIDE DEF step, S, first
  <2>4. PICK f : Loops(f, S, step, first, MaxPages)
    BY <1>2, <1>3, <2>3, LoopExists
  <2>5. ASSUME NEW i \in 0 .. MaxPages
        PROVE  f[i] = IF i = 0 THEN first ELSE ScanOn(f[i - 1], end_key, start_key)
    <3>1. CASE i = 0
      BY <2>4, <3>1 DEF Loops
    <3>2. CASE i # 0
      <4>1. i \in 1 .. MaxPages /\ i - 1 \in 0 .. MaxPages
        BY <1>2, <3>2
      <4>2. f[i] = step[<<i, f[i - 1]>>] /\ f[i - 1] \in S
        BY <2>4, <4>1 DEF Loops
      <4> QED
        BY <2>1, <3>2, <4>1, <4>2
    <3> QED
      BY <3>1, <3>2
  <2>6. f = [i \in 0 .. MaxPages |-> f[i]]
    BY <2>4 DEF Loops
  <2>7. Loop(f)
    BY <2>5, <2>6
  <2> QED
    BY <2>7
<1>5. Loop(scanned)
  BY <1>4
<1>6. PICK s : s = scanned
  OBVIOUS
<1> HIDE DEF scanned
<1>7. s[0] = first /\ \A i \in 1 .. MaxPages : s[i] = ScanOn(s[i - 1], end_key, start_key)
  <2>1. Loop(s)
    BY <1>5, <1>6
  <2>2. 0 \in 0 .. MaxPages /\ \A i \in 1 .. MaxPages : i \in 0 .. MaxPages /\ i # 0
    BY <1>2
  <2> QED
    BY <2>1, <2>2
<1> QED
  BY <1>1, <1>6, <1>7

(* Whatever key the tree has, a range with it comes to its leaf. *)
LEMMA ScanFinds ==
    ASSUME PagesOK, NEW level \in [Pages -> Nat], NEW rank \in [Pages -> Nat],
           Shape(level, rank), at = "idle", NEW lv, NEW span,
           Tree(pages, lv, root_page_id_, span), Linked(pages, span),
           NEW start_key \in Keys, NEW end_key \in Keys, NEW key \in Keys,
           start_key <= key, key <= end_key, Found(key) # None
    PROVE  Has(range_scan(root_page_id_, start_key, end_key), [key |-> key, rid |-> Found(key)])
<1> DEFINE root == root_page_id_
           entry == [key |-> key, rid |-> Found(key)]
           first == LeafFor(start_key)
           last == LeafFor(key)
<1>1. start_key \in Int /\ end_key \in Int /\ key \in Int /\ \A k \in Keys : k \in Int
  BY KeysAssumption
<1>2. PICK beyond : ChainIn(pages, span, beyond)
  BY DEF Linked
<1>3. /\ first \in Nodes /\ first \in Pages /\ IsLeaf(first)
      /\ start_key \in span[first] /\ lv[first] = 0
      /\ last \in Nodes /\ last \in Pages /\ IsLeaf(last) /\ key \in span[last] /\ lv[last] = 0
  BY WayToKey
<1>4. PICK s :
         /\ s[0] = [page |-> first, found |-> <<>>]
         /\ \A i \in 1 .. MaxPages : s[i] = ScanOn(s[i - 1], end_key, start_key)
         /\ Scan(root, start_key, end_key) = s[MaxPages]
  BY <1>3, ScanSteps, SMTT(30) DEF LeafFor
<1>5. MaxPages \in Nat
  BY TreePagesAssumption
<1>6. Has(pages[last].entries, entry)
  <2>1. Says(pages[last].entries, key, SearchAll(root)[key])
    <3>1. root \in Nodes /\ Leveled(level) /\ level[root] <= MaxPages
      BY TreeRootOK DEF HasTree, TreeRoot
    <3>2. Answers(pages, span, SearchAll(root))
      BY <3>1, SearchSays
    <3> QED
      BY <1>3, <3>2 DEF Answers, IsLeaf
  <2>2. SearchAll(root)[key] = Found(key)
    BY DEF SearchAll, Found
  <2>3. PICK i \in DOMAIN pages[last].entries :
           pages[last].entries[i].key = key /\ pages[last].entries[i].rid = Found(key)
    BY <2>1, <2>2 DEF Says
  <2>4. pages[last].entries \in Seq(Entry)
    BY <1>3, NodeKinds, KindOf
  <2>5. pages[last].entries[i] \in Entry
    BY <2>3, <2>4, ElementOfSeq
  <2>6. pages[last].entries[i] = entry
    BY <2>3, <2>5 DEF Entry
  <2> QED
    BY <2>6 DEF Has
<1> HIDE DEF first, last, entry
<1> DEFINE On(p, i) == /\ p \in Nodes /\ p \in Pages /\ IsLeaf(p)
                       /\ key \in span[p] \cup beyond[p] /\ i <= rank[p]
           Done == {i \in 0 .. MaxPages :
                       /\ s[i] \in Scans
                       /\ Has(s[i].found, entry) \/ On(s[i].page, i)}
<1>7. \A p \in Pages : IsLeaf(p) => LeafInChain(pages, span, beyond, p)
  BY <1>2 DEF ChainIn, IsLeaf
<1>8. 0 \in Done
  <2>1. s[0].page = first /\ s[0].found = <<>>
    BY <1>4
  <2>2. start_key = key \/ start_key < key
    BY <1>1
  <2>3. key \in span[first] \cup beyond[first]
    BY <1>3, <1>7, <2>2 DEF LeafInChain
  <2>4. rank[first] \in Nat
    BY <1>3
  <2>5. On(first, 0) /\ 0 \in 0 .. MaxPages
    BY <1>3, <1>5, <2>3, <2>4
  <2>6. s[0] \in Scans
    BY <1>3, <1>4, EmptySeq DEF Scans
  <2> HIDE DEF On
  <2> QED
    BY <2>1, <2>5, <2>6
<1>9. ASSUME NEW i \in 1 .. MaxPages, i - 1 \in Done
      PROVE  i \in Done
  <2>1. PICK p, found, so_far :
           p = s[i - 1].page /\ found = s[i - 1].found /\ so_far = s[i - 1]
    OBVIOUS
  <2>2. /\ p \in Pages \cup {INVALID_PAGE_ID} /\ found \in Seq(Entry) /\ so_far \in Scans
        /\ Has(found, entry) \/ On(p, i - 1)
    <3> HIDE DEF On
    <3> QED
      BY <1>9, <2>1 DEF Scans
  <2>3. s[i] = ScanOn(so_far, end_key, start_key) /\ so_far.page = p /\ so_far.found = found
    BY <1>4, <2>1
  <2>4. SUFFICES Has(s[i].found, entry) \/ On(s[i].page, i)
    <3>1. i \in 0 .. MaxPages /\ s[i] \in Scans
      BY <1>5, <2>2, <2>3, ScanOnIn
    <3> HIDE DEF On
    <3> QED
      BY <3>1
  <2>5. CASE p = INVALID_PAGE_ID \/ ~IsLeaf(p)
    <3>1. s[i] = so_far
      BY <2>3, <2>5 DEF ScanOn
    <3>2. Has(found, entry)
      BY <2>2, <2>5 DEF INVALID_PAGE_ID, Nodes
    <3> HIDE DEF On
    <3> QED
      BY <2>2, <2>3, <3>1, <3>2
  <2>6. CASE p # INVALID_PAGE_ID /\ IsLeaf(p) /\ p \in Pages
    <3>1. p \in Nodes /\ pages[p].entries \in Seq(Entry)
      BY <2>6, NodeKinds, KindOf
    <3>2. PICK taken \in Seq(Entry) :
             /\ taken = InRange(pages[p].entries, start_key, end_key)
             /\ \A j \in DOMAIN pages[p].entries :
                   start_key <= pages[p].entries[j].key /\ pages[p].entries[j].key <= end_key
                      => Has(taken, pages[p].entries[j])
      BY <3>1, InRangeHas
    <3> DEFINE past == \E j \in DOMAIN pages[p].entries : pages[p].entries[j].key > end_key
    <3>3. /\ s[i].page = IF past THEN INVALID_PAGE_ID ELSE pages[p].next
          /\ s[i].found = found \o taken
      <4>1. s[i] = [page  |-> IF past THEN INVALID_PAGE_ID ELSE pages[p].next,
                    found |-> found \o taken]
        BY <2>3, <2>6, <3>2 DEF ScanOn
      <4> QED
        BY <4>1
    <3>4. \A y : Has(found, y) \/ Has(taken, y) => Has(s[i].found, y)
      <4>1. \A y : Has(found, y) \/ Has(taken, y) => Has(found \o taken, y)
        BY <2>2, <3>2, HasJoined
      <4> QED
        BY <3>3, <4>1
    <3> HIDE DEF past
    <3>5. CASE Has(found, entry)
      <4> HIDE DEF On
      <4> QED
        BY <3>4, <3>5
    <3>6. CASE On(p, i - 1) /\ key \in span[p]
      <4>1. lv[p] = 0
        BY <2>6, <3>6 DEF Tree, NodeIn, LeafIn, InternalIn, IsLeaf
      <4>2. p = last
        BY <1>3, <2>6, <3>6, <4>1 DEF Tree
      <4>3. entry.key = key
        BY DEF entry
      <4>4. Has(taken, entry)
        BY <1>6, <3>2, <4>2, <4>3 DEF Has
      <4> HIDE DEF On
      <4> QED
        BY <3>4, <4>4
    <3>7. CASE On(p, i - 1) /\ key \in beyond[p]
      <4>1. LeafInChain(pages, span, beyond, p)
        BY <1>7, <2>6
      <4>2. ~past
        <5>1. SUFFICES ASSUME NEW j \in DOMAIN pages[p].entries, pages[p].entries[j].key > end_key
                       PROVE  FALSE
          BY DEF past
        <5>2. pages[p].entries[j].key \in Int /\ pages[p].entries[j].key < key
          BY <1>1, <3>7, <4>1 DEF LeafInChain
        <5> QED
          BY <1>1, <5>1, <5>2
      <4>3. PICK q : q = pages[p].next
        OBVIOUS
      <4>4. /\ q # INVALID_PAGE_ID /\ q \in Pages /\ IsLeaf(q)
            /\ key \in span[q] \cup beyond[q]
        BY <3>7, <4>1, <4>3 DEF LeafInChain, IsLeaf
      <4>5. rank[p] < rank[q] /\ q \in Nodes
        BY <2>6, <3>1, <4>3, <4>4, NodeKinds DEF Shape, Ranked
      <4>6. i <= rank[q]
        <5>1. rank[p] \in Nat /\ rank[q] \in Nat /\ i - 1 <= rank[p]
          BY <2>6, <3>7, <4>4
        <5> QED
          BY <4>5, <5>1
      <4>7. s[i].page = q
        BY <3>3, <4>2, <4>3
      <4> QED
        BY <3>4, <4>4, <4>5, <4>6, <4>7
    <3> QED
      BY <2>2, <3>5, <3>6, <3>7
  <2> QED
    BY <2>2, <2>5, <2>6
<1>10. MaxPages \in Done
  <2> HIDE DEF Done
  <2>1. 0 .. MaxPages \subseteq Done
    BY <1>5, <1>8, <1>9, UpToLast
  <2> QED
    BY <1>5, <2>1
<1>11. ~On(s[MaxPages].page, MaxPages)
  BY <1>5, NodesInPages DEF Shape, Ranked
<1>12. Has(s[MaxPages].found, entry)
  BY <1>10, <1>11
<1>13. ~(end_key < start_key)
  BY <1>1
<1>14. range_scan(root, start_key, end_key) = s[MaxPages].found
  BY <1>4, <1>13 DEF range_scan
<1> QED
  BY <1>12, <1>14 DEF entry

(* With no insertion under way the chain leads from the leaf of start_key to
   every key of the range that search finds. *)
LEMMA ScanInv == TreeInv /\ MapInv => FoundIsScanned
<1> SUFFICES ASSUME TreeInv, MapInv, at = "idle",
                    NEW start_key \in Keys, NEW end_key \in Keys, NEW key \in Keys,
                    start_key <= key, key <= end_key, Found(key) # None
             PROVE  Has(range_scan(root_page_id_, start_key, end_key),
                        [key |-> key, rid |-> Found(key)])
  BY DEF FoundIsScanned, Has
<1>1. PICK level \in [Pages -> Nat], rank \in [Pages -> Nat] : Shape(level, rank)
  BY DEF TreeInv
<1>2. PICK lv, span, whole : KeysOK(lv, span, whole)
  BY DEF MapInv
<1>3. Tree(pages, lv, root_page_id_, span) /\ Linked(pages, span)
  BY <1>2 DEF KeysOK, HasTree, TreeRoot, View, LinkOK, Ahead
<1>4. PagesOK
  BY DEF TreeInv
<1> QED
  BY <1>1, <1>3, <1>4, ScanFinds

(* Whatever keys and fan-out the tree has, and whatever calls failed before,
   range_scan returns every key of its range that search finds, with the same
   row: the loop over next_leaf_page_id never ends before the last of them. *)
THEOREM TreeFoundIsScanned == Spec => []FoundIsScanned
BY TreeInvariant, MapInvariant, ScanInv, PTL

(* Where every leaf has keys, range_scan collects nothing but what search
   answers, in the order of the keys. *)
LEMMA ScanOnly ==
    ASSUME PagesOK, NEW level \in [Pages -> Nat], NEW rank \in [Pages -> Nat],
           Shape(level, rank), at = "idle", NEW lv, NEW span,
           Tree(pages, lv, root_page_id_, span), Linked(pages, span),
           \A p \in Nodes : span[p] # {},
           NEW start_key \in Keys, NEW end_key \in Keys, start_key <= end_key
    PROVE  LET scanned == range_scan(root_page_id_, start_key, end_key)
           IN  /\ scanned \in Seq(Entry) /\ RisingEntries(scanned)
               /\ \A i \in DOMAIN scanned :
                     /\ Within(scanned[i], start_key, end_key)
                     /\ scanned[i].rid = Found(scanned[i].key)
<1> DEFINE root == root_page_id_
           first == LeafFor(start_key)
           Good(x) == Within(x, start_key, end_key) /\ x.rid = Found(x.key)
<1>1. start_key \in Int /\ end_key \in Int /\ \A k \in Keys : k \in Int
  BY KeysAssumption
<1>2. PICK beyond : ChainIn(pages, span, beyond)
  BY DEF Linked
<1>3. first \in Nodes /\ first \in Pages /\ IsLeaf(first)
  BY WayToKey
<1>4. PICK s :
         /\ s[0] = [page |-> first, found |-> <<>>]
         /\ \A i \in 1 .. MaxPages : s[i] = ScanOn(s[i - 1], end_key, start_key)
         /\ Scan(root, start_key, end_key) = s[MaxPages]
  BY <1>3, ScanSteps, SMTT(30) DEF LeafFor
<1>5. MaxPages \in Nat
  BY TreePagesAssumption
<1>6. Answers(pages, span, SearchAll(root))
  <2>1. root \in Nodes /\ Leveled(level) /\ level[root] <= MaxPages
    BY TreeRootOK DEF HasTree, TreeRoot
  <2> QED
    BY <2>1, SearchSays
<1>7. ASSUME NEW p \in Pages, IsLeaf(p)
      PROVE  /\ p \in Nodes /\ LeafInChain(pages, span, beyond, p)
             /\ pages[p].entries \in Seq(Entry) /\ RisingEntries(pages[p].entries)
             /\ \A x : Has(pages[p].entries, x) =>
                   x \in Entry /\ x.key \in span[p] /\ x.rid = Found(x.key)
  <2>1. p \in Nodes /\ LeafInChain(pages, span, beyond, p)
    BY <1>2, <1>7, NodeKinds DEF ChainIn, IsLeaf
  <2>2. LeafIn(pages[p], span[p], lv[p])
    BY <1>7, <2>1 DEF Tree, NodeIn, InternalIn, IsLeaf
  <2>3. ASSUME NEW i \in DOMAIN pages[p].entries
        PROVE  /\ pages[p].entries[i] \in Entry /\ pages[p].entries[i].key \in span[p]
               /\ pages[p].entries[i].rid = Found(pages[p].entries[i].key)
    <3>1. PICK k, rid : k = pages[p].entries[i].key /\ rid = pages[p].entries[i].rid
      OBVIOUS
    <3>2. pages[p].entries[i] \in Entry /\ k \in span[p] /\ k \in Keys
      BY <2>2, <3>1, ElementOfSeq DEF LeafIn, Tree
    <3>3. Says(pages[p].entries, k, rid)
      BY <3>1 DEF Says
    <3>4. Says(pages[p].entries, k, SearchAll(root)[k])
      BY <1>6, <1>7, <3>2 DEF Answers, IsLeaf
    <3>5. rid = SearchAll(root)[k]
      BY <2>2, <3>3, <3>4, SaysOnce DEF LeafIn
    <3>6. SearchAll(root)[k] = Found(k)
      BY <3>2 DEF SearchAll, Found
    <3> QED
      BY <3>1, <3>2, <3>5, <3>6
  <2> QED
    BY <2>1, <2>2, <2>3 DEF LeafIn, Has
<1> HIDE DEF first
<1> DEFINE Ahead2(p, found) ==
               p # INVALID_PAGE_ID =>
                  /\ p \in Pages /\ IsLeaf(p)
                  /\ \A m \in DOMAIN found, k \in span[p] \cup beyond[p] : found[m].key < k
           Collected(found) ==
               found \in Seq(Entry) /\ RisingEntries(found) /\ \A m \in DOMAIN found : Good(found[m])
           Done == {i \in 0 .. MaxPages :
                       Collected(s[i].found) /\ Ahead2(s[i].page, s[i].found)}
<1>8. 0 \in Done
  <2>1. s[0].page = first /\ s[0].found = <<>> /\ 0 \in 0 .. MaxPages
    BY <1>4, <1>5
  <2>2. <<>> \in Seq(Entry) /\ DOMAIN <<>> = {}
    BY EmptySeq
  <2>3. Collected(<<>>)
    BY <2>2 DEF RisingEntries
  <2>4. Ahead2(first, <<>>)
    BY <1>3, <2>2
  <2> HIDE DEF Collected, Ahead2
  <2> QED
    BY <2>1, <2>3, <2>4
<1>9. ASSUME NEW i \in 1 .. MaxPages, i - 1 \in Done
      PROVE  i \in Done
  <2>1. PICK p, found, so_far :
           p = s[i - 1].page /\ found = s[i - 1].found /\ so_far = s[i - 1]
    OBVIOUS
  <2>2. Collected(found) /\ Ahead2(p, found)
    <3> HIDE DEF Collected, Ahead2
    <3> QED
      BY <1>9, <2>1
  <2>3. s[i] = ScanOn(so_far, end_key, start_key) /\ so_far.page = p /\ so_far.found = found
    BY <1>4, <2>1
  <2>4. SUFFICES Collected(s[i].found) /\ Ahead2(s[i].page, s[i].found)
    <3>1. i \in 0 .. MaxPages
      BY <1>5
    <3> HIDE DEF Collected, Ahead2
    <3> QED
      BY <3>1
  <2>5. CASE p = INVALID_PAGE_ID
    <3>1. s[i] = so_far
      BY <2>3, <2>5 DEF ScanOn
    <3> HIDE DEF Collected, Ahead2
    <3> QED
      BY <2>2, <2>3, <3>1
  <2>6. CASE p # INVALID_PAGE_ID
    <3>1. /\ p \in Pages /\ IsLeaf(p)
          /\ \A m \in DOMAIN found, k \in span[p] \cup beyond[p] : found[m].key < k
      BY <2>2, <2>6
    <3>2. /\ LeafInChain(pages, span, beyond, p)
          /\ pages[p].entries \in Seq(Entry) /\ RisingEntries(pages[p].entries)
          /\ \A x : Has(pages[p].entries, x) =>
                x \in Entry /\ x.key \in span[p] /\ x.rid = Found(x.key)
      BY <1>7, <3>1
    <3>3. PICK taken \in Seq(Entry) :
             /\ taken = InRange(pages[p].entries, start_key, end_key)
             /\ RisingEntries(taken)
             /\ \A m \in DOMAIN taken : Has(pages[p].entries, taken[m])
                                       /\ Within(taken[m], start_key, end_key)
      <4>1. InRange(pages[p].entries, start_key, end_key) \in Seq(Entry)
        BY <3>2, InRangeHas
      <4> QED
        BY <3>2, <4>1, InRangeOnly
    <3>4. \A m \in DOMAIN taken : Good(taken[m]) /\ taken[m].key \in span[p]
      BY <3>2, <3>3
    <3>5. \A m \in DOMAIN found, j \in DOMAIN taken : found[m].key < taken[j].key
      BY <3>1, <3>4
    <3>6. PICK joined : joined = found \o taken
      OBVIOUS
    <3>7. /\ joined \in Seq(Entry) /\ RisingEntries(joined)
          /\ \A m \in DOMAIN joined : Has(found, joined[m]) \/ Has(taken, joined[m])
      BY <2>2, <3>3, <3>5, <3>6, RisingJoined
    <3> DEFINE past == \E j \in DOMAIN pages[p].entries : pages[p].entries[j].key > end_key
    <3>8. /\ s[i].page = IF past THEN INVALID_PAGE_ID ELSE pages[p].next
          /\ s[i].found = joined
      <4>1. s[i] = [page  |-> IF past THEN INVALID_PAGE_ID ELSE pages[p].next,
                    found |-> joined]
        BY <2>3, <2>6, <3>1, <3>3, <3>6 DEF ScanOn
      <4> QED
        BY <4>1
    <3> HIDE DEF past
    <3>9. Collected(joined)
      <4>1. \A m \in DOMAIN joined : Good(joined[m])
        <5> HIDE DEF Good
        <5>1. \A x : Has(found, x) \/ Has(taken, x) => Good(x)
          BY <2>2, <3>4 DEF Has
        <5> QED
          BY <3>7, <5>1
      <4> HIDE DEF Good
      <4> QED
        BY <3>7, <4>1
    <3>10. ASSUME NEW m \in DOMAIN joined, NEW k \in beyond[p]
           PROVE  joined[m].key < k
      <4>1. CASE Has(found, joined[m])
        BY <3>1, <4>1 DEF Has
      <4>2. CASE Has(taken, joined[m])
        <5>1. joined[m].key \in span[p]
          BY <3>4, <4>2 DEF Has
        <5> QED
          BY <3>2, <5>1 DEF LeafInChain
      <4> QED
        BY <3>7, <4>1, <4>2
    <3>11. Ahead2(s[i].page, joined)
      <4>1. CASE past \/ pages[p].next = INVALID_PAGE_ID
        BY <3>8, <4>1
      <4>2. CASE ~past /\ pages[p].next # INVALID_PAGE_ID
        <5>1. PICK q : q = pages[p].next
          OBVIOUS
        <5>2. q \in Pages /\ IsLeaf(q) /\ beyond[p] = span[q] \cup beyond[q]
          BY <3>2, <4>2, <5>1 DEF LeafInChain, IsLeaf
        <5>3. s[i].page = q
          BY <3>8, <4>2, <5>1
        <5> QED
          BY <3>10, <5>2, <5>3
      <4> QED
        BY <4>1, <4>2
    <3> HIDE DEF Collected, Ahead2
    <3> QED
      BY <3>8, <3>9, <3>11
  <2> QED
    BY <2>5, <2>6
<1>10. MaxPages \in Done
  <2> HIDE DEF Done
  <2>1. 0 .. MaxPages \subseteq Done
    BY <1>5, <1>8, <1>9, UpToLast
  <2> QED
    BY <1>5, <2>1
<1>11. PICK found : found = s[MaxPages].found
  OBVIOUS
<1>12. Collected(found)
  <2> HIDE DEF Collected, Ahead2
  <2> QED
    BY <1>10, <1>11
<1>13. ~(end_key < start_key)
  BY <1>1
<1>14. range_scan(root, start_key, end_key) = found
  BY <1>4, <1>11, <1>13 DEF range_scan
<1> QED
  BY <1>12, <1>14
(* With no insertion under way and no call that failed, every node has keys. *)
LEMMA AllPeopled ==
    ASSUME TreeInv, PeopledInv, at = "idle", ~MayFail, Keys # {}
    PROVE  \E lv, span : /\ Tree(pages, lv, root_page_id_, span) /\ Linked(pages, span)
                         /\ \A p \in Nodes : span[p] # {}
<1>1. PICK lv, span, whole : KeysOK(lv, span, whole) /\ Peopled(span)
  BY DEF PeopledInv
<1>2. Tree(pages, lv, root_page_id_, span) /\ Linked(pages, span)
  BY <1>1 DEF KeysOK, HasTree, TreeRoot, View, LinkOK, Ahead
<1>3. \A p \in Nodes : span[p] # {}
  BY <1>1 DEF Peopled, Awaited
<1> QED
  BY <1>2, <1>3

(* A node with keys is visited on the way to each of them. *)
LEMMA LostInv == TreeInv /\ PeopledInv /\ ~MayFail /\ Keys # {} => NoPageLost
<1> SUFFICES ASSUME TreeInv, PeopledInv, ~MayFail, Keys # {}, at = "idle"
             PROVE  Nodes = {Descent(root_page_id_, key)[i] : key \in Keys, i \in 0 .. MaxPages}
                            \ (IF page_count = 2 THEN {} ELSE {HEADER_PAGE_ID})
  BY DEF NoPageLost, Nodes
<1> DEFINE root == root_page_id_
<1>1. PICK level \in [Pages -> Nat], rank \in [Pages -> Nat] : Shape(level, rank)
  BY DEF TreeInv
<1>2. PICK lv, span : /\ Tree(pages, lv, root, span)
                      /\ \A p \in Nodes : span[p] # {}
  BY AllPeopled
<1>3. PagesOK /\ root \in Nodes /\ Leveled(level) /\ level[root] <= MaxPages
  BY <1>1, TreeRootOK DEF TreeInv, HasTree, TreeRoot
<1>4. HEADER_PAGE_ID \notin Nodes /\ Nodes \subseteq Pages /\ MaxPages \in Nat
  BY <1>3, NodesInPages, TreePagesAssumption DEF Nodes, HEADER_PAGE_ID
<1>5. ASSUME NEW key \in Keys, NEW i \in 0 .. MaxPages
      PROVE  Descent(root, key)[i] \in Nodes
  BY <1>3, <1>5, DescentLevels
<1>6. ASSUME NEW p \in Nodes
      PROVE  \E key \in Keys, i \in 0 .. MaxPages : p = Descent(root, key)[i]
  <2>1. PICK key \in Keys : key \in span[p]
    BY <1>2, <1>4 DEF Tree
  <2>2. /\ \A i \in 0 .. MaxPages :
              /\ Descent(root, key)[i] \in Pages /\ key \in span[Descent(root, key)[i]]
              /\ i <= level[root] => lv[Descent(root, key)[i]] = level[root] - i
        /\ lv[root] = level[root]
    BY <1>2, <1>3, DescentInTree
  <2>3. lv[p] \in Nat /\ lv[root] \in Nat /\ lv[p] <= lv[root]
    BY <1>2, <1>3, <1>4 DEF Tree
  <2>4. PICK i : i = level[root] - lv[p]
    OBVIOUS
  <2>5. i \in 0 .. MaxPages /\ i <= level[root] /\ level[root] - i = lv[p]
    BY <1>3, <1>4, <2>2, <2>3, <2>4
  <2>6. /\ Descent(root, key)[i] \in Pages /\ key \in span[Descent(root, key)[i]]
        /\ lv[Descent(root, key)[i]] = lv[p]
    BY <2>2, <2>5
  <2>7. Descent(root, key)[i] = p
    BY <1>2, <1>4, <2>1, <2>6 DEF Tree
  <2> QED
    BY <2>5, <2>7
<1> QED
  BY <1>4, <1>5, <1>6

(* The two ways into the tree. *)
LEMMA ScanIsIndexInv == TreeInv /\ PeopledInv /\ ~MayFail => ScanIsIndex
<1> SUFFICES ASSUME TreeInv, PeopledInv, ~MayFail, at = "idle",
                    NEW start_key \in Keys, NEW end_key \in Keys
             PROVE  LET scanned == range_scan(root_page_id_, start_key, end_key)
                    IN  /\ RisingEntries(scanned)
                        /\ {scanned[i] : i \in DOMAIN scanned} =
                              {[key |-> key, rid |-> Found(key)] :
                                 key \in {k \in Keys : start_key <= k /\ k <= end_key
                                                       /\ Found(k) # None}}
  BY DEF ScanIsIndex, RisingEntries
<1>1. PICK scanned : scanned = range_scan(root_page_id_, start_key, end_key)
  OBVIOUS
<1>2. start_key \in Int /\ end_key \in Int /\ \A k \in Keys : k \in Int
  BY KeysAssumption
<1>3. SUFFICES /\ RisingEntries(scanned)
               /\ \A i \in DOMAIN scanned :
                     \E key \in Keys : /\ start_key <= key /\ key <= end_key
                                       /\ Found(key) # None
                                       /\ scanned[i] = [key |-> key, rid |-> Found(key)]
               /\ \A key \in Keys :
                     start_key <= key /\ key <= end_key /\ Found(key) # None =>
                        Has(scanned, [key |-> key, rid |-> Found(key)])
  BY <1>1 DEF Has
<1>4. CASE end_key < start_key
  <2>1. scanned = <<>> /\ DOMAIN scanned = {}
    BY <1>1, <1>4, EmptySeq DEF range_scan
  <2>2. \A key \in Keys : ~(start_key <= key /\ key <= end_key)
    BY <1>2, <1>4
  <2> QED
    BY <2>1, <2>2 DEF RisingEntries
<1>5. CASE start_key <= end_key
  <2>1. PICK level \in [Pages -> Nat], rank \in [Pages -> Nat] : Shape(level, rank)
    BY DEF TreeInv
  <2>2. PICK lv, span : /\ Tree(pages, lv, root_page_id_, span) /\ Linked(pages, span)
                        /\ \A p \in Nodes : span[p] # {}
    BY AllPeopled
  <2>3. PagesOK
    BY DEF TreeInv
  <2>4. /\ scanned \in Seq(Entry) /\ RisingEntries(scanned)
        /\ \A i \in DOMAIN scanned :
              /\ Within(scanned[i], start_key, end_key)
              /\ scanned[i].rid = Found(scanned[i].key)
    BY <1>1, <1>5, <2>1, <2>2, <2>3, ScanOnly
  <2>5. ASSUME NEW i \in DOMAIN scanned
        PROVE  \E key \in Keys : /\ start_key <= key /\ key <= end_key
                                 /\ Found(key) # None
                                 /\ scanned[i] = [key |-> key, rid |-> Found(key)]
    <3>1. PICK x \in Entry : x = scanned[i]
      BY <2>4, ElementOfSeq
    <3>2. Within(x, start_key, end_key) /\ x.rid = Found(x.key)
      BY <2>4, <3>1
    <3>3. x.key \in Keys /\ x.rid # None /\ x = [key |-> x.key, rid |-> x.rid]
      BY NoneAssumption DEF Entry
    <3> QED
      BY <3>1, <3>2, <3>3 DEF Within
  <2>6. ASSUME NEW key \in Keys, start_key <= key, key <= end_key, Found(key) # None
        PROVE  Has(scanned, [key |-> key, rid |-> Found(key)])
    BY <1>1, <2>1, <2>2, <2>3, <2>6, ScanFinds
  <2> QED
    BY <2>4, <2>5, <2>6
<1> QED
  BY <1>2, <1>4, <1>5

(* No page of the file is lost while no call fails, for every size of node and
   every set of keys: each node can be reached from the root (insert). *)
THEOREM TreeNoPageLost == ~MayFail /\ Keys # {} => (Spec /\ [][~Fails]_vars => []NoPageLost)
<1> SUFFICES ASSUME ~MayFail, Keys # {}
             PROVE  Spec /\ [][~Fails]_vars => []NoPageLost
  OBVIOUS
<1>1. TreeInv /\ PeopledInv => NoPageLost
  BY LostInv
<1> QED
  BY <1>1, TreeInvariant, TreePeopled, PTL

(* The two ways into the tree agree while no call fails: range_scan along the
   leaf chain returns the keys of its range that search finds from the root,
   each once, in order, and nothing else. *)
THEOREM TreeScanIsIndex == ~MayFail => (Spec /\ [][~Fails]_vars => []ScanIsIndex)
<1> SUFFICES ASSUME ~MayFail
             PROVE  Spec /\ [][~Fails]_vars => []ScanIsIndex
  OBVIOUS
<1>1. TreeInv /\ PeopledInv => ScanIsIndex
  BY ScanIsIndexInv
<1> QED
  BY <1>1, TreeInvariant, TreePeopled, PTL
=============================================================================
