-------------------------- MODULE IndexFile_proofs --------------------------
(***************************************************************************)
(* Theorems of the index file over several processes, for every set of     *)
(* keys and RIDs, every size of node and number of pages, and every moment *)
(* at which a page is written out or a process is killed.                  *)
(*                                                                         *)
(* After a kill the file mixes pages of different moments, which is no     *)
(* tree: TreeInv does not hold.  What holds of every mixture (FileInv) is  *)
(* that each page was blank or is a node of the file, and that one order   *)
(* of the leaves is that of all their versions, in the pool and in the     *)
(* file.                                                                   *)
(***************************************************************************)
EXTENDS IndexFile, BPlusTree_proofs

(* The contents of a file of count pages, some of them from an earlier time:
   a page was not written yet, or is the header or a node. *)
FileVersions(pg, count) ==
    /\ pg = [p \in Pages |-> pg[p]]
    /\ \A p \in Pages : p >= count => pg[p] = Blank
    /\ count > 0 =>
          pg[HEADER_PAGE_ID] \in
              {Blank} \cup {header \in Headers : header.root_page_id \in 1 .. count - 1}
    /\ \A p \in 1 .. count - 1 : pg[p] = Blank \/ NodeOK(pg[p], count)

(* A version of a leaf points to a leaf of higher rank. *)
Forward(rank, p, node) ==
    node.kind = "leaf" /\ node.next # INVALID_PAGE_ID => rank[p] < rank[node.next]

(* One order of the leaves is that of every version in the pool and in the
   file. *)
FilesOK(rank) ==
    /\ page_count \in 0 .. MaxPages
    /\ FileVersions(pages, page_count) /\ FileVersions(stored, page_count)
    /\ rank \in [Pages -> Nat]
    /\ \A p \in Nodes : /\ rank[p] < page_count
                        /\ Forward(rank, p, pages[p]) /\ Forward(rank, p, stored[p])

(* The halves of a node keep its kind; so the nodes above it stay internal. *)
HalvesInFile(rank) ==
    /\ \/ /\ IsLeaf(split.page) /\ IsLeaf(split.right_page)
          /\ LeafOK(split.left, page_count) /\ LeafOK(split.right, page_count)
       \/ /\ IsInternal(split.page) /\ IsInternal(split.right_page)
          /\ InternalOK(split.left, page_count) /\ InternalOK(split.right, page_count)
    /\ Forward(rank, split.page, split.left) /\ Forward(rank, split.right_page, split.right)

WayUpInFile ==
    /\ split.page \in Nodes /\ split.right_page \in Nodes /\ split.separator \in Keys
    /\ path \in Seq(Nodes) /\ \A i \in DOMAIN path : IsInternal(path[i])

MembersInFile ==
    /\ at \in {"none", "first_leaf", "first_header", "idle", "left", "right", "up",
               "root", "header"}
    /\ at = "first_leaf" => page_count > 0
    /\ at \notin {"none", "first_leaf"} => root_page_id_ \in Nodes
    /\ height_ \in Int

SplitInFile(rank) ==
    /\ at \in {"left", "right"} => HalvesInFile(rank)
    /\ at \in {"left", "right", "up", "root"} => WayUpInFile

(* A step of an insertion does not write page 0. *)
HeaderKept ==
    page_count' \in {page_count, page_count + 1} /\ pages'[HEADER_PAGE_ID] = pages[HEADER_PAGE_ID]

FileInv == MembersInFile /\ \E rank : FilesOK(rank) /\ SplitInFile(rank)

-----------------------------------------------------------------------------
(* Any file *)

(* The pages of the file, and what kind each is of. *)
LEMMA FileNodes ==
    ASSUME NEW rank, FilesOK(rank)
    PROVE  /\ page_count \in Nat /\ MaxPages \in Nat /\ page_count <= MaxPages
           /\ Nodes \subseteq Pages /\ \A p \in Nodes : p \in Nat /\ p > 0 /\ p < page_count
           /\ page_count < MaxPages => page_count \in Pages
           /\ page_count \notin Nodes
           /\ HEADER_PAGE_ID \in Pages /\ HEADER_PAGE_ID \notin Nodes
           /\ \A p \in Nodes : /\ IsLeaf(p) <=> LeafOK(pages[p], page_count)
                               /\ IsInternal(p) <=> InternalOK(pages[p], page_count)
           /\ \A p \in Pages : p \notin Nodes => ~IsLeaf(p) /\ ~IsInternal(p)
<1>1. /\ page_count \in Nat /\ MaxPages \in Nat /\ page_count <= MaxPages
      /\ Nodes \subseteq Pages /\ \A p \in Nodes : p \in Nat /\ p > 0 /\ p < page_count
      /\ page_count < MaxPages => page_count \in Pages
      /\ page_count \notin Nodes
      /\ HEADER_PAGE_ID \in Pages /\ HEADER_PAGE_ID \notin Nodes
  BY TreePagesAssumption DEF FilesOK, Pages, Nodes, HEADER_PAGE_ID
<1>2. ASSUME NEW p \in Nodes
      PROVE  /\ IsLeaf(p) <=> LeafOK(pages[p], page_count)
             /\ IsInternal(p) <=> InternalOK(pages[p], page_count)
  <2>1. pages[p] = Blank \/ LeafOK(pages[p], page_count) \/ InternalOK(pages[p], page_count)
    BY DEF FilesOK, FileVersions, Nodes, NodeOK
  <2> QED
    BY <2>1, KindOf DEF IsLeaf, IsInternal
<1>3. ASSUME NEW p \in Pages, p \notin Nodes
      PROVE  ~IsLeaf(p) /\ ~IsInternal(p)
  <2>1. p >= page_count \/ (p = HEADER_PAGE_ID /\ page_count > 0)
    BY <1>1, <1>3 DEF Pages, Nodes, HEADER_PAGE_ID
  <2>2. pages[p] = Blank \/ pages[p] \in Headers
    BY <2>1 DEF FilesOK, FileVersions
  <2> QED
    BY <2>2, KindOf DEF IsLeaf, IsInternal
<1> QED
  BY <1>1, <1>2, <1>3

(* A page of the file is overwritten with a node. *)
LEMMA VersionsWritten ==
    ASSUME NEW count \in 0 .. MaxPages, NEW pg, FileVersions(pg, count),
           NEW p \in 1 .. count - 1, NEW content, NodeOK(content, count)
    PROVE  FileVersions([pg EXCEPT ![p] = content], count)
<1> DEFINE pg2 == [pg EXCEPT ![p] = content]
<1>1. p \in Pages /\ p < count /\ p # HEADER_PAGE_ID /\ HEADER_PAGE_ID \in Pages
  BY TreePagesAssumption DEF Pages, HEADER_PAGE_ID
<1>2. pg2[p] = content /\ \A q \in Pages : q # p => pg2[q] = pg[q]
  BY <1>1 DEF FileVersions
<1>3. pg2 = [q \in Pages |-> pg2[q]]
  BY DEF FileVersions
<1>4. \A q \in Pages : q >= count => q # p
  BY <1>1
<1>5. \A q \in 1 .. count - 1 : q \in Pages
  BY TreePagesAssumption DEF Pages
<1> HIDE DEF pg2
<1>6. \A q \in 1 .. count - 1 : pg2[q] = Blank \/ NodeOK(pg2[q], count)
  BY <1>2, <1>5 DEF FileVersions
<1>7. FileVersions(pg2, count)
  BY <1>1, <1>2, <1>3, <1>4, <1>6 DEF FileVersions
<1> QED
  BY <1>7 DEF pg2

(* The file grows by a page, which no process has written yet. *)
LEMMA VersionsExtended ==
    ASSUME NEW count \in 0 .. MaxPages, count < MaxPages, NEW pg, FileVersions(pg, count)
    PROVE  FileVersions(pg, count + 1)
<1>1. count \in Nat /\ count \in Pages /\ HEADER_PAGE_ID \in Pages
  BY TreePagesAssumption DEF Pages, HEADER_PAGE_ID
<1>2. pg[count] = Blank
  BY <1>1 DEF FileVersions
<1>3. \A p \in 1 .. count : p = count \/ p \in 1 .. count - 1
  BY <1>1
<1>4. ASSUME NEW p \in 1 .. count
      PROVE  pg[p] = Blank \/ NodeOK(pg[p], count + 1)
  <2>1. pg[p] = Blank \/ NodeOK(pg[p], count)
    BY <1>2, <1>3 DEF FileVersions
  <2>2. count + 1 \in Nat /\ count <= count + 1
    BY <1>1
  <2> QED
    BY <1>1, <2>1, <2>2, NodeOfLarger DEF NodeOK
<1>5. pg[HEADER_PAGE_ID] \in
         {Blank} \cup {header \in Headers : header.root_page_id \in 1 .. count}
  <2>1. CASE count = 0
    BY <1>2, <2>1 DEF HEADER_PAGE_ID
  <2>2. CASE count > 0
    <3>1. \A root \in 1 .. count - 1 : root \in 1 .. count
      BY <1>1
    <3> QED
      BY <2>2, <3>1 DEF FileVersions
  <2> QED
    BY <1>1, <2>1, <2>2
<1>6. count + 1 - 1 = count /\ \A p \in Pages : p >= count + 1 => p >= count
  BY <1>1 DEF Pages
<1> QED
  BY <1>4, <1>5, <1>6 DEF FileVersions

(* A node is overwritten, in the pool. *)
LEMMA FileWritten ==
    ASSUME NEW rank, FilesOK(rank), NEW p \in Nodes, NEW content, WritePage(p, content),
           NodeOK(content, page_count), Forward(rank, p, content), UNCHANGED stored
    PROVE  /\ FilesOK(rank)'
           /\ page_count' = page_count /\ Nodes' = Nodes
           /\ pages'[p] = content /\ \A q \in Pages : q # p => pages'[q] = pages[q]
<1>1. /\ page_count' = page_count /\ pages' = [pages EXCEPT ![p] = content]
      /\ stored' = stored /\ Nodes' = Nodes
  BY DEF WritePage, Nodes
<1>2. pages'[p] = content /\ \A q \in Pages : q # p => pages'[q] = pages[q]
  BY <1>1, FileNodes DEF FilesOK, FileVersions
<1>3. FileVersions(pages', page_count)
  <2>1. page_count \in 0 .. MaxPages /\ FileVersions(pages, page_count) /\ p \in 1 .. page_count - 1
    BY DEF FilesOK, Nodes
  <2> QED
    BY <1>1, <2>1, VersionsWritten
<1>4. \A q \in Nodes : Forward(rank, q, pages'[q])
  BY <1>2, FileNodes DEF FilesOK
<1> QED
  BY <1>1, <1>2, <1>3, <1>4 DEF FilesOK

(* A node is added to the file; the leaves may get other ranks, in the order
   they had. *)
LEMMA FileExtended ==
    ASSUME NEW rank, FilesOK(rank), page_count > 0, NEW content, NewPage(content),
           content \in {EmptyLeaf, EmptyInternal}, UNCHANGED stored,
           NEW after \in [Pages -> Nat],
           \A q \in Nodes \cup {page_count} : after[q] < page_count + 1,
           \A q, r \in Nodes : rank[q] < rank[r] => after[q] < after[r]
    PROVE  /\ FilesOK(after)'
           /\ page_count < MaxPages /\ page_count' = page_count + 1
           /\ Nodes' = Nodes \cup {page_count}
           /\ pages'[page_count] = content
           /\ \A q \in Pages : q # page_count => pages'[q] = pages[q]
<1>1. PICK count : count = page_count
  OBVIOUS
<1>2. /\ count < MaxPages /\ page_count' = count + 1
      /\ pages' = [pages EXCEPT ![count] = content]
      /\ stored' = stored
  BY <1>1 DEF NewPage
<1>3. count \in Nat /\ count \in Pages /\ count \in 0 .. MaxPages /\ count \in 1 .. count + 1 - 1
  BY <1>1, <1>2, FileNodes DEF FilesOK
<1>4. Nodes' = Nodes \cup {count}
  BY <1>1, <1>2, <1>3 DEF Nodes
<1>5. pages'[count] = content /\ \A q \in Pages : q # count => pages'[q] = pages[q]
  BY <1>2, <1>3 DEF FilesOK, FileVersions
<1>6. FileVersions(pages', count + 1) /\ FileVersions(stored, count + 1)
  <2>1. FileVersions(pages, count + 1) /\ FileVersions(stored, count + 1)
    BY <1>1, <1>2, <1>3, VersionsExtended DEF FilesOK
  <2>2. count + 1 \in Nat \ {0} /\ count + 1 \in 0 .. MaxPages
    BY <1>2, <1>3, TreePagesAssumption
  <2>3. NodeOK(content, count + 1)
    BY <2>2, EmptyNodes
  <2>4. PICK larger : larger = count + 1
    OBVIOUS
  <2>5. FileVersions([pages EXCEPT ![count] = content], larger)
    <3>1. /\ larger \in 0 .. MaxPages /\ FileVersions(pages, larger)
          /\ count \in 1 .. larger - 1 /\ NodeOK(content, larger)
      BY <1>3, <2>1, <2>2, <2>3, <2>4
    <3> QED
      BY <3>1, VersionsWritten
  <2> QED
    BY <1>2, <2>1, <2>4, <2>5
<1>7. content.kind # "leaf" \/ content.next = INVALID_PAGE_ID
  BY DEF EmptyLeaf, EmptyInternal, LeafNode, InternalNode
<1>8. ASSUME NEW q \in Nodes, NEW node, node \in {pages[q], stored[q]}
      PROVE  Forward(after, q, node)
  <2>1. Forward(rank, q, node)
    BY <1>8 DEF FilesOK
  <2>2. node = Blank \/ NodeOK(node, page_count)
    BY <1>8 DEF FilesOK, FileVersions, Nodes
  <2>3. ASSUME node.kind = "leaf", node.next # INVALID_PAGE_ID
        PROVE  node.next \in Nodes
    BY <2>2, <2>3, KindOf DEF NodeOK, LeafOK, Nodes
  <2> QED
    BY <2>1, <2>3 DEF Forward
<1>9. Forward(after, count, content) /\ Forward(after, count, stored[count])
  <2>1. stored[count] = Blank
    BY <1>1, <1>3 DEF FilesOK, FileVersions
  <2> QED
    BY <1>7, <2>1, KindOf DEF Forward
<1>10. \A q \in Nodes : q \in Pages /\ q # count
  BY <1>1, FileNodes
<1>11. \A q \in Nodes' : /\ after[q] < page_count'
                         /\ Forward(after, q, pages'[q]) /\ Forward(after, q, stored'[q])
  BY <1>1, <1>2, <1>4, <1>5, <1>8, <1>9, <1>10
<1>12. page_count' \in 0 .. MaxPages
  BY <1>2, <1>3, TreePagesAssumption
<1> QED
  BY <1>1, <1>2, <1>4, <1>5, <1>6, <1>11, <1>12 DEF FilesOK

(* A node is added that no leaf points to. *)
LEMMA FileExtendedLast ==
    ASSUME NEW rank, FilesOK(rank), page_count > 0, NEW content, NewPage(content),
           content \in {EmptyLeaf, EmptyInternal}, UNCHANGED stored
    PROVE  /\ \E after : /\ FilesOK(after)' /\ \A q \in Nodes : after[q] = rank[q]
                         /\ after[page_count] = 0
           /\ page_count < MaxPages /\ page_count' = page_count + 1
           /\ Nodes' = Nodes \cup {page_count}
           /\ pages'[page_count] = content
           /\ \A q \in Pages : q # page_count => pages'[q] = pages[q]
<1>1. PICK new, after : new = page_count /\ after = [rank EXCEPT ![new] = 0]
  OBVIOUS
<1>2. page_count < MaxPages
  BY DEF NewPage
<1>3. new \in Pages /\ new \notin Nodes /\ \A q \in Nodes : q \in Pages /\ q \in Nat
  BY <1>1, <1>2, FileNodes
<1>4. after \in [Pages -> Nat] /\ after[new] = 0 /\ \A q \in Nodes : after[q] = rank[q]
  BY <1>1, <1>3 DEF FilesOK
<1>5. \A q \in Nodes \cup {page_count} : after[q] < page_count + 1
  BY <1>1, <1>3, <1>4, FileNodes DEF FilesOK
<1>6. \A q, r \in Nodes : rank[q] < rank[r] => after[q] < after[r]
  BY <1>4
<1>7. after \in [Pages -> Nat]
  BY <1>4
<1>8. /\ FilesOK(after)'
      /\ page_count < MaxPages /\ page_count' = page_count + 1
      /\ Nodes' = Nodes \cup {page_count}
      /\ pages'[page_count] = content
      /\ \A q \in Pages : q # page_count => pages'[q] = pages[q]
  BY <1>5, <1>6, <1>7, FileExtended
<1> QED
  BY <1>1, <1>4, <1>8

-----------------------------------------------------------------------------
(* Loops that follow page ids, in any file *)

(* A descent stays in the file, though it may come to a page that is no node. *)
LEMMA FileDescent ==
    ASSUME NEW rank, FilesOK(rank), NEW root \in Nodes, NEW key, NEW i \in 0 .. MaxPages
    PROVE  Descent(root, key)[i] \in 0 .. page_count - 1
<1> DEFINE d == Descent(root, key)
           Bad == {n \in Nat : n <= MaxPages /\ d[n] \notin 0 .. page_count - 1}
<1>1. d[0] = root /\ \A n \in 1 .. MaxPages : d[n] = Below(key)[d[n - 1]]
  BY DescentSteps
<1>2. ASSUME NEW p \in 0 .. page_count - 1
      PROVE  Below(key)[p] \in 0 .. page_count - 1
  <2>1. p \in Pages
    BY FileNodes DEF Pages
  <2>2. Below(key)[p] = IF IsInternal(p) THEN Child(p, key) ELSE p
    BY <2>1 DEF Below
  <2>3. ASSUME IsInternal(p)
        PROVE  Child(p, key) \in 0 .. page_count - 1
    <3>1. InternalOK(pages[p], page_count)
      BY <2>1, <2>3, FileNodes
    <3>2. PICK keys, children : keys = pages[p].keys /\ children = pages[p].children
      OBVIOUS
    <3>3. /\ keys \in Seq(Keys) /\ children \in Seq(Int) /\ Len(children) = Len(keys) + 1
          /\ \A j \in DOMAIN children : children[j] \in 0 .. page_count - 1
      BY <3>1, <3>2, KindOf DEF InternalOK
    <3>4. /\ Len(keys) \in Nat /\ DOMAIN keys = 1 .. Len(keys)
          /\ DOMAIN children = 1 .. Len(children)
      BY <3>3, LenProperties
    <3>5. child_index(keys, key) \in 0 .. Len(keys)
      BY <3>4, CountInRange DEF child_index
    <3>6. child_index(keys, key) + 1 \in DOMAIN children
      BY <3>3, <3>4, <3>5
    <3> QED
      BY <3>2, <3>3, <3>6 DEF Child
  <2> QED
    BY <2>2, <2>3
<1> HIDE DEF d
<1>3. Bad = {}
  <2>1. SUFFICES ASSUME Bad # {}
                 PROVE  FALSE
    OBVIOUS
  <2>2. PICK n \in Bad : \A m \in Bad : ~(<<m, n>> \in OpToRel(<, Nat))
    <3>1. Bad \subseteq Nat
      OBVIOUS
    <3> HIDE DEF Bad
    <3> QED
      BY <2>1, <3>1, NatLessThanWellFounded, WFMin
  <2>3. n \in Nat /\ n <= MaxPages /\ d[n] \notin 0 .. page_count - 1
    OBVIOUS
  <2>4. n # 0
    <3>1. root \in 0 .. page_count - 1
      BY FileNodes DEF Nodes
    <3> QED
      BY <1>1, <2>3, <3>1
  <2>5. n - 1 \in Nat /\ n - 1 < n /\ n - 1 <= MaxPages /\ n \in 1 .. MaxPages
    BY <2>3, <2>4, TreePagesAssumption
  <2>6. d[n - 1] \in 0 .. page_count - 1
    <3>1. n - 1 \notin Bad
      BY <2>2, <2>3, <2>5 DEF OpToRel
    <3> QED
      BY <2>5, <3>1
  <2> QED
    BY <1>1, <1>2, <2>3, <2>5, <2>6
<1> QED
  BY <1>3, TreePagesAssumption DEF d

(* A descent in any file: internal nodes, and then one page only. *)
LEMMA FileWay ==
    ASSUME NEW rank, FilesOK(rank), root_page_id_ \in Nodes, NEW key
    PROVE  /\ PathTo(root_page_id_, key) \in Seq(Nodes)
           /\ \A i \in DOMAIN PathTo(root_page_id_, key) :
                 IsInternal(PathTo(root_page_id_, key)[i])
           /\ IsLeaf(LeafFor(key)) => LeafFor(key) \in Nodes
<1> DEFINE root == root_page_id_
           d == Descent(root, key)
           above == PathTo(root, key)
           Down == {i \in 0 .. MaxPages : IsInternal(d[i])}
           Rest == {n \in Nat : n \notin Down}
<1>1. MaxPages \in Nat /\ \A n \in 1 .. MaxPages : d[n] = Below(key)[d[n - 1]]
  BY DescentSteps, TreePagesAssumption
<1>2. \A i \in 0 .. MaxPages : d[i] \in Pages
  <2>1. \A p \in 0 .. page_count - 1 : p \in Pages
    BY FileNodes DEF Pages
  <2> QED
    BY <2>1, FileDescent
<1>3. \A p \in Pages : IsLeaf(p) \/ IsInternal(p) => p \in Nodes
  BY FileNodes
\* The first page that is not internal is where it stays.
<1>4. PICK m \in Rest : \A n \in Rest : ~(<<n, m>> \in OpToRel(<, Nat))
  <2>1. MaxPages + 1 \in Rest /\ Rest \subseteq Nat
    BY <1>1
  <2> HIDE DEF Rest
  <2> QED
    BY <2>1, NatLessThanWellFounded, WFMin
<1>5. m \in Nat /\ m \notin Down /\ \A n \in Nat : n < m => n \in Down
  BY <1>4 DEF OpToRel
<1> HIDE DEF d
<1>6. ASSUME NEW n \in Down, m <= n
      PROVE  FALSE
  <2> DEFINE Later == {i \in Nat : m <= i /\ i \in Down}
  <2>1. PICK i \in Later : \A j \in Later : ~(<<j, i>> \in OpToRel(<, Nat))
    <3>1. n \in Later /\ Later \subseteq Nat
      BY <1>1, <1>6
    <3> HIDE DEF Later
    <3> QED
      BY <3>1, NatLessThanWellFounded, WFMin
  <2>2. i \in Nat /\ m <= i /\ i \in Down /\ i # m
    BY <1>5
  <2>3. i - 1 \in Nat /\ i - 1 < i /\ m <= i - 1 /\ i \in 1 .. MaxPages /\ i - 1 \in 0 .. MaxPages
    BY <1>1, <1>5, <2>2
  <2>4. ~IsInternal(d[i - 1])
    <3>1. i - 1 \notin Later
      BY <2>1, <2>2, <2>3 DEF OpToRel
    <3> QED
      BY <2>3, <3>1
  <2>5. d[i] = d[i - 1]
    BY <1>1, <1>2, <2>3, <2>4 DEF Below
  <2> QED
    BY <2>2, <2>4, <2>5
<1>7. Down = 0 .. m - 1
  <2>1. \A n \in Down : n \in Nat /\ n < m
    BY <1>1, <1>5, <1>6
  <2>2. m \in Nat /\ \A n \in Nat : n < m => n \in Down
    BY <1>5
  <2> HIDE DEF Down
  <2>3. \A n : n \in Down <=> n \in 0 .. m - 1
    BY <2>1, <2>2
  <2> QED
    BY <2>3
<1>8. Depth(root, key) = m
  <2>1. Cardinality(0 .. m - 1) = IF 0 > m - 1 THEN 0 ELSE m - 1 - 0 + 1
    BY <1>5, FS_Interval
  <2>2. Depth(root, key) = Cardinality(Down)
    BY DEF Depth, d
  <2> HIDE DEF Down
  <2> QED
    BY <1>5, <1>7, <2>1, <2>2
<1>9. above = [i \in 1 .. m |-> d[i - 1]]
  BY <1>8 DEF PathTo, d
<1>10. ASSUME NEW i \in 1 .. m
       PROVE  d[i - 1] \in Nodes /\ IsInternal(d[i - 1])
  <2>1. i - 1 \in Down
    BY <1>5, <1>7
  <2> QED
    BY <1>2, <1>3, <2>1
<1> HIDE DEF above
<1>11. above \in [1 .. m -> Nodes]
  BY <1>9, <1>10
<1>12. above \in Seq(Nodes) /\ DOMAIN above = 1 .. m
  BY <1>5, <1>11
<1>13. \A i \in DOMAIN above : IsInternal(above[i])
  BY <1>9, <1>10, <1>12
<1>14. IsLeaf(LeafFor(key)) => LeafFor(key) \in Nodes
  <2>1. LeafFor(key) = d[MaxPages]
    BY DEF LeafFor, find_leaf_page, d
  <2> QED
    BY <1>1, <1>2, <1>3, <2>1
<1> QED
  BY <1>12, <1>13, <1>14 DEF above

(* The ranks go up along a chain, through leaves of whatever moment. *)
LEMMA FileChainEnds ==
    ASSUME NEW rank, FilesOK(rank), NEW p \in Nodes, IsLeaf(p)
    PROVE  Chain(p)[MaxPages] \notin {q \in Pages : IsLeaf(q)}
<1> DEFINE c == Chain(p)
           Ended(q) == q \in Pages \cup {INVALID_PAGE_ID} /\ q \notin {s \in Nodes : IsLeaf(s)}
           Holds(n) == \/ Ended(c[n])
                       \/ c[n] \in Nodes /\ IsLeaf(c[n]) /\ n <= rank[c[n]]
           Bad == {n \in Nat : n <= MaxPages /\ ~Holds(n)}
<1>1. c[0] = p /\ \A n \in 1 .. MaxPages : c[n] = NextLeaf[c[n - 1]]
  BY ChainSteps
<1>2. \A q \in Nodes : q \in Pages /\ rank[q] \in Nat /\ rank[q] < page_count
  BY FileNodes DEF FilesOK
<1>3. \A q \in Pages : q # INVALID_PAGE_ID
  BY DEF Pages, INVALID_PAGE_ID
<1>4. \A q \in Pages : IsLeaf(q) => q \in Nodes
  BY FileNodes
<1>5. ASSUME NEW q \in Pages \cup {INVALID_PAGE_ID}, q \notin {s \in Nodes : IsLeaf(s)}
      PROVE  NextLeaf[q] = q
  BY <1>4, <1>5 DEF NextLeaf
<1>6. ASSUME NEW q \in Nodes, IsLeaf(q)
      PROVE  \/ NextLeaf[q] = INVALID_PAGE_ID
             \/ NextLeaf[q] \in Nodes /\ rank[q] < rank[NextLeaf[q]]
  <2>1. NextLeaf[q] = pages[q].next
    BY <1>2, <1>3, <1>6 DEF NextLeaf
  <2>2. pages[q].next \in Nodes \cup {INVALID_PAGE_ID}
    BY <1>6, FileNodes DEF LeafOK, Nodes
  <2>3. pages[q].next # INVALID_PAGE_ID => rank[q] < rank[pages[q].next]
    BY <1>6 DEF FilesOK, Forward, IsLeaf
  <2> QED
    BY <2>1, <2>2, <2>3
<1> HIDE DEF c
<1>7. Bad = {}
  <2>1. SUFFICES ASSUME Bad # {}
                 PROVE  FALSE
    OBVIOUS
  <2>2. PICK n \in Bad : \A m \in Bad : ~(<<m, n>> \in OpToRel(<, Nat))
    <3>1. Bad \subseteq Nat
      OBVIOUS
    <3> HIDE DEF Bad
    <3> QED
      BY <2>1, <3>1, NatLessThanWellFounded, WFMin
  <2>3. n \in Nat /\ n <= MaxPages /\ ~Holds(n)
    OBVIOUS
  <2>4. n # 0
    BY <1>1, <1>2, <2>3
  <2>5. n - 1 \in Nat /\ n - 1 < n /\ n - 1 <= MaxPages /\ n \in 1 .. MaxPages
    BY <2>3, <2>4, TreePagesAssumption
  <2>6. Holds(n - 1)
    <3>1. n - 1 \notin Bad
      BY <2>2, <2>3, <2>5 DEF OpToRel
    <3> QED
      BY <2>5, <3>1
  <2>7. c[n] = NextLeaf[c[n - 1]]
    BY <1>1, <2>5
  <2>8. CASE Ended(c[n - 1])
    BY <1>5, <2>3, <2>7, <2>8
  <2>9. CASE c[n - 1] \in Nodes /\ IsLeaf(c[n - 1]) /\ n - 1 <= rank[c[n - 1]]
    <3>1. \/ c[n] = INVALID_PAGE_ID
          \/ c[n] \in Nodes /\ rank[c[n - 1]] < rank[c[n]]
      BY <1>6, <2>7, <2>9
    <3>2. c[n] # INVALID_PAGE_ID /\ c[n] \in Pages
      BY <1>2, <1>3, <2>3, <3>1
    <3>3. c[n] \in Nodes /\ IsLeaf(c[n])
      BY <2>3, <3>2
    <3>4. n <= rank[c[n]]
      BY <1>2, <2>5, <2>9, <3>1, <3>2, <3>3
    <3> QED
      BY <2>3, <3>3, <3>4
  <2> QED
    BY <2>6, <2>8, <2>9
<1>8. Holds(MaxPages)
  BY <1>7, TreePagesAssumption
<1>9. ASSUME c[MaxPages] \in Nodes, MaxPages <= rank[c[MaxPages]]
      PROVE  FALSE
  BY <1>2, <1>9, FileNodes
<1>10. c[MaxPages] \notin {q \in Pages : IsLeaf(q)}
  BY <1>2, <1>3, <1>4, <1>8, <1>9
<1> QED
  BY <1>10 DEF c

-----------------------------------------------------------------------------
(* One lemma for each action *)

(* What an insertion puts in the leaf it reaches. *)
LEMMA FileLeaf ==
    ASSUME NEW rank, FilesOK(rank), NEW leaf \in Nodes, IsLeaf(leaf),
           NEW key \in Keys, NEW rid \in Rids, leaf = LeafFor(key)
    PROVE  /\ Values(key, rid) \in Seq(Entry)
           /\ Len(Values(key, rid)) <= MAX_LEAF_ENTRIES + 1
           /\ pages[leaf].next \in Nodes \cup {INVALID_PAGE_ID}
           /\ pages[leaf].next # INVALID_PAGE_ID => rank[leaf] < rank[pages[leaf].next]
<1>1. LeafOK(pages[leaf], page_count)
  BY FileNodes
<1>2. pages[leaf].entries \in Seq(Entry) /\ Len(pages[leaf].entries) <= MAX_LEAF_ENTRIES
  BY <1>1, KindOf DEF LeafOK, LeafFits
<1>3. /\ Values(key, rid) \in Seq(Entry)
      /\ Len(Values(key, rid)) \in {Len(pages[leaf].entries), Len(pages[leaf].entries) + 1}
  BY <1>2, PutEntryProperties DEF Values
<1>4. Len(Values(key, rid)) \in Nat /\ Len(pages[leaf].entries) \in Nat
  BY <1>2, <1>3, LenProperties
<1>5. pages[leaf].next \in Nodes \cup {INVALID_PAGE_ID}
  BY <1>1 DEF LeafOK, Nodes
<1>6. pages[leaf].next # INVALID_PAGE_ID => rank[leaf] < rank[pages[leaf].next]
  BY DEF FilesOK, Forward, IsLeaf
<1> QED
  BY <1>2, <1>3, <1>4, <1>5, <1>6, LeafSizeAssumption

LEMMA FileInsertInLeaf ==
    ASSUME FileInv, NEW key \in Keys, NEW rid \in Rids, InsertInLeaf(key, rid), UNCHANGED stored
    PROVE  FileInv' /\ HeaderKept
<1>1. PICK rank : FilesOK(rank) /\ SplitInFile(rank)
  BY DEF FileInv
<1>2. PICK leaf, content : leaf = LeafFor(key) /\ content = LeafNode(Values(key, rid), pages[leaf].next)
  OBVIOUS
<1>3. /\ at = "idle" /\ at' = at /\ IsLeaf(leaf) /\ LeafFits(Values(key, rid))
      /\ WritePage(leaf, content)
      /\ root_page_id_' = root_page_id_ /\ height_' = height_
  BY <1>2 DEF InsertInLeaf
<1>4. leaf \in Nodes
  BY <1>1, <1>2, <1>3, FileWay DEF FileInv, MembersInFile
<1>5. /\ Values(key, rid) \in Seq(Entry)
      /\ pages[leaf].next \in Nodes \cup {INVALID_PAGE_ID}
      /\ pages[leaf].next # INVALID_PAGE_ID => rank[leaf] < rank[pages[leaf].next]
  BY <1>1, <1>2, <1>3, <1>4, FileLeaf
<1>6. content.kind = "leaf" /\ content.next = pages[leaf].next
  BY <1>2 DEF LeafNode
<1>7. LeafOK(content, page_count)
  BY <1>1, <1>2, <1>3, <1>5, FileNodes DEF LeafOK, Leaves, LeafNode, Nodes, INVALID_PAGE_ID
<1>8. Forward(rank, leaf, content)
  BY <1>5, <1>6 DEF Forward
<1>9. /\ FilesOK(rank)' /\ Nodes' = Nodes /\ page_count' = page_count
      /\ \A q \in Pages : q # leaf => pages'[q] = pages[q]
  BY <1>1, <1>3, <1>4, <1>7, <1>8, FileWritten DEF NodeOK
<1>10. MembersInFile'
  BY <1>3, <1>9 DEF FileInv, MembersInFile
<1>11. SplitInFile(rank)'
  BY <1>3 DEF SplitInFile
<1>12. HeaderKept
  BY <1>1, <1>4, <1>9, FileNodes DEF HeaderKept
<1> QED
  BY <1>9, <1>10, <1>11, <1>12 DEF FileInv

LEMMA FileSplitLeaf ==
    ASSUME FileInv, NEW key \in Keys, NEW rid \in Rids, SplitLeaf(key, rid), UNCHANGED stored
    PROVE  FileInv' /\ HeaderKept
<1>1. PICK rank : FilesOK(rank) /\ SplitInFile(rank)
  BY DEF FileInv
<1>2. PICK leaf, new, values, next :
         leaf = LeafFor(key) /\ new = page_count /\ values = Values(key, rid) /\ next = pages[leaf].next
  OBVIOUS
<1>3. /\ at = "idle" /\ at' = "left" /\ IsLeaf(leaf) /\ ~LeafFits(values)
      /\ NewPage(EmptyLeaf)
      /\ root_page_id_' = root_page_id_ /\ height_' = height_
      /\ path' = PathTo(root_page_id_, key)
  BY <1>2 DEF SplitLeaf
<1>4. /\ split'.page = leaf /\ split'.left = LeafNode(Left(values), new)
      /\ split'.right_page = new /\ split'.right = LeafNode(Right(values), next)
      /\ split'.separator = Right(values)[1].key
  BY <1>2 DEF SplitLeaf, LeafSplit
<1>5. /\ root_page_id_ \in Nodes /\ leaf \in Nodes
      /\ path' \in Seq(Nodes) /\ \A i \in DOMAIN path' : IsInternal(path'[i])
  BY <1>1, <1>2, <1>3, FileWay DEF FileInv, MembersInFile
<1>6. /\ values \in Seq(Entry) /\ Len(values) <= MAX_LEAF_ENTRIES + 1
      /\ next \in Nodes \cup {INVALID_PAGE_ID}
      /\ next # INVALID_PAGE_ID => rank[leaf] < rank[next]
  BY <1>1, <1>2, <1>3, <1>5, FileLeaf
<1>7. /\ Left(values) \in Seq(Entry) /\ LeafFits(Left(values))
      /\ Right(values) \in Seq(Entry) /\ LeafFits(Right(values))
      /\ Right(values)[1].key \in Keys
  <2>1. Len(values) = MAX_LEAF_ENTRIES + 1
    <3>1. Len(values) \in Nat
      BY <1>6, LenProperties
    <3> QED
      BY <1>3, <1>6, <3>1, LeafSizeAssumption DEF LeafFits
  <2> QED
    BY <1>6, <2>1, HalvesFit
\* The new leaf goes behind the one that is split.
<1> DEFINE r == [q \in Pages |-> IF q = new THEN rank[leaf] + 1
                                 ELSE IF rank[leaf] < rank[q] THEN rank[q] + 1 ELSE rank[q]]
<1>8. /\ page_count \in Nat /\ page_count > 0 /\ new \in Pages /\ new \notin Nodes
      /\ \A q \in Nodes : q \in Pages
  <2>1. page_count < MaxPages
    BY <1>3 DEF NewPage
  <2>2. page_count > 0
    BY <1>1, <1>5, FileNodes
  <2> QED
    BY <1>1, <1>2, <2>1, <2>2, FileNodes
<1>9. /\ r \in [Pages -> Nat] /\ r[new] = rank[leaf] + 1
      /\ \A q \in Nodes : r[q] = IF rank[leaf] < rank[q] THEN rank[q] + 1 ELSE rank[q]
  <2>1. leaf \in Pages /\ \A q \in Pages : rank[q] \in Nat
    BY <1>1, <1>5, <1>8 DEF FilesOK
  <2>2. r \in [Pages -> Nat]
    BY <2>1
  <2>3. r[new] = rank[leaf] + 1
    BY <1>8
  <2>4. \A q \in Nodes : q # new /\ q \in Pages
    BY <1>8
  <2> QED
    BY <2>2, <2>3, <2>4
<1>10. \A q \in Nodes : rank[q] \in Nat /\ rank[q] < page_count
  BY <1>1, <1>8 DEF FilesOK
<1> HIDE DEF r
<1>11. /\ FilesOK(r)'
       /\ page_count' = page_count + 1 /\ Nodes' = Nodes \cup {new}
       /\ pages'[new] = EmptyLeaf /\ \A q \in Pages : q # new => pages'[q] = pages[q]
  <2>1. \A q \in Nodes \cup {page_count} : r[q] < page_count + 1
    BY <1>2, <1>5, <1>8, <1>9, <1>10
  <2>2. ASSUME NEW q \in Nodes, NEW s \in Nodes, rank[q] < rank[s]
        PROVE  r[q] < r[s]
    <3>1. rank[leaf] \in Nat /\ rank[q] \in Nat /\ rank[s] \in Nat
      BY <1>5, <1>10
    <3>2. /\ r[q] = IF rank[leaf] < rank[q] THEN rank[q] + 1 ELSE rank[q]
          /\ r[s] = IF rank[leaf] < rank[s] THEN rank[s] + 1 ELSE rank[s]
      BY <1>9
    <3> QED
      BY <2>2, <3>1, <3>2
  <2>3. r \in [Pages -> Nat]
    BY <1>9
  <2> QED
    BY <1>1, <1>2, <1>3, <1>8, <2>1, <2>2, <2>3, FileExtended
<1>12. \A q \in Nodes : pages'[q] = pages[q]
  BY <1>8, <1>11
<1>13. HalvesInFile(r)'
  <2>1. pages'[leaf].kind = "leaf" /\ pages'[new].kind = "leaf"
    BY <1>3, <1>5, <1>11, <1>12 DEF IsLeaf, EmptyLeaf, LeafNode
  <2>2. LeafOK(split'.left, page_count') /\ LeafOK(split'.right, page_count')
    <3>1. /\ new \in Int /\ new \in 1 .. page_count' - 1
          /\ next \in Int /\ next \in 1 .. page_count' - 1 \cup {INVALID_PAGE_ID}
      BY <1>2, <1>6, <1>8, <1>11 DEF Nodes, INVALID_PAGE_ID
    <3> QED
      BY <1>4, <1>7, <3>1 DEF LeafOK, LeafNode, Leaves
  <2>3. split'.left.next = new /\ split'.right.next = next
    BY <1>4 DEF LeafNode
  <2>4. r[leaf] < r[new]
    BY <1>5, <1>9, <1>10
  <2>5. next # INVALID_PAGE_ID => r[new] < r[next]
    BY <1>5, <1>6, <1>9, <1>10
  <2> QED
    BY <1>4, <2>1, <2>2, <2>3, <2>4, <2>5 DEF HalvesInFile, IsLeaf, Forward
<1>14. WayUpInFile'
  <2>1. path' \in Seq(Nodes')
    BY <1>5, <1>11, SeqMonotonic
  <2>2. \A i \in DOMAIN path' : path'[i] \in Nodes
    BY <1>5, LenProperties, ElementOfSeq
  <2>3. \A i \in DOMAIN path' : pages'[path'[i]].kind = "internal"
    BY <1>5, <1>12, <2>2 DEF IsInternal
  <2> QED
    BY <1>4, <1>5, <1>7, <1>11, <2>1, <2>3 DEF WayUpInFile, IsInternal
<1>15. MembersInFile'
  BY <1>3, <1>5, <1>11 DEF FileInv, MembersInFile
<1>16. HeaderKept
  BY <1>1, <1>2, <1>8, <1>11, FileNodes DEF HeaderKept, HEADER_PAGE_ID
<1> QED
  BY <1>3, <1>11, <1>13, <1>14, <1>15, <1>16 DEF FileInv, SplitInFile

(* A write, or a new page, leaves the way up as it is. *)
LEMMA FileWayKept ==
    ASSUME WayUpInFile, Nodes \subseteq Nodes', UNCHANGED <<split, path>>,
           \A q \in Nodes : IsInternal(q) => IsInternal(q)'
    PROVE  WayUpInFile'
<1>1. path \in Seq(Nodes) /\ \A i \in DOMAIN path : IsInternal(path[i])
  BY DEF WayUpInFile
<1>2. path \in Seq(Nodes')
  BY <1>1, SeqMonotonic
<1>3. \A i \in DOMAIN path : path[i] \in Nodes
  BY <1>1, LenProperties, ElementOfSeq
<1>4. \A i \in DOMAIN path : pages'[path[i]].kind = "internal"
  BY <1>1, <1>3 DEF IsInternal
<1> QED
  BY <1>2, <1>4 DEF WayUpInFile, IsInternal

(* The left half, or the right one, is written. *)
LEMMA FileHalfWritten ==
    ASSUME FileInv, at \in {"left", "right"},
           NEW p, NEW content,
           \/ p = split.page /\ content = split.left
           \/ p = split.right_page /\ content = split.right,
           WritePage(p, content), UNCHANGED <<stored, root_page_id_, height_, split, path>>,
           at' \in {"right", "up"}
    PROVE  FileInv' /\ HeaderKept
<1>1. PICK rank : FilesOK(rank) /\ SplitInFile(rank)
  BY DEF FileInv
<1>2. HalvesInFile(rank) /\ WayUpInFile
  BY <1>1 DEF SplitInFile
<1>3. /\ p \in Nodes /\ Forward(rank, p, content)
      /\ \/ IsLeaf(p) /\ LeafOK(content, page_count)
         \/ IsInternal(p) /\ InternalOK(content, page_count)
  BY <1>2 DEF HalvesInFile, WayUpInFile
<1>4. /\ FilesOK(rank)' /\ page_count' = page_count /\ Nodes' = Nodes
      /\ pages'[p] = content /\ \A q \in Pages : q # p => pages'[q] = pages[q]
  BY <1>1, <1>3, FileWritten DEF NodeOK
<1>5. \A q \in Nodes : q \in Pages
  BY <1>1, FileNodes
<1>6. content.kind = pages[p].kind
  BY <1>3, KindOf DEF IsLeaf, IsInternal
<1>7. \A q \in Nodes : pages'[q].kind = pages[q].kind
  BY <1>4, <1>5, <1>6
<1>8. WayUpInFile'
  BY <1>2, <1>4, <1>7, FileWayKept DEF IsInternal
<1>9. HalvesInFile(rank)'
  <2>1. split.page \in Nodes /\ split.right_page \in Nodes
    BY <1>2 DEF WayUpInFile
  <2> QED
    BY <1>2, <1>4, <1>7, <2>1 DEF HalvesInFile, IsLeaf, IsInternal
<1>10. MembersInFile'
  BY <1>4 DEF FileInv, MembersInFile
<1>11. HeaderKept
  BY <1>1, <1>3, <1>4, FileNodes DEF HeaderKept
<1> QED
  BY <1>4, <1>8, <1>9, <1>10, <1>11 DEF FileInv, SplitInFile

(* The parent of a node that is split, with the new child. *)
LEMMA FileParent ==
    ASSUME NEW rank, FilesOK(rank), WayUpInFile, path # <<>>,
           NEW C, C = 0 .. page_count - 1
    PROVE  /\ Parent \in Nodes /\ IsInternal(Parent)
           /\ ParentNode = InternalNode(ParentNode.keys, ParentNode.children)
           /\ ParentNode.keys \in Seq(Keys)
           /\ Len(ParentNode.keys) <= MAX_INTERNAL_KEYS + 1
           /\ ParentNode.children \in Seq(C)
           /\ Len(ParentNode.children) = Len(ParentNode.keys) + 1
           /\ Front(path) \in Seq(Nodes)
           /\ \A i \in DOMAIN Front(path) : IsInternal(Front(path)[i])
<1>1. /\ path \in Seq(Nodes) /\ \A i \in DOMAIN path : IsInternal(path[i])
      /\ Len(path) \in Nat \ {0} /\ DOMAIN path = 1 .. Len(path)
  <2>1. path \in Seq(Nodes) /\ \A i \in DOMAIN path : IsInternal(path[i])
    BY DEF WayUpInFile
  <2> QED
    BY <2>1, LenProperties, EmptySeq
<1>2. Parent \in Nodes /\ IsInternal(Parent)
  BY <1>1, ElementOfSeq DEF Parent, Last
<1>3. InternalOK(pages[Parent], page_count)
  BY <1>2, FileNodes
<1>4. PICK keys, children, separator, right_page :
         /\ keys = pages[Parent].keys /\ children = pages[Parent].children
         /\ separator = split.separator /\ right_page = split.right_page
  OBVIOUS
<1>5. /\ pages[Parent] = InternalNode(keys, children)
      /\ keys \in Seq(Keys) /\ Len(keys) <= MAX_INTERNAL_KEYS
      /\ children \in Seq(Int) /\ Len(children) = Len(keys) + 1
      /\ \A i \in DOMAIN children : children[i] \in C
  BY <1>3, <1>4, KindOf DEF InternalOK, InternalFits
<1>6. children \in Seq(C)
  BY <1>5, RetypedSeq
<1>7. separator \in Keys /\ right_page \in C /\ C \in SUBSET Int
  <2>1. right_page \in Nodes /\ separator \in Keys
    BY <1>4 DEF WayUpInFile
  <2> QED
    BY <2>1, FileNodes DEF Nodes
<1>8. PICK put : put = PutChild(InternalNode(keys, children), separator, right_page)
  OBVIOUS
<1>9. /\ put = InternalNode(put.keys, put.children)
      /\ put.keys \in Seq(Keys) /\ Len(put.keys) = Len(keys) + 1
      /\ put.children \in Seq(C) /\ Len(put.children) = Len(put.keys) + 1
  BY <1>5, <1>6, <1>7, <1>8, PutChildProperties
<1>10. ParentNode = put
  BY <1>4, <1>5, <1>8 DEF ParentNode
<1>11. Len(put.keys) <= MAX_INTERNAL_KEYS + 1
  BY <1>5, <1>9, LenProperties, InternalSizeAssumption
<1>12. /\ Front(path) \in Seq(Nodes)
       /\ \A i \in DOMAIN Front(path) : IsInternal(Front(path)[i])
  <2>1. /\ Front(path) \in Seq(Nodes) /\ DOMAIN Front(path) = 1 .. Len(path) - 1
        /\ \A i \in 1 .. Len(path) - 1 : Front(path)[i] = path[i]
    BY <1>1, FrontOfSeq
  <2> QED
    BY <1>1, <2>1
<1> QED
  BY <1>2, <1>9, <1>10, <1>11, <1>12

LEMMA FileInsertInParent ==
    ASSUME FileInv, InsertInParent, UNCHANGED stored
    PROVE  FileInv' /\ HeaderKept
<1>1. PICK rank : FilesOK(rank) /\ SplitInFile(rank)
  BY DEF FileInv
<1>2. /\ at = "up" /\ path # <<>> /\ at' = "idle" /\ InternalFits(ParentNode)
      /\ WritePage(Parent, ParentNode)
      /\ root_page_id_' = root_page_id_ /\ height_' = height_
  BY DEF InsertInParent
<1>3. PICK C, node, p : C = 0 .. page_count - 1 /\ node = ParentNode /\ p = Parent
  OBVIOUS
<1>4. WayUpInFile
  BY <1>1, <1>2 DEF SplitInFile
<1>5. /\ p \in Nodes
      /\ node = InternalNode(node.keys, node.children)
      /\ node.keys \in Seq(Keys) /\ node.children \in Seq(C)
      /\ Len(node.children) = Len(node.keys) + 1
  BY <1>1, <1>2, <1>3, <1>4, FileParent
<1>6. Len(node.keys) <= MAX_INTERNAL_KEYS
  BY <1>2, <1>3 DEF InternalFits
<1>7. InternalOK(node, page_count)
  <2>1. PICK count : count = page_count
    OBVIOUS
  <2>2. count \in Nat /\ C \in SUBSET (0 .. count - 1)
    BY <1>1, <1>3, <2>1, FileNodes
  <2>3. InternalOK(node, count)
    BY <1>5, <1>6, <2>2, InternalFromParts
  <2> QED
    BY <2>1, <2>3
<1>8. Forward(rank, p, node)
  BY <1>7, KindOf DEF Forward
<1>9. /\ FilesOK(rank)' /\ page_count' = page_count /\ Nodes' = Nodes
      /\ \A q \in Pages : q # p => pages'[q] = pages[q]
  BY <1>1, <1>2, <1>3, <1>5, <1>7, <1>8, FileWritten DEF NodeOK
<1>10. MembersInFile'
  BY <1>2, <1>9 DEF FileInv, MembersInFile
<1>11. HeaderKept
  BY <1>1, <1>5, <1>9, FileNodes DEF HeaderKept
<1> QED
  BY <1>2, <1>9, <1>10, <1>11 DEF FileInv, SplitInFile

LEMMA FileSplitParent ==
    ASSUME FileInv, SplitParent, UNCHANGED stored
    PROVE  FileInv' /\ HeaderKept
<1>1. PICK rank : FilesOK(rank) /\ SplitInFile(rank)
  BY DEF FileInv
<1>2. PICK C, node, parent, new :
         C = 0 .. page_count - 1 /\ node = ParentNode /\ parent = Parent /\ new = page_count
  OBVIOUS
<1>3. /\ at = "up" /\ path # <<>> /\ at' = "left" /\ ~InternalFits(node)
      /\ NewPage(EmptyInternal) /\ path' = Front(path)
      /\ root_page_id_' = root_page_id_ /\ height_' = height_
  BY <1>2 DEF SplitParent
<1>4. /\ split'.page = parent /\ split'.left = LeftInternal(node)
      /\ split'.right_page = new /\ split'.right = RightInternal(node)
      /\ split'.separator = promoted(node)
  BY <1>2 DEF SplitParent
<1>5. WayUpInFile
  BY <1>1, <1>3 DEF SplitInFile
<1>6. /\ parent \in Nodes /\ IsInternal(parent)
      /\ node = InternalNode(node.keys, node.children)
      /\ node.keys \in Seq(Keys) /\ Len(node.keys) <= MAX_INTERNAL_KEYS + 1
      /\ node.children \in Seq(C)
      /\ Len(node.children) = Len(node.keys) + 1
      /\ Front(path) \in Seq(Nodes)
      /\ \A i \in DOMAIN Front(path) : IsInternal(Front(path)[i])
  BY <1>1, <1>2, <1>3, <1>5, FileParent
<1>7. Len(node.keys) = MAX_INTERNAL_KEYS + 1
  <2>1. Len(node.keys) \in Nat
    BY <1>6, LenProperties
  <2> QED
    BY <1>3, <1>6, <2>1, InternalSizeAssumption DEF InternalFits
<1>8. page_count \in Nat /\ page_count > 0 /\ \A q \in Nodes : q \in Pages /\ q # new
  BY <1>1, <1>2, <1>6, FileNodes
<1>9. PICK after :
         /\ FilesOK(after)'
         /\ page_count' = page_count + 1 /\ Nodes' = Nodes \cup {new}
         /\ pages'[new] = EmptyInternal /\ \A q \in Pages : q # new => pages'[q] = pages[q]
  BY <1>1, <1>2, <1>3, <1>8, FileExtendedLast
<1>10. \A q \in Nodes : pages'[q] = pages[q]
  BY <1>8, <1>9
<1>11. /\ promoted(node) \in Keys
       /\ \A half \in {LeftInternal(node), RightInternal(node)} :
             /\ half = InternalNode(half.keys, half.children)
             /\ half.keys \in Seq(Keys) /\ Len(half.keys) <= MAX_INTERNAL_KEYS
             /\ half.children \in Seq(C)
             /\ Len(half.children) = Len(half.keys) + 1
  <2>1. PICK keys, children : keys = node.keys /\ children = node.children
    OBVIOUS
  <2>2. /\ keys \in Seq(Keys) /\ Len(keys) = MAX_INTERNAL_KEYS + 1
        /\ children \in Seq(C) /\ Len(children) = Len(keys) + 1
        /\ node = InternalNode(keys, children) /\ C \in SUBSET Int
    BY <1>2, <1>6, <1>7, <1>8, <2>1
  <2> QED
    BY <2>2, InternalHalves
<1>12. ASSUME NEW half \in {split'.left, split'.right}
       PROVE  InternalOK(half, page_count')
  <2>1. /\ half = InternalNode(half.keys, half.children)
        /\ half.keys \in Seq(Keys) /\ Len(half.keys) <= MAX_INTERNAL_KEYS
        /\ half.children \in Seq(C)
        /\ Len(half.children) = Len(half.keys) + 1
    BY <1>4, <1>11
  <2>2. page_count' \in Nat /\ C \in SUBSET (0 .. page_count' - 1)
    BY <1>2, <1>8, <1>9
  <2> QED
    BY <2>1, <2>2, InternalFromParts
<1>13. HalvesInFile(after)'
  <2>1. pages'[parent].kind = "internal" /\ pages'[new].kind = "internal"
    BY <1>6, <1>9, <1>10 DEF IsInternal, EmptyInternal, InternalNode
  <2>2. split'.left.kind # "leaf" /\ split'.right.kind # "leaf"
    BY <1>12, KindOf
  <2>3. InternalOK(split'.left, page_count') /\ InternalOK(split'.right, page_count')
    BY <1>12
  <2> QED
    BY <1>4, <2>1, <2>2, <2>3 DEF HalvesInFile, IsInternal, Forward
<1>14. WayUpInFile'
  <2>1. path' \in Seq(Nodes')
    BY <1>3, <1>6, <1>9, SeqMonotonic
  <2>2. \A i \in DOMAIN path' : path'[i] \in Nodes /\ IsInternal(path'[i])
    BY <1>3, <1>6, LenProperties, ElementOfSeq
  <2>3. \A i \in DOMAIN path' : pages'[path'[i]].kind = "internal"
    BY <1>10, <2>2 DEF IsInternal
  <2> QED
    BY <1>4, <1>6, <1>9, <1>11, <2>1, <2>3 DEF WayUpInFile, IsInternal
<1>15. MembersInFile'
  BY <1>3, <1>9 DEF FileInv, MembersInFile
<1>16. HeaderKept
  BY <1>1, <1>2, <1>8, <1>9, FileNodes DEF HeaderKept, HEADER_PAGE_ID
<1> QED
  BY <1>3, <1>9, <1>13, <1>14, <1>15, <1>16 DEF FileInv, SplitInFile

LEMMA FileCreateRoot ==
    ASSUME FileInv, CreateRoot, UNCHANGED stored
    PROVE  FileInv' /\ HeaderKept
<1>1. PICK rank : FilesOK(rank) /\ SplitInFile(rank)
  BY DEF FileInv
<1>2. /\ at = "up" /\ at' = "root" /\ NewPage(EmptyInternal)
      /\ UNCHANGED <<root_page_id_, height_, split, path>>
  BY DEF CreateRoot
<1>3. WayUpInFile /\ root_page_id_ \in Nodes
  BY <1>1, <1>2 DEF SplitInFile, FileInv, MembersInFile
<1>4. PICK new : new = page_count
  OBVIOUS
<1>5. page_count \in Nat /\ page_count > 0 /\ \A q \in Nodes : q \in Pages /\ q # new
  BY <1>1, <1>3, <1>4, FileNodes
<1>6. PICK after :
         /\ FilesOK(after)'
         /\ page_count' = page_count + 1 /\ Nodes' = Nodes \cup {new}
         /\ \A q \in Pages : q # new => pages'[q] = pages[q]
  BY <1>1, <1>2, <1>4, <1>5, FileExtendedLast
<1>7. \A q \in Nodes : IsInternal(q) => IsInternal(q)'
  BY <1>5, <1>6 DEF IsInternal
<1>8. WayUpInFile'
  BY <1>2, <1>3, <1>6, <1>7, FileWayKept
<1>9. MembersInFile'
  BY <1>2, <1>3, <1>6 DEF FileInv, MembersInFile
<1>10. HeaderKept
  BY <1>1, <1>4, <1>5, <1>6, FileNodes DEF HeaderKept, HEADER_PAGE_ID
<1> QED
  BY <1>2, <1>6, <1>8, <1>9, <1>10 DEF FileInv, SplitInFile

LEMMA FileWriteRoot ==
    ASSUME FileInv, WriteRoot, UNCHANGED stored
    PROVE  FileInv'
<1>1. PICK rank : FilesOK(rank) /\ SplitInFile(rank)
  BY DEF FileInv
<1>2. PICK new_root, node :
         /\ new_root = page_count - 1
         /\ node = InternalNode(<<split.separator>>, <<root_page_id_, split.right_page>>)
  OBVIOUS
<1>3. /\ at = "root" /\ at' = "header" /\ WritePage(new_root, node)
      /\ root_page_id_' = new_root /\ height_' = height_ + 1
  BY <1>2 DEF WriteRoot
<1>4. /\ root_page_id_ \in Nodes /\ split.right_page \in Nodes /\ split.separator \in Keys
      /\ height_ \in Int
  BY <1>1, <1>3 DEF SplitInFile, WayUpInFile, FileInv, MembersInFile
<1>5. page_count \in Nat /\ new_root \in Nodes
  BY <1>1, <1>2, <1>4, FileNodes DEF Nodes
<1>6. InternalOK(node, page_count)
  <2>1. PICK root, right_page, separator :
           root = root_page_id_ /\ right_page = split.right_page /\ separator = split.separator
    OBVIOUS
  <2>2. /\ root \in Int /\ right_page \in Int /\ separator \in Keys
        /\ root \in 0 .. page_count - 1 /\ right_page \in 0 .. page_count - 1
    BY <1>4, <1>5, <2>1 DEF Nodes
  <2>3. /\ <<separator>> \in Seq(Keys) /\ Len(<<separator>>) = 1
        /\ <<root, right_page>> \in Seq(Int) /\ Len(<<root, right_page>>) = 2
        /\ \A i \in DOMAIN <<root, right_page>> :
              <<root, right_page>>[i] \in 0 .. page_count - 1
    BY <2>2
  <2>4. node = [kind |-> "internal", keys |-> <<separator>>, children |-> <<root, right_page>>]
    BY <1>2, <2>1 DEF InternalNode
  <2>5. node \in Internals
    BY <2>3, <2>4 DEF Internals
  <2>6. node.keys = <<separator>> /\ node.children = <<root, right_page>>
    BY <2>4
  <2>7. 1 <= MAX_INTERNAL_KEYS
    BY InternalSizeAssumption
  <2> QED
    BY <2>3, <2>5, <2>6, <2>7 DEF InternalOK, InternalFits
<1>7. Forward(rank, new_root, node)
  BY <1>6, KindOf DEF Forward
<1>8. FilesOK(rank)' /\ Nodes' = Nodes
  BY <1>1, <1>3, <1>5, <1>6, <1>7, FileWritten DEF NodeOK
<1>9. MembersInFile'
  BY <1>3, <1>4, <1>5, <1>8 DEF MembersInFile
<1> QED
  BY <1>3, <1>8, <1>9 DEF FileInv, SplitInFile

LEMMA FileOpenNew ==
    ASSUME FileInv, OpenNew, UNCHANGED stored
    PROVE  FileInv'
<1>1. PICK rank : FilesOK(rank) /\ SplitInFile(rank)
  BY DEF FileInv
<1>2. /\ at = "none" /\ page_count = 0 /\ at' = "first_leaf"
      /\ page_count < MaxPages /\ page_count' = 1
      /\ pages' = [pages EXCEPT ![0] = Blank]
      /\ height_' = height_
  BY DEF OpenNew, NewPage
<1>3. 0 \in 0 .. MaxPages /\ \A p \in Pages : p >= 0
  BY TreePagesAssumption DEF Pages
<1>4. FileVersions(pages, 0) /\ FileVersions(stored, 0)
  BY <1>1, <1>2 DEF FilesOK
<1>5. FileVersions(pages, 1) /\ FileVersions(stored, 1)
  <2>1. FileVersions(pages, 0 + 1) /\ FileVersions(stored, 0 + 1)
    BY <1>2, <1>3, <1>4, VersionsExtended
  <2> QED
    BY <2>1
<1>6. pages' = pages
  <2>1. \A p \in Pages : pages[p] = Blank
    BY <1>3, <1>4 DEF FileVersions
  <2> QED
    BY <1>2, <1>4, <2>1 DEF FileVersions
<1>7. Nodes' = {}
  BY <1>2 DEF Nodes
<1>8. FilesOK(rank)'
  BY <1>1, <1>2, <1>5, <1>6, <1>7, TreePagesAssumption DEF FilesOK
<1>9. MembersInFile'
  BY <1>2 DEF FileInv, MembersInFile
<1> QED
  BY <1>2, <1>8, <1>9 DEF FileInv, SplitInFile

LEMMA FileCreateFirstLeaf ==
    ASSUME FileInv, CreateFirstLeaf, UNCHANGED stored
    PROVE  FileInv'
<1>1. PICK rank : FilesOK(rank) /\ SplitInFile(rank)
  BY DEF FileInv
<1>2. /\ at = "first_leaf" /\ at' = "first_header" /\ NewPage(EmptyLeaf)
      /\ root_page_id_' = page_count /\ height_' = 1
  BY DEF CreateFirstLeaf
<1>3. page_count > 0
  BY <1>2 DEF FileInv, MembersInFile
<1>4. PICK after : FilesOK(after)' /\ Nodes' = Nodes \cup {page_count}
  BY <1>1, <1>2, <1>3, FileExtendedLast
<1>5. MembersInFile'
  BY <1>2, <1>4 DEF MembersInFile
<1> QED
  BY <1>2, <1>4, <1>5 DEF FileInv, SplitInFile

LEMMA FileWriteHeader ==
    ASSUME FileInv, WriteHeader, UNCHANGED stored
    PROVE  FileInv'
<1>1. PICK rank : FilesOK(rank) /\ SplitInFile(rank)
  BY DEF FileInv
<1>2. PICK header : header = Header
  OBVIOUS
<1>3. /\ at \in {"first_header", "header"} /\ at' = "idle"
      /\ page_count' = page_count /\ pages' = [pages EXCEPT ![HEADER_PAGE_ID] = header]
      /\ root_page_id_' = root_page_id_ /\ height_' = height_
  BY <1>2 DEF WriteHeader, WritePage
<1>4. root_page_id_ \in Nodes /\ height_ \in Int /\ Nodes' = Nodes
  BY <1>3 DEF FileInv, MembersInFile, Nodes
<1>5. /\ page_count > 0 /\ HEADER_PAGE_ID \in Pages /\ HEADER_PAGE_ID < page_count
      /\ \A q \in Nodes : q \in Pages /\ q # HEADER_PAGE_ID /\ q \in Int
  BY <1>1, <1>4, FileNodes DEF HEADER_PAGE_ID
<1>6. header \in Headers /\ header.root_page_id \in Nodes
  BY <1>2, <1>4, <1>5 DEF Headers, Header, HeaderPage
<1>7. /\ pages'[HEADER_PAGE_ID] = header
      /\ \A q \in Pages : q # HEADER_PAGE_ID => pages'[q] = pages[q]
      /\ pages' = [p \in Pages |-> pages'[p]]
  BY <1>1, <1>3, <1>5 DEF FilesOK, FileVersions
<1>8. FileVersions(pages', page_count)
  <2>1. FileVersions(pages, page_count)
    BY <1>1 DEF FilesOK
  <2>2. \A p \in Pages : p >= page_count => p # HEADER_PAGE_ID
    BY <1>1, <1>5, FileNodes DEF Pages
  <2>3. \A p \in Pages : p >= page_count => pages'[p] = Blank
    BY <1>7, <2>1, <2>2 DEF FileVersions
  <2>4. \A p \in 1 .. page_count - 1 : pages'[p] = Blank \/ NodeOK(pages'[p], page_count)
    BY <1>5, <1>7, <2>1 DEF FileVersions, Nodes
  <2>5. pages'[HEADER_PAGE_ID] \in
           {Blank} \cup {h \in Headers : h.root_page_id \in 1 .. page_count - 1}
    BY <1>6, <1>7 DEF Nodes
  <2> QED
    BY <1>7, <2>3, <2>4, <2>5 DEF FileVersions
<1>9. FilesOK(rank)'
  BY <1>1, <1>3, <1>4, <1>5, <1>7, <1>8 DEF FilesOK
<1>10. MembersInFile'
  BY <1>3, <1>4 DEF MembersInFile
<1> QED
  BY <1>3, <1>9, <1>10 DEF FileInv, SplitInFile

LEMMA FileLoadHeader ==
    ASSUME FileInv, LoadHeader, UNCHANGED stored
    PROVE  FileInv'
<1>1. PICK rank : FilesOK(rank) /\ SplitInFile(rank)
  BY DEF FileInv
<1>2. /\ at' = "idle" /\ page_count > 0 /\ pages[HEADER_PAGE_ID].kind = "header"
      /\ root_page_id_' = pages[HEADER_PAGE_ID].root_page_id
      /\ height_' = pages[HEADER_PAGE_ID].height
      /\ UNCHANGED <<pages, page_count>>
  BY DEF LoadHeader, CanOpen
<1>3. pages[HEADER_PAGE_ID] \in Headers /\ pages[HEADER_PAGE_ID].root_page_id \in Nodes
  BY <1>1, <1>2, KindOf DEF FilesOK, FileVersions, Nodes
<1>4. root_page_id_' \in Nodes' /\ height_' \in Int
  BY <1>2, <1>3 DEF Headers, Nodes
<1>5. FilesOK(rank)'
  BY <1>1, <1>2 DEF FilesOK, Nodes
<1>6. MembersInFile'
  BY <1>2, <1>4 DEF MembersInFile
<1> QED
  BY <1>2, <1>5, <1>6 DEF FileInv, SplitInFile

(* The call of insert, and a call that fails, write nothing. *)
LEMMA FileFails ==
    ASSUME FileInv, Fails \/ \E key \in Keys, rid \in Rids : BeginInsert(key, rid),
           UNCHANGED stored
    PROVE  FileInv' /\ HeaderKept
<1>1. PICK rank : FilesOK(rank) /\ SplitInFile(rank)
  BY DEF FileInv
<1>2. /\ at \in {"first_leaf", "up", "header", "idle"}
      /\ at' = IF at = "first_leaf" THEN "none" ELSE "idle"
      /\ UNCHANGED <<pages, page_count, root_page_id_, height_>>
  BY DEF Fails, Creates, MayMiss, LeafFull, NoLeaf, Begun, BeginInsert
<1>3. FilesOK(rank)' /\ Nodes' = Nodes
  BY <1>1, <1>2 DEF FilesOK, Nodes
<1>4. MembersInFile'
  BY <1>2, <1>3 DEF FileInv, MembersInFile
<1>5. page_count' = page_count /\ page_count \in Nat
  BY <1>1, <1>2, FileNodes
<1> QED
  BY <1>2, <1>3, <1>4, <1>5 DEF FileInv, SplitInFile, HeaderKept

(* Pages are written out. *)
LEMMA FileOut ==
    ASSUME FileInv, UNCHANGED vars, stored' = [p \in Pages |-> stored'[p]],
           \A p \in Pages : stored'[p] \in {pages[p], stored[p]}
    PROVE  FileInv'
<1>1. PICK rank : FilesOK(rank) /\ SplitInFile(rank)
  BY DEF FileInv
<1>2. /\ UNCHANGED <<pages, page_count, root_page_id_, height_, at, split, path>>
      /\ Nodes' = Nodes
  BY DEF vars, Nodes
<1>3. HEADER_PAGE_ID \in Pages /\ \A p \in Nodes : p \in Pages
  BY <1>1, FileNodes
<1>4. FileVersions(stored', page_count)
  <2>1. FileVersions(stored, page_count) /\ FileVersions(pages, page_count)
    BY <1>1 DEF FilesOK
  <2> QED
    BY <1>3, <2>1 DEF FileVersions, Nodes
<1>5. \A p \in Nodes : Forward(rank, p, stored'[p])
  BY <1>1, <1>3 DEF FilesOK
<1>6. FilesOK(rank)'
  BY <1>1, <1>2, <1>4, <1>5 DEF FilesOK
<1>7. SplitInFile(rank)'
  BY <1>1, <1>2
     DEF SplitInFile, HalvesInFile, WayUpInFile, IsLeaf, IsInternal
<1>8. MembersInFile'
  BY <1>2 DEF FileInv, MembersInFile
<1> QED
  BY <1>6, <1>7, <1>8 DEF FileInv

(* What was not written out is gone. *)
LEMMA FileExit ==
    ASSUME FileInv, Exit
    PROVE  FileInv'
<1>1. PICK rank : FilesOK(rank) /\ SplitInFile(rank)
  BY DEF FileInv
<1>2. /\ at' = "none" /\ pages' = stored
      /\ UNCHANGED <<page_count, height_, stored>>
  BY DEF Exit
<1>3. FilesOK(rank)'
  BY <1>1, <1>2 DEF FilesOK, Nodes
<1>4. MembersInFile'
  BY <1>2 DEF FileInv, MembersInFile
<1> QED
  BY <1>2, <1>3, <1>4 DEF FileInv, SplitInFile

-----------------------------------------------------------------------------
LEMMA FileInitInv == FileInit => FileInv
<1> SUFFICES ASSUME FileInit
             PROVE  FileInv
  OBVIOUS
<1>1. /\ pages = [p \in Pages |-> Blank] /\ page_count = 0 /\ height_ = 1 /\ at = "none"
      /\ stored = pages
  BY DEF FileInit, Init
<1> DEFINE rank == [p \in Pages |-> 0]
<1>2. FileVersions(pages, page_count) /\ Nodes = {} /\ page_count \in 0 .. MaxPages
  BY <1>1, TreePagesAssumption DEF FileVersions, Nodes
<1>3. FilesOK(rank)
  BY <1>1, <1>2 DEF FilesOK
<1>4. MembersInFile /\ SplitInFile(rank)
  BY <1>1 DEF MembersInFile, SplitInFile
<1> QED
  BY <1>3, <1>4 DEF FileInv

(* An insertion is called with a key and a RID, and keeps them until a kill. *)
LEMMA FileCall == CallOK /\ [FileNext]_fileVars => CallOK'
<1> SUFFICES ASSUME CallOK, [FileNext]_fileVars
             PROVE  CallOK'
  OBVIOUS
<1>1. CASE [Next]_vars
  BY <1>1, NextCall
<1>2. CASE Exit
  BY <1>2, NoCalls DEF Exit, CallOK
<1> QED
  BY <1>1, <1>2 DEF FileNext, Next, Insert, Step, PageOut, FlushAll, fileVars

LEMMA FileInserts ==
    ASSUME FileInv, CallOK, Inserts, UNCHANGED stored
    PROVE  FileInv' /\ HeaderKept
  BY FileInsertInLeaf, FileSplitLeaf DEF Inserts, Begun, CallOK

LEMMA FileNextInv == FileInv /\ CallOK /\ [FileNext]_fileVars => FileInv'
<1> SUFFICES ASSUME FileInv, CallOK, [FileNext]_fileVars
             PROVE  FileInv'
  OBVIOUS
<1>1. ASSUME NEW key \in Keys, NEW rid \in Rids, Insert(key, rid)
      PROVE  FileInv'
  BY <1>1, FileFails DEF Insert
<1>2. CASE Step
  <2>1. Continues /\ UNCHANGED stored
    BY <1>2 DEF Step
  <2>2. CASE WriteLeft
    BY <2>1, <2>2, FileHalfWritten DEF WriteLeft
  <2>3. CASE WriteRight
    BY <2>1, <2>3, FileHalfWritten DEF WriteRight
  <2> QED
    BY <2>1, <2>2, <2>3, FileOpenNew, FileCreateFirstLeaf, FileWriteHeader, FileLoadHeader,
       FileInsertInParent, FileSplitParent, FileCreateRoot, FileWriteRoot, FileFails,
       FileInserts
       DEF Continues
<1>3. ASSUME NEW page_id \in Pages, PageOut(page_id)
      PROVE  FileInv'
  <2>1. /\ stored' = [stored EXCEPT ![page_id] = pages[page_id]]
        /\ UNCHANGED vars
    BY <1>3 DEF PageOut
  <2>2. stored = [p \in Pages |-> stored[p]]
    BY DEF FileInv, FilesOK, FileVersions
  <2>3. /\ stored' = [p \in Pages |-> stored'[p]]
        /\ \A p \in Pages : stored'[p] \in {pages[p], stored[p]}
    BY <2>1, <2>2
  <2> QED
    BY <2>1, <2>3, FileOut
<1>4. CASE FlushAll
  <2>1. /\ stored' = [p \in Pages |-> IF Written(p) THEN pages[p] ELSE stored[p]]
        /\ UNCHANGED vars
    BY <1>4 DEF FlushAll
  <2>2. /\ stored' = [p \in Pages |-> stored'[p]]
        /\ \A p \in Pages : stored'[p] \in {pages[p], stored[p]}
    BY <2>1
  <2> QED
    BY <2>1, <2>2, FileOut
<1>5. CASE Exit
  BY <1>5, FileExit
<1>6. CASE UNCHANGED fileVars
  <2>1. UNCHANGED vars /\ stored' = stored
    BY <1>6 DEF fileVars
  <2>2. stored = [p \in Pages |-> stored[p]]
    BY DEF FileInv, FilesOK, FileVersions
  <2> QED
    BY <2>1, <2>2, FileOut
<1> QED
  BY <1>1, <1>2, <1>3, <1>4, <1>5, <1>6 DEF FileNext

(* Whatever is written out when, and wherever a process is killed, the file has
   pages of the right kinds, and its leaves one order. *)
THEOREM FileInvariant == FileSpec => []FileInv
<1>1. FileInit => FileInv /\ CallOK
  BY FileInitInv, InitCall DEF FileInit
<1>2. FileInv /\ CallOK /\ [FileNext]_fileVars => FileInv' /\ CallOK'
  BY FileNextInv, FileCall
<1> QED
  BY <1>1, <1>2, PTL DEF FileSpec

(* The leaf chain has an end in every mixture of pages (range_scan). *)
THEOREM FileChainsEnd == FileSpec => []ChainsEnd
<1>1. FileInv => ChainsEnd
  <2> SUFFICES ASSUME FileInv, at = "idle", NEW p \in Pages, IsLeaf(p)
               PROVE  Chain(p)[MaxPages] \notin {q \in Pages : IsLeaf(q)}
    BY DEF ChainsEnd
  <2>1. PICK rank : FilesOK(rank)
    BY DEF FileInv
  <2>2. p \in Nodes
    BY <2>1, FileNodes
  <2> QED
    BY <2>1, <2>2, FileChainEnds
<1> QED
  BY <1>1, FileInvariant, PTL

-----------------------------------------------------------------------------
(* What flush_all saves *)

(* What the next process answers. *)
FileRoot == pages[HEADER_PAGE_ID].root_page_id

FileAnswer(key) ==
    IF IsLeaf(find_leaf_page(FileRoot, key)) THEN search(FileRoot, key) ELSE Throws

(* The header names the root of the open tree, unless a new one is being
   written; and what flush_all saved is what pool and file have. *)
FlushInv ==
    /\ at \in {"idle", "left", "right", "up", "root"} =>
          CanOpen /\ root_page_id_ = FileRoot
    /\ ~changed =>
          /\ at \in {"idle", "none"} /\ ~Begun /\ CanOpen /\ stored = pages
          /\ at = "none" => inserting.rid = None
          /\ flushed = [key \in Keys |-> FileAnswer(key)]

(* A step that leaves page 0 alone leaves the header the one of the open tree. *)
LEMMA HeaderStays ==
    ASSUME FileInv, HeaderKept, CanOpen, root_page_id_ = FileRoot, UNCHANGED root_page_id_
    PROVE  CanOpen' /\ (root_page_id_ = FileRoot)'
<1>1. page_count \in Nat
  BY FileNodes DEF FileInv
<1>2. page_count' > 0
  BY <1>1 DEF HeaderKept, CanOpen
<1> QED
  BY <1>2 DEF HeaderKept, CanOpen, FileRoot

LEMMA FileHalfHeader == FileInv /\ (WriteLeft \/ WriteRight) /\ UNCHANGED stored => HeaderKept
  BY FileHalfWritten DEF WriteLeft, WriteRight

LEMMA SameAnswers ==
    ASSUME UNCHANGED pages
    PROVE  FileRoot' = FileRoot /\ \A key : FileAnswer(key)' = FileAnswer(key)
  BY DEF FileRoot, FileAnswer, find_leaf_page, search, Descent, Below, Child, IsLeaf, IsInternal

LEMMA FlushInit == FileInit => FlushInv
  BY DEF FileInit, Init, FlushInv

(* With ~changed nothing but opening the tree can happen. *)
LEMMA FlushStep ==
    ASSUME ~MayFail, FileInv, CallOK, FlushInv, FileInv', Continues,
           UNCHANGED <<stored, flushed, changed>>
    PROVE  FlushInv'
<1>1. CASE ~changed
  <2>1. /\ at \in {"idle", "none"} /\ ~Begun /\ CanOpen
        /\ at = "none" => inserting.rid = None
    BY <1>1 DEF FlushInv
  <2>2. LoadHeader
    <3>1. page_count # 0
      <4>1. page_count \in Nat
        BY FileNodes DEF FileInv
      <4> QED
        BY <2>1, <4>1 DEF CanOpen
    <3> QED
      BY <2>1, <3>1 DEF Continues, OpenNew, CreateFirstLeaf, WriteHeader, Inserts, WriteLeft,
         WriteRight, InsertInParent, SplitParent, CreateRoot, WriteRoot, Fails, Creates,
         MayMiss, LeafFull, NoLeaf
  <2>3. /\ at' = "idle" /\ UNCHANGED <<pages, page_count>> /\ root_page_id_' = FileRoot
        /\ ~Begun'
    BY <2>1, <2>2 DEF LoadHeader, FileRoot, Begun
  <2>4. FileRoot' = FileRoot /\ \A key \in Keys : FileAnswer(key)' = FileAnswer(key)
    BY <2>3, SameAnswers
  <2>5. CanOpen'
    BY <2>1, <2>3 DEF CanOpen
  <2> HIDE DEF FileRoot, FileAnswer
  <2> QED
    BY <1>1, <2>3, <2>4, <2>5 DEF FlushInv
<1>2. CASE changed
  <2>1. SUFFICES ASSUME at' \in {"idle", "left", "right", "up", "root"}
                 PROVE  CanOpen' /\ (root_page_id_ = FileRoot)'
    BY <1>2 DEF FlushInv
  <2>2. CASE WriteHeader
    <3>1. page_count \in Nat /\ page_count > 0 /\ HEADER_PAGE_ID \in DOMAIN pages
      <4>1. PICK rank : FilesOK(rank)
        BY DEF FileInv
      <4>2. root_page_id_ \in Nodes
        BY <2>2 DEF FileInv, MembersInFile, WriteHeader
      <4> QED
        BY <4>1, <4>2, FileNodes DEF FilesOK, FileVersions
    <3>2. /\ pages'[HEADER_PAGE_ID] = Header /\ page_count' = page_count
          /\ root_page_id_' = root_page_id_
      BY <2>2, <3>1 DEF WriteHeader, WritePage
    <3>3. Header.kind = "header" /\ Header.root_page_id = root_page_id_
      BY DEF Header, HeaderPage
    <3> QED
      BY <3>1, <3>2, <3>3 DEF CanOpen, FileRoot
  <2>3. CASE LoadHeader
    BY <2>3 DEF LoadHeader, CanOpen, FileRoot
  <2>4. CASE WriteLeft \/ WriteRight
    <3>1. at \in {"left", "right"} /\ UNCHANGED root_page_id_
      BY <2>4 DEF WriteLeft, WriteRight
    <3> QED
      BY <2>4, <3>1, FileHalfHeader, HeaderStays DEF FlushInv
  <2>5. CASE InsertInParent \/ SplitParent \/ CreateRoot
    <3>1. at = "up" /\ UNCHANGED root_page_id_
      BY <2>5 DEF InsertInParent, SplitParent, CreateRoot
    <3>2. HeaderKept
      BY <2>5, FileInsertInParent, FileSplitParent, FileCreateRoot
    <3> QED
      BY <3>1, <3>2, HeaderStays DEF FlushInv
  <2>6. CASE Fails
    <3>1. at \in {"first_leaf", "up", "idle"} /\ UNCHANGED root_page_id_
      BY <2>6 DEF Fails, Creates, LeafFull, NoLeaf, Begun
    <3>2. at \in {"up", "idle"}
      BY <2>1, <2>6, <3>1 DEF Fails
    <3> QED
      BY <2>6, <3>1, <3>2, FileFails, HeaderStays DEF FlushInv
  <2>7. CASE OpenNew \/ CreateFirstLeaf \/ WriteRoot
    BY <2>1, <2>7 DEF OpenNew, CreateFirstLeaf, WriteRoot
  <2>8. CASE Inserts
    <3>1. at = "idle" /\ UNCHANGED root_page_id_
      BY <2>8 DEF Inserts, Begun, InsertInLeaf, SplitLeaf
    <3> QED
      BY <2>8, <3>1, FileInserts, HeaderStays DEF FlushInv
  <2> QED
    BY <2>2, <2>3, <2>4, <2>5, <2>6, <2>7, <2>8 DEF Continues
<1> QED
  BY <1>1, <1>2

LEMMA FlushNext ==
    ASSUME ~MayFail, FileInv, CallOK, FlushInv, FileInv', [FileNext]_fileVars
    PROVE  FlushInv'
<1>1. ASSUME NEW key \in Keys, NEW rid \in Rids, Insert(key, rid)
      PROVE  FlushInv'
  <2>1. at = "idle" /\ UNCHANGED root_page_id_ /\ changed' = TRUE /\ UNCHANGED stored
    BY <1>1 DEF Insert, BeginInsert
  <2>2. HeaderKept
    BY <1>1, <2>1, FileFails DEF Insert
  <2> QED
    BY <2>1, <2>2, HeaderStays DEF FlushInv
<1>2. CASE Step
  BY <1>2, FlushStep DEF Step
<1>3. ASSUME UNCHANGED <<vars, flushed, changed>>, changed \/ UNCHANGED stored
      PROVE  FlushInv'
  <2>1. UNCHANGED <<pages, page_count, root_page_id_, at, inserting>> /\ Begun' = Begun
    BY <1>3 DEF vars, Begun
  <2>2. FileRoot' = FileRoot /\ \A key \in Keys : FileAnswer(key)' = FileAnswer(key)
    BY <2>1, SameAnswers
  <2>3. CanOpen' <=> CanOpen
    BY <2>1 DEF CanOpen
  <2> QED
    BY <1>3, <2>1, <2>2, <2>3 DEF FlushInv
<1>4. ASSUME NEW page_id \in Pages, PageOut(page_id)
      PROVE  FlushInv'
  <2>1. changed
    BY <1>4 DEF FlushInv, PageOut
  <2> QED
    BY <1>3, <1>4, <2>1 DEF PageOut
<1>5. CASE FlushAll
  <2>1. /\ at = "idle" /\ changed' = FALSE
        /\ stored' = [p \in Pages |-> IF Written(p) THEN pages[p] ELSE stored[p]]
        /\ flushed' = [key \in Keys |-> Answer(key)]
        /\ UNCHANGED <<pages, page_count, root_page_id_, at>> /\ ~Begun'
    BY <1>5 DEF FlushAll, vars, Begun
  <2>2. CanOpen /\ root_page_id_ = FileRoot
    BY <2>1 DEF FlushInv
  <2>3. CanOpen' /\ FileRoot' = FileRoot /\ \A key \in Keys : FileAnswer(key)' = FileAnswer(key)
    BY <2>1, <2>2, SameAnswers DEF CanOpen
  <2>4. \A key \in Keys : Answer(key) = FileAnswer(key)
    BY <2>2 DEF Answer, FileAnswer, LeafFor
  <2>5. stored' = pages
    <3>1. /\ FileVersions(pages, page_count) /\ FileVersions(stored, page_count)
          /\ page_count \in Nat
      BY FileNodes DEF FileInv, FilesOK
    <3>2. \A p \in Pages : stored'[p] = pages[p]
      BY <2>1, <3>1 DEF FileVersions, Written, Pages
    <3> QED
      BY <2>1, <3>1, <3>2 DEF FileVersions
  <2>6. flushed' = [key \in Keys |-> FileAnswer(key)]
    BY <2>1, <2>4
  <2>7. root_page_id_' = FileRoot' /\ at' = "idle" /\ stored' = pages'
    BY <2>1, <2>2, <2>3, <2>5
  <2>8. flushed' = [key \in Keys |-> FileAnswer(key)']
    BY <2>3, <2>6
  <2> QED
    BY <2>1, <2>3, <2>7, <2>8 DEF FlushInv
<1>6. CASE Exit
  <2>1. /\ at' = "none" /\ pages' = stored /\ UNCHANGED <<page_count, stored, flushed, changed>>
        /\ inserting'.rid = None /\ ~Begun'
    BY <1>6, NoCalls DEF Exit, Begun
  <2>2. CASE changed
    BY <2>1, <2>2 DEF FlushInv
  <2>3. CASE ~changed
    <3>1. CanOpen /\ stored = pages /\ flushed = [key \in Keys |-> FileAnswer(key)]
      BY <2>3 DEF FlushInv
    <3>2. CanOpen' /\ \A key \in Keys : FileAnswer(key)' = FileAnswer(key)
      BY <2>1, <3>1, SameAnswers DEF CanOpen
    <3> QED
      BY <2>1, <2>3, <3>1, <3>2 DEF FlushInv
  <2> QED
    BY <2>2, <2>3
<1>7. CASE UNCHANGED fileVars
  BY <1>3, <1>7 DEF fileVars
<1> QED
  BY <1>1, <1>2, <1>4, <1>5, <1>6, <1>7 DEF FileNext

(* What flush_all saved is kept (cmd_insert, insert_bulk).  Not so if the header
   of a new root may fail to be written while the process goes on: flush_all
   would save a tree that the next process does not see. *)
THEOREM FileFlushedKept == ~MayFail => (FileSpec => []FlushedIndexKept)
<1> SUFFICES ASSUME ~MayFail
             PROVE  FileSpec => []FlushedIndexKept
  OBVIOUS
<1>1. FileInit => FlushInv
  BY FlushInit
<1>2. FileInv /\ FileInv' /\ CallOK /\ FlushInv /\ [FileNext]_fileVars => FlushInv'
  BY FlushNext
<1>3. FlushInv => FlushedIndexKept
  <2> SUFFICES ASSUME FlushInv, at = "idle", ~changed, NEW key \in Keys
               PROVE  Answer(key) = flushed[key]
    BY DEF FlushedIndexKept
  <2>1. root_page_id_ = FileRoot /\ flushed[key] = FileAnswer(key)
    BY DEF FlushInv
  <2> QED
    BY <2>1 DEF Answer, FileAnswer, LeafFor
<1>4. FileInit => CallOK
  BY InitCall DEF FileInit
<1>5. CallOK /\ [FileNext]_fileVars => CallOK'
  BY FileCall
<1> QED
  BY <1>1, <1>2, <1>3, <1>4, <1>5, FileInvariant, PTL DEF FileSpec

=============================================================================
