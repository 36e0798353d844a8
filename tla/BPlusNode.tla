----------------------------- MODULE BPlusNode -----------------------------
(***************************************************************************)
(* The nodes of the B+ tree as values (src/index/bplus_tree.cpp): what     *)
(* insertion and splitting do to one node.  Each node fills a page.        *)
(*                                                                         *)
(* The fixed arrays and their size field are sequences; the state machine  *)
(* BPlusTree says when the nodes are read and written.                     *)
(***************************************************************************)
EXTENDS Integers, Sequences, FiniteSets, SequencesExt

CONSTANTS MAX_LEAF_ENTRIES,   \* 31 in bplus_tree.hpp
          MAX_INTERNAL_KEYS   \* 63

\* A leaf without a page for an entry, or an internal node without a key to
\* promote, cannot be split.
ASSUME LeafSizeAssumption == MAX_LEAF_ENTRIES \in Nat \ {0}
ASSUME InternalSizeAssumption == MAX_INTERNAL_KEYS \in Nat \ {0, 1}

INVALID_PAGE_ID == -1

\* A page that is no node: zeroed, or formatted and never written.
Blank == [kind |-> "blank"]

HeaderPage(root_page_id, height) ==
    [kind |-> "header", root_page_id |-> root_page_id, height |-> height]

LeafNode(entries, next) == [kind |-> "leaf", entries |-> entries, next |-> next]

InternalNode(keys, children) ==
    [kind |-> "internal", keys |-> keys, children |-> children]

EmptyLeaf == LeafNode(<<>>, INVALID_PAGE_ID)

\* create_internal zeroes the children: the first one is page 0.
EmptyInternal == InternalNode(<<>>, <<0>>)

-----------------------------------------------------------------------------
(* Leaves *)

\* std::lower_bound, over entries in the order of their keys.
lower_bound(entries, key) ==
    Cardinality({i \in DOMAIN entries : entries[i].key < key}) + 1

\* Mutant: a key that is there is inserted again, after the old entry.
PutDuplicate(entries, key, rid) ==
    InsertAt(entries, lower_bound(entries, key + 1), [key |-> key, rid |-> rid])

\* insert_into_leaf: a known key gets the new RID, a new one its place.
PutEntry(entries, key, rid) ==
    LET i == lower_bound(entries, key)
    IN  IF i <= Len(entries) /\ entries[i].key = key
        THEN [entries EXCEPT ![i].rid = rid]
        ELSE InsertAt(entries, i, [key |-> key, rid |-> rid])

LeafFits(entries) == Len(entries) <= MAX_LEAF_ENTRIES

\* Both halves of a split; values.size() / 2 entries stay.
Left(values) == SubSeq(values, 1, Len(values) \div 2)

Right(values) == SubSeq(values, Len(values) \div 2 + 1, Len(values))

-----------------------------------------------------------------------------
(* Internal nodes *)

\* Mutant: a key equal to a separator is sought on its left.
ChildBefore(keys, key) ==
    Cardinality({i \in DOMAIN keys : \A j \in 1 .. i : keys[j] < key})

\* find_leaf_page and insert_recursive: skip separators while key >= separator.
child_index(keys, key) ==
    Cardinality({i \in DOMAIN keys : \A j \in 1 .. i : keys[j] <= key})

\* std::upper_bound, as the number of keys before the position.
upper_bound(keys, key) == Cardinality({i \in DOMAIN keys : keys[i] <= key})

\* Mutant: the new page goes before the node that was split.
PutChildBefore(node, separator, right_page) ==
    LET pos == upper_bound(node.keys, separator)
    IN  InternalNode(InsertAt(node.keys, pos + 1, separator),
                     InsertAt(node.children, pos + 1, right_page))

\* insert_into_internal: the separator at pos, the new page on its right.
PutChild(node, separator, right_page) ==
    LET pos == upper_bound(node.keys, separator)
    IN  InternalNode(InsertAt(node.keys, pos + 1, separator),
                     InsertAt(node.children, pos + 2, right_page))

InternalFits(node) == Len(node.keys) <= MAX_INTERNAL_KEYS

\* The key in the middle is promoted and stays in neither half.
middle(node) == Len(node.keys) \div 2 + 1

promoted(node) == node.keys[middle(node)]

\* Mutant: as many children as keys are copied.
LeftWithoutLast(node) ==
    InternalNode(SubSeq(node.keys, 1, middle(node) - 1),
                 SubSeq(node.children, 1, middle(node) - 1))

LeftInternal(node) ==
    InternalNode(SubSeq(node.keys, 1, middle(node) - 1),
                 SubSeq(node.children, 1, middle(node)))

RightInternal(node) ==
    InternalNode(SubSeq(node.keys, middle(node) + 1, Len(node.keys)),
                 SubSeq(node.children, middle(node) + 1, Len(node.children)))

=============================================================================
