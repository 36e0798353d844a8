----------------------------- MODULE IndexFile -----------------------------
(***************************************************************************)
(* The B+ tree in its file, over several processes: the commands of the    *)
(* CLI (src/cli/dinodb_cli.cpp) open the tree, insert or only search, and  *)
(* end, with flush_all or without it, or are killed.                       *)
(*                                                                         *)
(* BPlusTree says what the pool shows; stored is what the file holds.  The *)
(* pool writes a page out when it evicts it, and flush_all writes them one *)
(* after the other, so at any time any page may have been written: an      *)
(* interrupted flush_all is some PageOut steps and then the end.           *)
(***************************************************************************)
EXTENDS BPlusTree

VARIABLES
    stored,    \* the content of each page in the file
    flushed,   \* history: what search answered at the last flush_all
    changed    \* history: whether the tree was created, or inserted in, since the
               \*   last flush_all

fileVars == <<vars, stored, flushed, changed>>

FileInit ==
    /\ Init
    /\ stored = pages
    /\ flushed = [key \in Keys |-> None]
    /\ changed = TRUE

\* A descent that does not reach a leaf ends in an exception.
Throws == "throws"

Answer(key) == IF IsLeaf(LeafFor(key)) THEN search(root_page_id_, key) ELSE Throws

Insert(key, rid) ==
    /\ BeginInsert(key, rid)
    /\ changed' = TRUE
    /\ UNCHANGED <<stored, flushed>>

\* Creating a page extends the file with a formatted one at once.
Step == Continues /\ UNCHANGED <<stored, flushed, changed>>

\* Mutant: the loop of flush_all ends one page early.
AllButLast(page_id) == page_id < page_count - 1

Written(page_id) == page_id < page_count

\* evict_frame, or the loop of flush_all.
PageOut(page_id) ==
    /\ Written(page_id) /\ stored[page_id] # pages[page_id]
    /\ stored' = [stored EXCEPT ![page_id] = pages[page_id]]
    /\ UNCHANGED <<vars, flushed, changed>>

\* flush_all at the end of init, insert and insert-bulk.
FlushAll ==
    /\ at = "idle" /\ ~Begun
    /\ stored' = [p \in Pages |-> IF Written(p) THEN pages[p] ELSE stored[p]]
    /\ flushed' = [key \in Keys |-> Answer(key)]
    /\ changed' = FALSE
    /\ UNCHANGED vars

\* The command returns, throws or is killed: what the pool had not written is
\* gone.  The file keeps the pages it was extended by.
Exit ==
    /\ at # "none"
    /\ pages' = stored
    /\ at' = "none" /\ split' = NoSplit /\ path' = <<>> /\ inserting' = NoInsert
    /\ UNCHANGED <<page_count, root_page_id_, height_, stored, flushed, changed>>

FileNext ==
    \/ \E key \in Keys, rid \in Rids : Insert(key, rid)
    \/ Step
    \/ \E page_id \in Pages : PageOut(page_id)
    \/ FlushAll
    \/ Exit

FileSpec == FileInit /\ [][FileNext]_fileVars

-----------------------------------------------------------------------------
(* What flush_all saved is kept: until the next insertion, search answers as
   it did then, however many commands open the tree, search and are killed
   (cmd_insert, insert_bulk; Frame::is_dirty).  An insertion that is killed
   keeps no such promise, not even for other keys: see the README. *)
FlushedIndexKept ==
    at = "idle" /\ ~changed => \A key \in Keys : Answer(key) = flushed[key]

(* However the pages of different moments are mixed in the file, the leaf
   chain has an end: a range_scan returns or throws (range_scan, leaf.next). *)
ChainsEnd ==
    at = "idle" => \A p \in Pages :
        IsLeaf(p) => Chain(p)[MaxPages] \notin {q \in Pages : IsLeaf(q)}

=============================================================================
