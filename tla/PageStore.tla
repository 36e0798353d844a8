----------------------------- MODULE PageStore -----------------------------
(***************************************************************************)
(* What the buffer pool promises its users: paged storage in which a page  *)
(* reads as what was last written to it, wherever it lives, and in which   *)
(* a page that was flushed survives the end of the process and a power     *)
(* loss.  No frames, no replacement policy, no file.                       *)
(*                                                                         *)
(* versions[p] is the set of contents page p may have after a crash: what  *)
(* was durable and everything written to p since.  A flush makes it a      *)
(* singleton; that is the whole durability contract of the system, which   *)
(* has no log (README.md: no WAL, no rollback).  A write that is cut short  *)
(* adds a torn page to them, which shows when the pool has dropped its own *)
(* copy; an untorn page is dropped from sight by Discard, Exit and         *)
(* PowerLoss only.                                                         *)
(***************************************************************************)
EXTENDS Integers

CONSTANTS MaxPages,   \* capacity of the storage device, in pages
          Values,     \* contents the users write
          Fresh,      \* content of a page just allocated
          Hole,       \* content of a page outside the file, or never stored
          Torn        \* content of a page whose write was cut short

VARIABLES count,      \* allocated pages are 0 .. count - 1
          content,    \* what a user who reads the page sees
          versions,   \* the contents the page may come back with after a crash
          open        \* pages with changes their user has not reported yet

vars == <<count, content, versions, open>>

Pages == 0 .. MaxPages - 1

Init ==
    /\ count = 0
    /\ content = [p \in Pages |-> Hole]
    /\ versions = [p \in Pages |-> {Hole}]
    /\ open = {}

\* Pages of which some write was cut short, and which no user is changing.
TornPages == {p \in Pages \ open : Torn \in versions[p]}

\* Making room for the new page, the pool may forget its copy of one torn page.
Allocate ==
    /\ count < MaxPages
    /\ count' = count + 1
    /\ \E p \in TornPages \cup {count} :
           content' = [content EXCEPT ![p] = Torn, ![count] = Fresh]
    /\ versions' = [versions EXCEPT ![count] = @ \cup {Fresh}]
    /\ UNCHANGED open

Write(p, v) ==
    /\ p < count
    /\ content' = [content EXCEPT ![p] = v]
    /\ versions' = [versions EXCEPT ![p] = @ \cup {v}]
    /\ open' = open \cup {p}
    /\ UNCHANGED count

Report(p) ==
    /\ open' = open \ {p}
    /\ UNCHANGED <<count, content, versions>>

Flush(p) ==
    /\ versions' = [versions EXCEPT ![p] = {content[p]}]
    /\ UNCHANGED <<count, content, open>>

\* Pages whose changes were not reported are not part of the promise, and a
\* torn page may stay so until it is flushed by itself.
FlushAll ==
    /\ \E torn \in SUBSET TornPages :
           versions' = [p \in Pages |-> IF p \in open THEN versions[p]
                                       ELSE {content[p]} \cup (IF p \in torn THEN {Torn} ELSE {})]
    /\ UNCHANGED <<count, content, open>>

\* A write of the page is cut short: nobody sees it yet.
Tear(p) ==
    /\ p < count
    /\ versions' = [versions EXCEPT ![p] = @ \cup {Torn}]
    /\ UNCHANGED <<count, content, open>>

\* The pool forgets its copy of a torn page.
Forget(p) ==
    /\ p \in TornPages
    /\ content' = [content EXCEPT ![p] = Torn]
    /\ UNCHANGED <<count, versions, open>>

\* The page is deleted: it falls back to some earlier version.
Discard(p) ==
    /\ p \notin open
    /\ \E v \in versions[p] : content' = [content EXCEPT ![p] = v]
    /\ UNCHANGED <<count, versions, open>>

\* The process ends without flushing.
Exit ==
    /\ content' \in [Pages -> UNION {versions[p] : p \in Pages}]
    /\ \A p \in Pages : content'[p] \in versions[p]
    /\ open' = {}
    /\ UNCHANGED <<count, versions>>

\* Each page comes back, on its own, with one of its versions; the file may
\* end before pages whose allocation was never flushed.
PowerLoss ==
    /\ count' \in 0 .. count
    /\ content' \in [Pages -> UNION {versions[p] : p \in Pages}]
    /\ \A p \in Pages :
          /\ content'[p] \in versions[p]
          /\ p >= count' => content'[p] = Hole
          /\ p < count /\ (\E v \in versions[p] : versions[p] = {v}) => p < count'
    /\ versions' = [p \in Pages |-> {content'[p]}]
    /\ open' = {}

Next ==
    \/ Allocate
    \/ \E p \in Pages :
          \/ \E v \in Values : Write(p, v)
          \/ Report(p)
          \/ Flush(p)
          \/ Tear(p)
          \/ Forget(p)
          \/ Discard(p)
    \/ FlushAll
    \/ Exit
    \/ PowerLoss

Spec == Init /\ [][Next]_vars

=============================================================================
