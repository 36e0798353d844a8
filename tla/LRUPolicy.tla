----------------------------- MODULE LRUPolicy -----------------------------
(***************************************************************************)
(* What an LRU replacer promises, with no list in sight.                   *)
(*                                                                         *)
(* A set of evictable frames and the relation "became evictable before".   *)
(* The victim is a frame no other evictable frame is older than.           *)
(***************************************************************************)
EXTENDS Integers, FiniteSets

CONSTANTS Frames,     \* the frame ids of the pool
          capacity    \* how many frames the replacer tracks

NoFrame == -1

VARIABLES evictable,  \* the frames that may be evicted
          older,      \* pairs <<f, g>>: f has been evictable for longer than g
          returned    \* what the last call of victim() returned

vars == <<evictable, older, returned>>

Without(frame) == {pair \in older : pair[1] # frame /\ pair[2] # frame}

Init == evictable = {} /\ older = {} /\ returned = NoFrame

Pin(frame) ==
    /\ evictable' = evictable \ {frame}
    /\ older' = Without(frame)
    /\ UNCHANGED returned

\* A frame unpinned again becomes the youngest.
Unpin(frame) ==
    /\ Cardinality(evictable \ {frame}) < capacity
    /\ evictable' = evictable \cup {frame}
    /\ older' = Without(frame) \cup ((evictable \ {frame}) \X {frame})
    /\ UNCHANGED returned

\* With capacity other frames tracked, the frame is forgotten.
UnpinForgotten(frame) ==
    /\ Cardinality(evictable \ {frame}) >= capacity
    /\ evictable' = evictable \ {frame}
    /\ older' = Without(frame)
    /\ UNCHANGED returned

Victim ==
    \E frame \in evictable :
        /\ \A other \in evictable \ {frame} : <<frame, other>> \in older
        /\ evictable' = evictable \ {frame}
        /\ older' = Without(frame)
        /\ returned' = frame

NoVictim ==
    /\ evictable = {}
    /\ returned' = NoFrame
    /\ UNCHANGED <<evictable, older>>

Next ==
    \/ \E frame \in Frames : Pin(frame) \/ Unpin(frame) \/ UnpinForgotten(frame)
    \/ Victim
    \/ NoVictim

Spec == Init /\ [][Next]_vars

=============================================================================
