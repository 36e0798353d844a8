---------------------------- MODULE LRUReplacer ----------------------------
(***************************************************************************)
(* The LRU replacer as a component (src/buffer/lru_replacer.cpp):          *)
(* any sequence of pin, unpin and victim calls, over any frames, with any  *)
(* capacity.  It implements LRUPolicy.                                     *)
(***************************************************************************)
EXTENDS LRUList, FiniteSets

CONSTANTS Frames,     \* the frame ids the caller uses
          capacity_   \* constructor argument: how many frames are tracked

ASSUME FramesAssumption == Frames \subseteq Nat
ASSUME CapacityAssumption == capacity_ \in Nat

VARIABLES lru_list_,  \* most recently unpinned frame first
          returned    \* what the last call of victim() returned

vars == <<lru_list_, returned>>

Init == lru_list_ = <<>> /\ returned = INVALID_FRAME_ID

pin(frame_id) ==
    /\ lru_list_' = PinFrame(lru_list_, frame_id)
    /\ UNCHANGED returned

unpin(frame_id) ==
    /\ lru_list_' = UnpinFrame(lru_list_, frame_id, capacity_)
    /\ UNCHANGED returned

victim ==
    /\ returned' = VictimFrame(lru_list_)
    /\ lru_list_' = PopVictim(lru_list_)

Next == (\E frame_id \in Frames : pin(frame_id) \/ unpin(frame_id)) \/ victim

Spec == Init /\ [][Next]_vars

-----------------------------------------------------------------------------
TypeOK ==
    /\ lru_list_ \in Seq(Frames)
    /\ returned \in Frames \cup {INVALID_FRAME_ID}

(* The list never grows past the capacity and holds no frame twice: a frame
   listed twice would be handed out again while its new page is pinned
   (frame_map_ could then erase only one of the two copies). *)
ListedOnce ==
    /\ Len(lru_list_) <= capacity_
    /\ \A i, j \in DOMAIN lru_list_ : lru_list_[i] = lru_list_[j] => i = j

\* The list read as the policy's state: what is evictable, and in which order
\* it became so (the back of the list first).
Evictable == {lru_list_[i] : i \in DOMAIN lru_list_}

Older ==
    {pair \in Frames \X Frames :
        \E i, j \in DOMAIN lru_list_ :
            i < j /\ lru_list_[i] = pair[2] /\ lru_list_[j] = pair[1]}

Policy ==
    INSTANCE LRUPolicy WITH
        capacity <- capacity_, evictable <- Evictable, older <- Older

(* The list implements the policy: whatever the interleaving of pins, unpins
   and victims, victim() returns the frame that has been evictable longest
   (lru_replacer.cpp, victim and unpin). *)
ImplementsPolicy == Policy!Spec

=============================================================================
