------------------------------ MODULE LRUList ------------------------------
(***************************************************************************)
(* The replacer's list as a value (src/buffer/lru_replacer.cpp).           *)
(*                                                                         *)
(* LRUReplacer keeps std::list lru_list_, most recently unpinned frame at  *)
(* the front, and frame_map_, the iterator of each listed frame.  The two  *)
(* are updated together, so one sequence stands for both and frame_map_    *)
(* is the position of a frame in it.  The operators are pure: the state    *)
(* machines LRUReplacer and BufferManager apply them to their own list.    *)
(***************************************************************************)
EXTENDS Integers, Sequences, SequencesExt

\* types.hpp: the frame id that stands for "no frame" (std::nullopt here).
INVALID_FRAME_ID == -1

frame_map(lru_list, frame) == CHOOSE i \in DOMAIN lru_list : lru_list[i] = frame

\* Mutant: pin leaves the list alone.
PinIgnored(lru_list, frame) == lru_list

\* pin: the frame leaves the list, wherever it is.
PinFrame(lru_list, frame) ==
    IF Contains(lru_list, frame)
    THEN RemoveAt(lru_list, frame_map(lru_list, frame))
    ELSE lru_list

\* Mutant: the capacity is tested one too low.
UnpinLosesLast(lru_list, frame, capacity) ==
    LET rest == PinFrame(lru_list, frame)
    IN  IF Len(rest) >= capacity - 1 THEN rest ELSE <<frame>> \o rest

\* unpin: erased from its old place first, so the capacity test sees the
\* list without it; a full list drops the frame.
UnpinFrame(lru_list, frame, capacity) ==
    LET rest == PinFrame(lru_list, frame)
    IN  IF Len(rest) >= capacity THEN rest ELSE <<frame>> \o rest

\* Mutant: the most recently unpinned frame is evicted.
VictimNewest(lru_list) == IF lru_list = <<>> THEN INVALID_FRAME_ID ELSE lru_list[1]

\* victim: the back of the list is returned and popped.
VictimFrame(lru_list) ==
    IF lru_list = <<>> THEN INVALID_FRAME_ID ELSE lru_list[Len(lru_list)]

PopVictim(lru_list) ==
    IF lru_list = <<>> THEN lru_list ELSE SubSeq(lru_list, 1, Len(lru_list) - 1)

=============================================================================
