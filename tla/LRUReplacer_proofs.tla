------------------------- MODULE LRUReplacer_proofs -------------------------
(***************************************************************************)
(* The replacer's list implements the LRU policy, for every set of frames  *)
(* and every capacity.                                                     *)
(***************************************************************************)
EXTENDS LRUReplacer, LRUList_proofs

(* The list is well formed: no frame twice, never longer than the capacity. *)
ListOK == TypeOK /\ ListedOnce

LEMMA InitListOK == Init => ListOK
  BY CapacityAssumption DEF Init, ListOK, TypeOK, ListedOnce

(* Every call of pin, unpin and victim keeps the list well formed. *)
LEMMA NextListOK == ListOK /\ [Next]_vars => ListOK'
<1> SUFFICES ASSUME ListOK, [Next]_vars
             PROVE  ListOK'
  OBVIOUS
<1> USE CapacityAssumption
<1>1. /\ lru_list_ \in Seq(Frames) /\ Len(lru_list_) <= capacity_
      /\ OnceEach(lru_list_) /\ returned \in Frames \cup {INVALID_FRAME_ID}
  BY DEF ListOK, TypeOK, ListedOnce, OnceEach
<1>a. ASSUME lru_list_' \in Seq(Frames), Len(lru_list_') <= capacity_,
             OnceEach(lru_list_'), returned' \in Frames \cup {INVALID_FRAME_ID}
      PROVE  ListOK'
  BY <1>a DEF ListOK, TypeOK, ListedOnce, OnceEach
<1>b. Len(lru_list_) \in Nat
  BY <1>1, LenProperties
<1>2. ASSUME NEW f \in Frames, pin(f)
      PROVE  ListOK'
  <2>1. /\ PinFrame(lru_list_, f) \in Seq(Frames)
        /\ OnceEach(PinFrame(lru_list_, f))
        /\ Len(PinFrame(lru_list_, f)) <= Len(lru_list_)
    BY <1>1, PinFrameProperties
  <2>2. Len(PinFrame(lru_list_, f)) \in Nat
    BY <2>1, LenProperties
  <2> QED
    BY <1>a, <1>b, <1>1, <1>2, <2>1, <2>2 DEF pin
<1>3. ASSUME NEW f \in Frames, unpin(f)
      PROVE  ListOK'
  BY <1>a, <1>1, <1>3, UnpinFrameProperties DEF unpin
<1>4. ASSUME victim
      PROVE  ListOK'
  <2>1. CASE lru_list_ = <<>>
    BY <1>a, <1>1, <1>4, <2>1 DEF victim, VictimFrame, PopVictim
  <2>2. CASE lru_list_ # <<>>
    <3>1. /\ VictimFrame(lru_list_) \in Frames
          /\ PopVictim(lru_list_) \in Seq(Frames)
          /\ OnceEach(PopVictim(lru_list_))
          /\ Len(PopVictim(lru_list_)) <= Len(lru_list_)
      BY <1>1, <2>2, PopVictimProperties
    <3>2. Len(PopVictim(lru_list_)) \in Nat
      BY <3>1, LenProperties
    <3> QED
      BY <1>a, <1>b, <1>1, <1>4, <3>1, <3>2 DEF victim
  <2> QED
    BY <2>1, <2>2
<1>5. ASSUME UNCHANGED vars
      PROVE  ListOK'
  BY <1>a, <1>1, <1>5 DEF vars
<1> QED
  BY <1>2, <1>3, <1>4, <1>5 DEF Next

(* In every reachable state the list holds each frame at most once and no more
   frames than the capacity (LRUReplacer::unpin erases before it pushes). *)
THEOREM ListedOnceHolds == Spec => []ListedOnce
<1>1. ListOK => ListedOnce
  BY DEF ListOK
<1> QED
  BY InitListOK, NextListOK, <1>1, PTL DEF Spec

-----------------------------------------------------------------------------
(* The empty list is the policy's empty state. *)
LEMMA InitPolicy == Init => Policy!Init
  BY DEF Init, Policy!Init, Evictable, Older, INVALID_FRAME_ID, Policy!NoFrame

(* Two relations on frames that relate the same frames are equal. *)
LEMMA SameOlder ==
    ASSUME NEW R, NEW Q, R \subseteq Frames \X Frames, Q \subseteq Frames \X Frames,
           \A f, g \in Frames : <<f, g>> \in R <=> <<f, g>> \in Q
    PROVE  R = Q
  OBVIOUS

(* The policy counts as this module does. *)
LEMMA SameCardinality == \A S : Policy!Cardinality(S) = Cardinality(S)
  BY DEF Policy!Cardinality, Cardinality, Policy!IsFiniteSet, IsFiniteSet

(* Each call of the replacer is a step of the policy. *)
LEMMA NextPolicy == ListOK /\ ListOK' /\ [Next]_vars => [Policy!Next]_Policy!vars
<1> SUFFICES ASSUME ListOK, ListOK', [Next]_vars
             PROVE  [Policy!Next]_Policy!vars
  OBVIOUS
<1> USE CapacityAssumption
<1>1. /\ lru_list_ \in Seq(Frames) /\ OnceEach(lru_list_)
      /\ lru_list_' \in Seq(Frames)
  BY DEF ListOK, TypeOK, ListedOnce, OnceEach
<1>2. /\ Evictable = Listed(lru_list_) /\ Evictable \subseteq Frames
      /\ Older \subseteq Frames \X Frames
      /\ \A f, g \in Frames : <<f, g>> \in Older <=> Before(lru_list_, g, f)
  <2>1. \A i \in DOMAIN lru_list_ : lru_list_[i] \in Frames
    BY <1>1, LenProperties, ElementOfSeq
  <2> QED
    BY <2>1 DEF Evictable, Older, Listed, Before
<1>3. /\ Evictable' = Listed(lru_list_')
      /\ Older' \subseteq Frames \X Frames
      /\ \A f, g \in Frames : <<f, g>> \in Older' <=> Before(lru_list_', g, f)
  <2>1. \A i \in DOMAIN lru_list_' : lru_list_'[i] \in Frames
    BY <1>1, LenProperties, ElementOfSeq
  <2> QED
    BY <2>1 DEF Evictable, Older, Listed, Before
<1>4. \A f : Policy!Without(f) \subseteq Frames \X Frames
  BY <1>2 DEF Policy!Without
<1>5. \A f : \A a, b \in Frames :
        <<a, b>> \in Policy!Without(f) <=> Before(lru_list_, b, a) /\ a # f /\ b # f
  BY <1>2 DEF Policy!Without
\* The frame f leaves the list: pin, an unpin that is forgotten, a victim.
<1>6. ASSUME NEW f, Listed(lru_list_') = Listed(lru_list_) \ {f},
             \A a, b : Before(lru_list_', a, b) <=> Before(lru_list_, a, b) /\ a # f /\ b # f
      PROVE  Evictable' = Evictable \ {f} /\ Older' = Policy!Without(f)
  <2>1. \A a, b \in Frames : <<a, b>> \in Older' <=> <<a, b>> \in Policy!Without(f)
    BY <1>3, <1>5, <1>6
  <2>2. Older' = Policy!Without(f)
    BY <2>1, <1>3, <1>4, SameOlder
  <2> QED
    BY <2>2, <1>2, <1>3, <1>6
<1>7. ASSUME NEW f \in Frames, pin(f)
      PROVE  Policy!Next
  <2>1. Evictable' = Evictable \ {f} /\ Older' = Policy!Without(f)
    BY <1>1, <1>6, <1>7, PinFrameProperties DEF pin
  <2>2. Policy!Pin(f)
    BY <1>7, <2>1 DEF pin, Policy!Pin
  <2> QED
    BY <2>2 DEF Policy!Next
<1>8. ASSUME NEW f \in Frames, unpin(f)
      PROVE  Policy!Next
  <2> DEFINE rest == PinFrame(lru_list_, f)
  <2>1. /\ rest \in Seq(Frames) /\ OnceEach(rest)
        /\ Listed(rest) = Listed(lru_list_) \ {f}
        /\ \A a, b : Before(rest, a, b) <=> Before(lru_list_, a, b) /\ a # f /\ b # f
    BY <1>1, PinFrameProperties
  <2>2. Cardinality(Evictable \ {f}) = Len(rest)
    BY <2>1, <1>2, ListedCardinality
  <2>3. Len(rest) \in Nat
    BY <2>1, LenProperties
  <2> HIDE DEF rest
  <2>4. lru_list_' = UnpinFrame(lru_list_, f, capacity_) /\ returned' = returned
    BY <1>8 DEF unpin
  <2>5. CASE Len(rest) >= capacity_
    <3>1. lru_list_' = rest
      BY <1>1, <2>4, <2>5, UnpinFrameProperties DEF rest
    <3>2. Evictable' = Evictable \ {f} /\ Older' = Policy!Without(f)
      BY <3>1, <2>1, <1>6
    <3>3. Cardinality(Evictable \ {f}) >= capacity_
      BY <2>2, <2>5, Zenon
    <3>4. Policy!UnpinForgotten(f)
      BY <3>2, <3>3, <2>4, SameCardinality DEF Policy!UnpinForgotten
    <3> QED
      BY <3>4 DEF Policy!Next
  <2>6. CASE ~(Len(rest) >= capacity_)
    <3>1. /\ Listed(lru_list_') = Listed(lru_list_) \cup {f}
          /\ \A a, b : Before(lru_list_', a, b) <=>
                \/ Before(lru_list_, a, b) /\ a # f /\ b # f
                \/ a = f /\ b \in Listed(lru_list_) \ {f}
      <4>1. Len(rest) < capacity_
        BY <2>3, <2>6
      <4> QED
        BY <4>1, <1>1, <2>4, UnpinFrameProperties DEF rest
    <3> DEFINE younger == (Evictable \ {f}) \X {f}
    <3>2. younger \subseteq Frames \X Frames
      BY <1>2
    <3>3. ASSUME NEW a \in Frames, NEW b \in Frames
          PROVE  <<a, b>> \in Older' <=> <<a, b>> \in Policy!Without(f) \cup younger
      <4>1. <<a, b>> \in younger <=> a \in Evictable \ {f} /\ b = f
        OBVIOUS
      <4>2. <<a, b>> \in Older' <=> Before(lru_list_', b, a)
        BY <1>3
      <4>3. <<a, b>> \in Policy!Without(f) <=> Before(lru_list_, b, a) /\ a # f /\ b # f
        BY <1>5
      <4> HIDE DEF younger
      <4> QED
        BY <4>1, <4>2, <4>3, <3>1, <1>2
    <3>4. Older' = Policy!Without(f) \cup younger
      BY <3>2, <3>3, <1>3, <1>4, SameOlder
    <3>5. Evictable' = Evictable \cup {f}
      BY <3>1, <1>2, <1>3
    <3>6. Cardinality(Evictable \ {f}) < capacity_
      <4>1. Len(rest) < capacity_
        BY <2>3, <2>6
      <4> QED
        BY <4>1, <2>2, Zenon
    <3>7. Policy!Unpin(f)
      BY <3>4, <3>5, <3>6, <2>4, SameCardinality DEF Policy!Unpin
    <3> QED
      BY <3>7 DEF Policy!Next
  <2> QED
    BY <2>5, <2>6
<1>9. ASSUME victim
      PROVE  Policy!Next
  <2>1. CASE lru_list_ = <<>>
    <3>1. /\ lru_list_' = lru_list_ /\ returned' = Policy!NoFrame
          /\ Evictable = {}
      <4>1. DOMAIN lru_list_ = {}
        BY <2>1
      <4> QED
        BY <4>1, <1>9, <2>1 DEF victim, VictimFrame, PopVictim, INVALID_FRAME_ID,
                                Policy!NoFrame, Evictable
    <3>2. Evictable' = Evictable /\ Older' = Older
      BY <3>1 DEF Evictable, Older
    <3> QED
      BY <3>1, <3>2 DEF Policy!Next, Policy!NoVictim
  <2>2. CASE lru_list_ # <<>>
    <3> DEFINE f == VictimFrame(lru_list_)
    <3>1. /\ f \in Frames /\ f \in Listed(lru_list_)
          /\ Listed(PopVictim(lru_list_)) = Listed(lru_list_) \ {f}
          /\ \A a \in Listed(lru_list_) \ {f} : Before(lru_list_, a, f)
          /\ \A a, b : Before(PopVictim(lru_list_), a, b)
                        <=> Before(lru_list_, a, b) /\ a # f /\ b # f
      BY <1>1, <2>2, PopVictimProperties
    <3> HIDE DEF f
    <3>2. lru_list_' = PopVictim(lru_list_) /\ returned' = f
      BY <1>9 DEF victim, f
    <3>3. Evictable' = Evictable \ {f} /\ Older' = Policy!Without(f)
      BY <3>1, <3>2, <1>6
    <3>4. f \in Evictable /\ \A other \in Evictable \ {f} : <<f, other>> \in Older
      BY <3>1, <1>2
    <3>5. Policy!Victim
      BY <3>2, <3>3, <3>4 DEF Policy!Victim
    <3> QED
      BY <3>5 DEF Policy!Next
  <2> QED
    BY <2>1, <2>2
<1>10. ASSUME UNCHANGED vars
       PROVE  UNCHANGED Policy!vars
  BY <1>10 DEF vars, Policy!vars, Evictable, Older
<1> QED
  BY <1>7, <1>8, <1>9, <1>10 DEF Next

(* Whatever the calls, victim() returns the frame that has been evictable
   longest, a pinned frame is never returned, and a frame is forgotten only
   when capacity others are listed: the list is an LRU policy. *)
THEOREM ReplacerImplementsPolicy == Spec => ImplementsPolicy
  BY InitListOK, NextListOK, InitPolicy, NextPolicy, PTL
     DEF Spec, ImplementsPolicy, Policy!Spec

=============================================================================
