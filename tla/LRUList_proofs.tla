--------------------------- MODULE LRUList_proofs ---------------------------
(***************************************************************************)
(* What each operation does to the replacer's list, for every list and     *)
(* frame: its type, the frames it holds and the order they are in.         *)
(***************************************************************************)
EXTENDS LRUList, SequenceTheorems, FiniteSetTheorems, TLAPS

\* The frames of a list, and the two orders the proofs speak of.
Listed(list) == {list[i] : i \in DOMAIN list}

OnceEach(list) == \A i, j \in DOMAIN list : list[i] = list[j] => i = j

Before(list, a, b) ==
    \E i, j \in DOMAIN list : i < j /\ list[i] = a /\ list[j] = b

-----------------------------------------------------------------------------
(* The list without the element at position k, element by element. *)
LEMMA RemoveAtElements ==
    ASSUME NEW S, NEW list \in Seq(S), NEW k \in 1 .. Len(list)
    PROVE  /\ RemoveAt(list, k) \in Seq(S)
           /\ Len(RemoveAt(list, k)) = Len(list) - 1
           /\ \A i \in 1 .. Len(list) - 1 :
                 RemoveAt(list, k)[i] = IF i < k THEN list[i] ELSE list[i + 1]
<1> DEFINE front == SubSeq(list, 1, k - 1)
           back  == SubSeq(list, k + 1, Len(list))
<1>a. /\ Len(list) \in Nat /\ DOMAIN list = 1 .. Len(list)
      /\ \A i \in 1 .. Len(list) : list[i] \in S
  BY LenProperties, ElementOfSeq
<1>b. \A i \in 1 .. k - 1 : list[i] \in S
  BY <1>a
<1>c. \A i \in k + 1 .. Len(list) : list[i] \in S
  BY <1>a
<1>d. /\ SubSeq(list, 1, k - 1) \in Seq(S)
      /\ Len(SubSeq(list, 1, k - 1)) = IF 1 <= k - 1 THEN k - 1 - 1 + 1 ELSE 0
      /\ \A i \in 1 .. k - 1 - 1 + 1 : SubSeq(list, 1, k - 1)[i] = list[1 + i - 1]
  BY <1>a, <1>b, 1 \in Int, k - 1 \in Int, SubSeqProperties
<1>e. /\ SubSeq(list, k + 1, Len(list)) \in Seq(S)
      /\ Len(SubSeq(list, k + 1, Len(list))) =
            IF k + 1 <= Len(list) THEN Len(list) - (k + 1) + 1 ELSE 0
      /\ \A i \in 1 .. Len(list) - (k + 1) + 1 :
            SubSeq(list, k + 1, Len(list))[i] = list[k + 1 + i - 1]
  BY <1>a, <1>c, k + 1 \in Int, Len(list) \in Int, SubSeqProperties
<1>1. /\ front \in Seq(S) /\ Len(front) = k - 1
      /\ \A i \in 1 .. k - 1 : front[i] = list[i]
  BY <1>a, <1>d
<1>2. /\ back \in Seq(S) /\ Len(back) = Len(list) - k
      /\ \A i \in 1 .. Len(list) - k : back[i] = list[k + i]
  <2>1. back \in Seq(S) /\ Len(back) = Len(list) - k
    <3>1. CASE k + 1 <= Len(list)
      BY <3>1, <1>a, <1>e
    <3>2. CASE ~(k + 1 <= Len(list))
      <4>1. Len(back) = 0
        BY <3>2, <1>a, <1>e
      <4>2. \A n \in Nat : k \in 1 .. n /\ ~(k + 1 <= n) => n - k = 0
        OBVIOUS
      <4> QED
        BY <4>1, <4>2, <3>2, <1>a, <1>e
    <3> QED
      BY <3>1, <3>2
  <2>2. ASSUME NEW i \in 1 .. Len(list) - k
        PROVE  back[i] = list[k + i]
    <3>1. i \in 1 .. Len(list) - (k + 1) + 1 /\ k + 1 + i - 1 = k + i
      BY <1>a
    <3> QED
      BY <3>1, <1>e
  <2> QED
    BY <2>1, <2>2
<1> HIDE DEF front, back
<1>3. /\ front \o back \in Seq(S)
      /\ Len(front \o back) = Len(front) + Len(back)
      /\ \A i \in 1 .. Len(front) + Len(back) :
            (front \o back)[i] = IF i <= Len(front) THEN front[i] ELSE back[i - Len(front)]
  BY <1>1, <1>2, ConcatProperties, Zenon
<1>4. RemoveAt(list, k) = front \o back
  BY DEF RemoveAt, front, back
<1>5. Len(front \o back) = Len(list) - 1
  BY <1>1, <1>2, <1>3, <1>a
<1>6. ASSUME NEW i \in 1 .. Len(list) - 1
      PROVE  (front \o back)[i] = IF i < k THEN list[i] ELSE list[i + 1]
  <2>1. (front \o back)[i] = IF i <= k - 1 THEN front[i] ELSE back[i - (k - 1)]
    BY <1>1, <1>2, <1>3, <1>a
  <2>2. CASE i < k
    BY <2>1, <2>2, <1>1, <1>a
  <2>3. CASE ~(i < k)
    <3>1. i - (k - 1) \in 1 .. Len(list) - k
      BY <2>3, <1>a
    <3>2. back[i - (k - 1)] = list[k + (i - (k - 1))]
      BY <3>1, <1>2
    <3> QED
      BY <2>1, <2>3, <3>2, <1>a
  <2> QED
    BY <2>2, <2>3
<1> QED
  BY <1>3, <1>4, <1>5, <1>6

(* pin takes the frame out of the list and changes nothing else: the other
   frames stay, each once, in the order they were in. *)
LEMMA PinFrameProperties ==
    ASSUME NEW S, NEW list \in Seq(S), OnceEach(list), NEW f
    PROVE  /\ PinFrame(list, f) \in Seq(S)
           /\ OnceEach(PinFrame(list, f))
           /\ Listed(PinFrame(list, f)) = Listed(list) \ {f}
           /\ Len(PinFrame(list, f)) <= Len(list)
           /\ \A a, b : Before(PinFrame(list, f), a, b)
                          <=> Before(list, a, b) /\ a # f /\ b # f
<1>a. Len(list) \in Nat /\ DOMAIN list = 1 .. Len(list)
  BY LenProperties
<1>1. CASE ~Contains(list, f)
  <2>1. PinFrame(list, f) = list
    BY <1>1 DEF PinFrame
  <2>2. \A i \in 1 .. Len(list) : list[i] # f
    BY <1>1 DEF Contains
  <2> QED
    BY <2>1, <2>2, <1>a DEF Listed, Before
<1>2. CASE Contains(list, f)
  <2> DEFINE k == frame_map(list, f)
             rest == RemoveAt(list, k)
  <2>1. k \in 1 .. Len(list) /\ list[k] = f
    BY <1>2, <1>a DEF Contains, frame_map
  <2>2. PinFrame(list, f) = rest
    BY <1>2 DEF PinFrame
  <2> HIDE DEF k
  <2>3. /\ rest \in Seq(S)
        /\ Len(rest) = Len(list) - 1
        /\ \A i \in 1 .. Len(list) - 1 :
              rest[i] = IF i < k THEN list[i] ELSE list[i + 1]
    BY <2>1, RemoveAtElements
  <2> HIDE DEF rest
  <2>4. DOMAIN rest = 1 .. Len(list) - 1
    BY <2>3, LenProperties
  \* An element of rest is an element of list at a place other than k, in
  \* the same order, and the other way round.
  <2> DEFINE old(i) == IF i < k THEN i ELSE i + 1
             new(i) == IF i < k THEN i ELSE i - 1
  <2>5. \A i \in DOMAIN rest :
          old(i) \in DOMAIN list /\ old(i) # k /\ rest[i] = list[old(i)]
    BY <2>1, <2>3, <2>4, <1>a
  <2>6. \A i, j \in DOMAIN rest :
          (i < j <=> old(i) < old(j)) /\ (old(i) = old(j) => i = j)
    BY <2>1, <2>4, <1>a
  <2>7. \A i \in DOMAIN list : i # k =>
          new(i) \in DOMAIN rest /\ rest[new(i)] = list[i] /\ old(new(i)) = i
    BY <2>1, <2>3, <2>4, <1>a
  <2> HIDE DEF old, new
  <2>8. \A i \in DOMAIN list : i # k => list[i] # f
    BY <2>1, <1>a DEF OnceEach
  <2>9. OnceEach(rest)
    BY <2>5, <2>6 DEF OnceEach
  <2>10. Listed(rest) = Listed(list) \ {f}
    BY <2>1, <2>5, <2>7, <2>8 DEF Listed
  <2>11. ASSUME NEW a, NEW b
         PROVE  Before(rest, a, b) <=> Before(list, a, b) /\ a # f /\ b # f
    <3>1. ASSUME Before(rest, a, b)
          PROVE  Before(list, a, b) /\ a # f /\ b # f
      BY <3>1, <2>5, <2>6, <2>8 DEF Before
    <3>2. ASSUME Before(list, a, b), a # f, b # f
          PROVE  Before(rest, a, b)
      <4>1. PICK i, j \in DOMAIN list : i < j /\ list[i] = a /\ list[j] = b
        BY <3>2 DEF Before
      <4>2. i # k /\ j # k
        BY <4>1, <3>2, <2>1
      <4> QED
        BY <4>1, <4>2, <2>6, <2>7 DEF Before
    <3> QED
      BY <3>1, <3>2
  <2>12. Len(rest) <= Len(list)
    BY <2>3, <1>a
  <2> QED
    BY <2>2, <2>3, <2>9, <2>10, <2>11, <2>12
<1> QED
  BY <1>1, <1>2

(* unpin lists the frame once, in front of all the others; when capacity
   other frames are listed it is only taken out. *)
LEMMA UnpinFrameProperties ==
    ASSUME NEW S, NEW list \in Seq(S), OnceEach(list), NEW f \in S,
           NEW capacity \in Nat
    PROVE  LET unpinned == UnpinFrame(list, f, capacity)
           IN  /\ unpinned \in Seq(S)
               /\ OnceEach(unpinned)
               /\ Len(list) <= capacity => Len(unpinned) <= capacity
               /\ Len(PinFrame(list, f)) >= capacity =>
                     unpinned = PinFrame(list, f)
               /\ Len(PinFrame(list, f)) < capacity =>
                     /\ Listed(unpinned) = Listed(list) \cup {f}
                     /\ \A a, b : Before(unpinned, a, b) <=>
                           \/ Before(list, a, b) /\ a # f /\ b # f
                           \/ a = f /\ b \in Listed(list) \ {f}
<1> DEFINE rest == PinFrame(list, f)
           longer == <<f>> \o rest
<1>1. /\ rest \in Seq(S) /\ OnceEach(rest)
      /\ Listed(rest) = Listed(list) \ {f}
      /\ Len(rest) <= Len(list)
      /\ \A a, b : Before(rest, a, b) <=> Before(list, a, b) /\ a # f /\ b # f
  BY PinFrameProperties
<1>2. UnpinFrame(list, f, capacity) = IF Len(rest) >= capacity THEN rest ELSE longer
  BY DEF UnpinFrame
<1> HIDE DEF rest
<1>3. Len(rest) \in Nat /\ DOMAIN rest = 1 .. Len(rest) /\ Len(list) \in Nat
  BY <1>1, LenProperties
<1>4. /\ longer \in Seq(S) /\ Len(longer) = Len(rest) + 1
      /\ \A i \in 1 .. Len(rest) + 1 :
            longer[i] = IF i = 1 THEN f ELSE rest[i - 1]
  <2>1. <<f>> \in Seq(S) /\ Len(<<f>>) = 1 /\ <<f>>[1] = f
    OBVIOUS
  <2>2. /\ longer \in Seq(S) /\ Len(longer) = 1 + Len(rest)
        /\ \A i \in 1 .. 1 + Len(rest) :
              longer[i] = IF i <= 1 THEN <<f>>[i] ELSE rest[i - 1]
    BY <1>1, <2>1, ConcatProperties
  <2> QED
    BY <2>1, <2>2, <1>3
<1> HIDE DEF longer
<1>5. DOMAIN longer = 1 .. Len(rest) + 1
  BY <1>4, LenProperties
<1>6. f \notin Listed(rest)
  BY <1>1
<1>7. /\ longer[1] = f
      /\ \A i \in DOMAIN longer : i # 1 =>
            i - 1 \in DOMAIN rest /\ longer[i] = rest[i - 1]
      /\ \A i \in DOMAIN rest : i + 1 \in DOMAIN longer /\ longer[i + 1] = rest[i]
  BY <1>3, <1>4, <1>5
<1>8. OnceEach(longer)
  <2> SUFFICES ASSUME NEW i \in DOMAIN longer, NEW j \in DOMAIN longer,
                      longer[i] = longer[j]
               PROVE  i = j
    BY DEF OnceEach
  <2>1. CASE i = 1 \/ j = 1
    BY <2>1, <1>6, <1>7 DEF Listed
  <2>2. CASE i # 1 /\ j # 1
    <3>1. i - 1 = j - 1
      BY <2>2, <1>1, <1>7 DEF OnceEach
    <3> QED
      BY <3>1, <1>5, <1>3
  <2> QED
    BY <2>1, <2>2
<1>9. Listed(longer) = Listed(list) \cup {f}
  <2>1. Listed(longer) = Listed(rest) \cup {f}
    BY <1>7, <1>5, <1>3 DEF Listed
  <2> QED
    BY <2>1, <1>1
<1>10. ASSUME NEW a, NEW b
       PROVE  Before(longer, a, b) <=>
                \/ Before(rest, a, b)
                \/ a = f /\ b \in Listed(rest)
  <2>1. ASSUME Before(longer, a, b), a # f
        PROVE  Before(rest, a, b)
    <3>1. PICK i, j \in DOMAIN longer : i < j /\ longer[i] = a /\ longer[j] = b
      BY <2>1 DEF Before
    <3>2. i # 1 /\ j # 1
      BY <3>1, <2>1, <1>7, <1>5, <1>3
    <3>3. i - 1 < j - 1
      BY <3>1, <1>5, <1>3
    <3> QED
      BY <3>1, <3>2, <3>3, <1>7 DEF Before
  <2>2. ASSUME Before(longer, a, b), a = f
        PROVE  b \in Listed(rest)
    <3>1. PICK i, j \in DOMAIN longer : i < j /\ longer[i] = a /\ longer[j] = b
      BY <2>2 DEF Before
    <3>2. j # 1
      BY <3>1, <1>5, <1>3
    <3> QED
      BY <3>1, <3>2, <1>7 DEF Listed
  <2>3. ASSUME Before(rest, a, b)
        PROVE  Before(longer, a, b)
    <3>1. PICK i, j \in DOMAIN rest : i < j /\ rest[i] = a /\ rest[j] = b
      BY <2>3 DEF Before
    <3>2. i + 1 < j + 1
      BY <3>1, <1>3
    <3> QED
      BY <3>1, <3>2, <1>7 DEF Before
  <2>4. ASSUME a = f, b \in Listed(rest)
        PROVE  Before(longer, a, b)
    <3>1. PICK j \in DOMAIN rest : rest[j] = b
      BY <2>4 DEF Listed
    <3>2. 1 \in DOMAIN longer /\ 1 < j + 1
      BY <3>1, <1>3, <1>5
    <3> QED
      BY <3>1, <3>2, <2>4, <1>7 DEF Before
  <2> QED
    BY <2>1, <2>2, <2>3, <2>4
<1>11. Len(list) <= capacity => Len(UnpinFrame(list, f, capacity)) <= capacity
  <2>1. CASE Len(rest) >= capacity
    BY <2>1, <1>1, <1>2, <1>3
  <2>2. CASE ~(Len(rest) >= capacity)
    BY <2>2, <1>2, <1>3, <1>4
  <2> QED
    BY <2>1, <2>2
<1>12. Len(rest) < capacity => UnpinFrame(list, f, capacity) = longer
  BY <1>2, <1>3
<1>13. Len(rest) >= capacity => UnpinFrame(list, f, capacity) = rest
  BY <1>2
<1>14. /\ UnpinFrame(list, f, capacity) \in Seq(S)
       /\ OnceEach(UnpinFrame(list, f, capacity))
  BY <1>2, <1>1, <1>4, <1>8
<1>15. \A a, b : Before(longer, a, b) <=>
          \/ Before(list, a, b) /\ a # f /\ b # f
          \/ a = f /\ b \in Listed(list) \ {f}
  BY <1>1, <1>10
<1> QED
  BY <1>9, <1>11, <1>12, <1>13, <1>14, <1>15 DEF rest

(* victim takes the last frame of the list, behind which there is no other. *)
LEMMA PopVictimProperties ==
    ASSUME NEW S, NEW list \in Seq(S), OnceEach(list), list # <<>>
    PROVE  LET f == VictimFrame(list)
           IN  /\ f \in S /\ f \in Listed(list)
               /\ PopVictim(list) \in Seq(S)
               /\ OnceEach(PopVictim(list))
               /\ Listed(PopVictim(list)) = Listed(list) \ {f}
               /\ Len(PopVictim(list)) <= Len(list)
               /\ \A a \in Listed(list) \ {f} : Before(list, a, f)
               /\ \A a, b : Before(PopVictim(list), a, b)
                             <=> Before(list, a, b) /\ a # f /\ b # f
<1> DEFINE n == Len(list)
           rest == SubSeq(list, 1, n - 1)
           f == list[n]
<1>1. /\ n \in Nat /\ n # 0 /\ DOMAIN list = 1 .. n
      /\ \A i \in 1 .. n : list[i] \in S
  BY LenProperties, ElementOfSeq, EmptySeq
<1>2. VictimFrame(list) = f /\ PopVictim(list) = rest
  BY DEF VictimFrame, PopVictim
<1> HIDE DEF n
<1>3. /\ rest \in Seq(S)
      /\ Len(rest) = IF 1 <= n - 1 THEN n - 1 - 1 + 1 ELSE 0
      /\ \A i \in 1 .. n - 1 - 1 + 1 : rest[i] = list[1 + i - 1]
  <2>1. \A i \in 1 .. n - 1 : list[i] \in S
    BY <1>1
  <2> QED
    BY <1>1, <2>1, 1 \in Int, n - 1 \in Int, SubSeqProperties
<1> HIDE DEF rest
<1>4. Len(rest) = n - 1
  BY <1>1, <1>3
<1>5. DOMAIN rest = 1 .. n - 1 /\ \A i \in 1 .. n - 1 : rest[i] = list[i]
  BY <1>1, <1>3, <1>4, LenProperties
<1>6. \A i \in DOMAIN list : i # n => i \in DOMAIN rest
  BY <1>1, <1>5
<1>7. \A i \in DOMAIN rest : i \in DOMAIN list /\ i < n /\ i # n
  BY <1>1, <1>5
<1>8. n \in DOMAIN list /\ f \in S /\ f \in Listed(list)
  BY <1>1 DEF Listed
<1>9. \A i \in DOMAIN list : i # n => list[i] # f
  BY <1>8 DEF OnceEach
<1>10. OnceEach(rest)
  BY <1>5, <1>7 DEF OnceEach
<1>11. Listed(rest) = Listed(list) \ {f}
  BY <1>5, <1>6, <1>7, <1>9 DEF Listed
<1>12. \A a \in Listed(list) \ {f} : Before(list, a, f)
  BY <1>1, <1>6, <1>7, <1>8 DEF Listed, Before
<1>13. ASSUME NEW a, NEW b
       PROVE  Before(rest, a, b) <=> Before(list, a, b) /\ a # f /\ b # f
  BY <1>5, <1>6, <1>7, <1>8, <1>9 DEF Before
<1>14. Len(rest) <= n
  BY <1>1, <1>4
<1> QED
  BY <1>2, <1>3, <1>8, <1>10, <1>11, <1>12, <1>13, <1>14 DEF n

(* A list that holds no frame twice is as long as the set of its frames. *)
LEMMA ListedCardinality ==
    ASSUME NEW S, NEW list \in Seq(S), OnceEach(list)
    PROVE  IsFiniteSet(Listed(list)) /\ Cardinality(Listed(list)) = Len(list)
<1> DEFINE n == Len(list)
<1>1. n \in Nat /\ list \in [1 .. n -> S] /\ DOMAIN list = 1 .. n
  BY LenProperties
<1> HIDE DEF n
<1>2. list \in [1 .. n -> Listed(list)]
  BY <1>1 DEF Listed
<1>3. list \in Bijection(1 .. n, Listed(list))
  BY <1>1, <1>2 DEF Listed, OnceEach, Bijection, Injection, Surjection, IsInjective
<1>4. ExistsBijection(1 .. n, Listed(list))
  BY <1>3 DEF ExistsBijection
<1> QED
  BY <1>1, <1>4, FS_NatBijection, FS_CountingElements DEF n

=============================================================================
