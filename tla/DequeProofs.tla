---------------------------- MODULE DequeProofs ----------------------------
(***************************************************************************)
(* The ring buffer of a deque stays closed, without gaps and within        *)
(* maxlen, iterators stay on their items, and every operation does to the  *)
(* items what DequeSpec does to a sequence, for every set of values, every *)
(* initial length and every maxlen but 0.                                  *)
(*                                                                         *)
(*  - The inductive invariant IInv: the ring (TypeOK and LengthIsBounded), *)
(*    a value in every slot from head to tail, and where iterators stand.  *)
(*  - The refinement: Contents, the items in order, is what an operation   *)
(*    of the abstract deque makes of it (the lemmas ...IsExact), so that   *)
(*    a step of the ring is a step of the sequence or none (StepRefines).  *)
(***************************************************************************)
EXTENDS Deque, SequenceTheorems, TLAPS

\* Every slot between head and tail holds a value.
Present == \A k \in 0 .. itemCnt - 1 : data[Slot(k)] \in Values

\* Where an iterator stands once it has moved, and before.
IteratorPlaced ==
    /\ iter.class = "deque_iterator" =>
          iter.cur = IF iter.moved = 0 THEN head - 1 ELSE Slot(iter.moved - 1)
    /\ iter.class = "deque_reverse_iterator" =>
          iter.cur = IF iter.moved = 0 THEN tail ELSE Slot(itemCnt - iter.moved)

Ring == TypeOK /\ LengthIsBounded
IInv == Ring /\ Present /\ IteratorPlaced
-----------------------------------------------------------------------------
LEMMA FirstLengths ==
    ASSUME 0 \notin MaxLens, NEW n \in MaxLens
    PROVE  /\ FirstLength(n) \in Nat \ {0}
           /\ n # Unbounded => FirstLength(n) <= n
  BY MaxLensAssumption, LengthAssumption DEF FirstLength, Smaller

\* An operation that invalidates the iterators places them too.
LEMMA StaleIsPlaced == Mutated => IteratorPlaced'
  BY DEF Mutated, IteratorPlaced, Stale

LEMMA Initially == ASSUME 0 \notin MaxLens PROVE Init => IInv
<1> SUFFICES ASSUME Init PROVE IInv
  OBVIOUS
<1> QED
  BY FirstLengths DEF Init, IInv, Ring, TypeOK, LengthIsBounded, Present, IteratorPlaced, Stale, Slots, Slot,
    Elements, Empty

LEMMA ConstructKeeps ==
    ASSUME 0 \notin MaxLens, NEW n \in MaxLens, Construct(n)
    PROVE  IInv'
<1>1. Ring' /\ Present'
  BY FirstLengths DEF Construct, Mutated, Ring, TypeOK, LengthIsBounded, Present, Stale, Slots, Slot,
    Elements, Empty
<1> QED
  BY <1>1, StaleIsPlaced DEF Construct, IInv
-----------------------------------------------------------------------------
\* The ring in numbers, and what makes a ring after an operation.
LEMMA RingFacts ==
    ASSUME Ring
    PROVE  /\ length \in Nat \ {0} /\ itemCnt \in 0 .. length
           /\ head \in 0 .. length - 1 /\ tail \in 0 .. length - 1
           /\ tail = IF head + itemCnt >= length THEN head + itemCnt - length ELSE head + itemCnt
           /\ data \in [0 .. length - 1 -> Elements]
           /\ maxLen \in MaxLens
           /\ maxLen # Unbounded => length <= maxLen
  BY DEF Ring, TypeOK, LengthIsBounded, Slots, Slot

LEMMA MakesRing ==
    ASSUME NEW n \in Nat, NEW c \in 0 .. n, NEW h \in 0 .. n - 1, NEW t \in 0 .. n - 1,
           length' = n, itemCnt' = c, head' = h, tail' = t,
           t = IF h + c >= n THEN h + c - n ELSE h + c,
           data' \in [0 .. n - 1 -> Elements],
           maxLen' \in MaxLens, maxLen' # Unbounded => n <= maxLen', Mutated
    PROVE  Ring'
<1>1. Slot(itemCnt)' = t /\ Slots' = 0 .. n - 1
  BY DEF Slot, Slots
<1>2. Stale \in [class : {"stale", "deque_iterator", "deque_reverse_iterator"},
                 cur : -1 .. n - 1, moved : 0 .. c]
  BY DEF Stale
<1> QED
  BY <1>1, <1>2 DEF Ring, TypeOK, LengthIsBounded, Mutated, Elements

\* Positions are slots after an operation too.
LEMMA SlotNext ==
    ASSUME NEW n \in Nat, NEW h \in 0 .. n - 1, NEW k \in 0 .. n - 1, length' = n, head' = h
    PROVE  /\ Slot(k)' = IF h + k >= n THEN h + k - n ELSE h + k
           /\ Slot(k)' \in 0 .. n - 1
<1>1. Slot(k)' = IF h + k >= n THEN h + k - n ELSE h + k
  BY DEF Slot
<1> QED
  BY <1>1

\* A deque that has maxlen items has no empty slot.
LEMMA FullHasNoGap == ASSUME Ring, itemCnt = maxLen PROVE length = itemCnt /\ tail = head
  BY MaxLensAssumption DEF Ring, TypeOK, LengthIsBounded, Slots, Slot

LEMMA GrownLengths ==
    ASSUME Ring, itemCnt # maxLen, itemCnt = length
    PROVE  /\ GrownLength \in Nat
           /\ GrownLength > length
           /\ maxLen # Unbounded => GrownLength <= maxLen
  BY MaxLensAssumption DEF Ring, TypeOK, LengthIsBounded, Slots, GrownLength, Smaller

\* Within the ring, positions are slots, and the tail is the slot after them.
LEMMA SlotFacts ==
    ASSUME Ring, NEW k \in 0 .. itemCnt - 1
    PROVE  /\ Slot(k) \in Slots
           /\ itemCnt < length => Slot(k) # tail
           /\ itemCnt < length => Slot(k) # Before(head)
           /\ k = itemCnt - 1 <=> Slot(k) = Before(tail)
           /\ k = 0 <=> Slot(k) = head
           /\ Offset(Slot(k)) = k
  BY DEF Ring, TypeOK, Slots, Slot, Before, Offset

\* The slot after a position is the slot of the next one.
LEMMA AfterSlot ==
    ASSUME Ring, NEW m \in 0 .. itemCnt - 1
    PROVE  /\ After(IF m = 0 THEN head - 1 ELSE Slot(m - 1)) = Slot(m)
           /\ Before(IF m = 0 THEN tail ELSE Slot(itemCnt - m)) = Slot(itemCnt - (m + 1))
<1>1. CASE m = 0
  BY <1>1, RingFacts DEF After, Before, Slot
<1>2. CASE m # 0
  <2>1. After(Slot(m - 1)) = Slot(m)
    <3>1. CASE head + m > length
      BY <1>2, <3>1, RingFacts DEF After, Slot
    <3>2. CASE head + m <= length
      <4>1. Slot(m - 1) = head + m - 1
        BY <1>2, <3>2, RingFacts DEF Slot
      <4>2. Slot(m) = IF head + m = length THEN 0 ELSE head + m
        <5>1. length \in Nat /\ head \in 0 .. length - 1 /\ itemCnt \in 0 .. length
          BY RingFacts
        <5>2. CASE head + m = length
          BY <5>1, <5>2 DEF Slot
        <5>3. CASE head + m < length
          BY <5>1, <5>3 DEF Slot
        <5> QED
          BY <3>2, <5>1, <5>2, <5>3
      <4>3. (head + m - 1) + 1 = head + m
        BY RingFacts
      <4> QED
        BY <4>1, <4>2, <4>3 DEF After
    <3> QED
      BY <3>1, <3>2, RingFacts
  <2>2. Before(Slot(itemCnt - m)) = Slot(itemCnt - (m + 1))
    <3>1. PICK k \in Nat : k = itemCnt - (m + 1)
      BY RingFacts
    <3>2. /\ itemCnt - m = k + 1 /\ k + 1 < length
          /\ length \in Nat /\ head \in 0 .. length - 1
      BY <1>2, <3>1, RingFacts
    <3>3. Before(Slot(k + 1)) = Slot(k)
      <4>1. CASE head + (k + 1) < length
        <5>1. Slot(k + 1) = head + (k + 1) /\ Slot(k) = head + k
          BY <3>2, <4>1 DEF Slot
        <5> QED
          BY <3>2, <5>1 DEF Before
      <4>2. CASE head + (k + 1) = length
        <5>1. Slot(k + 1) = 0 /\ Slot(k) = length - 1
          BY <3>2, <4>2 DEF Slot
        <5> QED
          BY <5>1 DEF Before
      <4>3. CASE head + (k + 1) > length
        <5>1. Slot(k + 1) = head + (k + 1) - length /\ Slot(k) = head + k - length
          BY <3>2, <4>3 DEF Slot
        <5> QED
          BY <3>2, <4>3, <5>1 DEF Before
      <4> QED
        BY <3>2, <4>1, <4>2, <4>3
    <3> QED
      BY <3>1, <3>2, <3>3
  <2> QED
    BY <1>2, <2>1, <2>2
<1> QED
  BY <1>1, <1>2

LEMMA PresentAt == ASSUME Present, NEW k \in 0 .. itemCnt - 1 PROVE data[Slot(k)] \in Values
  BY DEF Present

LEMMA AppendKeeps ==
    ASSUME 0 \notin MaxLens, Ring, Present, NEW x \in Values, AppendRight(x)
    PROVE  IInv'
<1> USE DEF Ring, TypeOK, LengthIsBounded, Slots, Elements
<1>1. ASSUME AppendToEmpty(x) PROVE Ring' /\ Present'
  BY <1>1 DEF AppendToEmpty
<1>2. ASSUME AppendOver(x) PROVE Ring' /\ Present'
  <2>1. length = itemCnt /\ tail = head
    BY <1>2, FullHasNoGap DEF AppendOver
  <2>2. Ring'
    BY <1>2, <2>1 DEF AppendRight, AppendOver, After, Mutated, Stale, Slot
  <2>3. \A s \in Slots : data[s] \in Values
    <3> SUFFICES ASSUME NEW s \in Slots PROVE data[s] \in Values
      OBVIOUS
    <3>1. Offset(s) \in 0 .. itemCnt - 1 /\ Slot(Offset(s)) = s
      BY <2>1 DEF Offset, Slot
    <3> QED
      BY <3>1, PresentAt
  <2>4. \A s \in Slots : data'[s] \in Values
    BY <1>2, <2>3 DEF AppendOver
  <2>5. UNCHANGED <<length, itemCnt>> /\ head' \in Slots
    BY <1>2 DEF AppendOver, After
  <2>6. ASSUME NEW k \in 0 .. itemCnt - 1 PROVE Slot(k)' \in Slots
    <3>1. PICK n \in Nat \ {0} : n = length
      OBVIOUS
    <3>2. PICK h \in 0 .. n - 1 : head' = h
      BY <2>5, <3>1
    <3> QED
      BY <2>5, <3>1, <3>2, SlotNext
  <2>7. Present'
    BY <2>4, <2>5, <2>6 DEF Present
  <2> QED
    BY <2>2, <2>7
<1>3. ASSUME AppendInPlace(x) PROVE Ring' /\ Present'
  <2>1. Ring'
    BY <1>3 DEF AppendRight, AppendInPlace, After, Room, Mutated, Stale, Slot
  <2>2. ASSUME NEW k \in 0 .. itemCnt PROVE data'[Slot(k)] \in Values
    <3>1. CASE k = itemCnt
      BY <1>3, <3>1 DEF AppendInPlace
    <3>2. CASE k < itemCnt
      <4>1. data[Slot(k)] \in Values /\ Slot(k) \in Slots /\ Slot(k) # tail
        BY <1>3, <3>2, SlotFacts, PresentAt DEF AppendInPlace, Room
      <4> QED
        BY <1>3, <4>1 DEF AppendInPlace
    <3> QED
      BY <3>1, <3>2
  <2> QED
    BY <1>3, <2>1, <2>2 DEF AppendInPlace, Present, Slot
<1>4. ASSUME AppendGrown(x) PROVE Ring' /\ Present'
  <2>1. Ring'
    <3>1. length' = GrownLength /\ maxLen' = maxLen /\ iter' = Stale
      BY <1>4 DEF AppendRight, AppendGrown, Mutated
    <3>2. data' \in [Slots' -> Elements]
      BY <1>4, <3>1, GrownLengths DEF AppendGrown, NoRoom, GrownData, Slot
    <3>3. head' = 0 /\ itemCnt' = length + 1 /\ tail' \in Slots' /\ tail' = Slot(itemCnt)'
      BY <1>4, <3>1, GrownLengths DEF AppendGrown, NoRoom, Slot
    <3> QED
      BY <3>1, <3>2, <3>3, GrownLengths, <1>4 DEF AppendGrown, NoRoom, Stale
  <2>2. ASSUME NEW k \in 0 .. length PROVE data'[k] \in Values
    <3>1. /\ itemCnt = length /\ GrownLength \in Nat /\ GrownLength > length
          /\ data' = [GrownData EXCEPT ![length] = x]
      BY <1>4, GrownLengths DEF AppendGrown, NoRoom
    <3>2. GrownData = [i \in 0 .. GrownLength - 1 |-> IF i < length THEN data[Slot(i)] ELSE Null]
      BY DEF GrownData
    <3>3. k < length => data[Slot(k)] \in Values
      BY <3>1, PresentAt
    <3> QED
      BY <3>1, <3>2, <3>3
  <2> QED
    BY <1>4, <2>1, <2>2, GrownLengths DEF AppendGrown, NoRoom, Present, Slot
<1>5. Ring' /\ Present'
  BY <1>1, <1>2, <1>3, <1>4 DEF AppendRight
<1> QED
  BY <1>5, StaleIsPlaced DEF AppendRight, IInv

LEMMA AppendLeftKeeps ==
    ASSUME 0 \notin MaxLens, Ring, Present, NEW x \in Values, AppendLeft(x)
    PROVE  IInv'
<1> USE DEF Ring, TypeOK, LengthIsBounded, Slots, Elements
<1>1. ASSUME AppendLeftOver(x) PROVE Ring' /\ Present'
  <2>1. length = itemCnt /\ tail = head
    BY <1>1, FullHasNoGap DEF AppendLeftOver
  <2>2. Ring'
    BY <1>1, <2>1 DEF AppendLeft, AppendLeftOver, Before, Mutated, Stale, Slot
  <2>3. \A s \in Slots : data[s] \in Values
    <3> SUFFICES ASSUME NEW s \in Slots PROVE data[s] \in Values
      OBVIOUS
    <3>1. Offset(s) \in 0 .. itemCnt - 1 /\ Slot(Offset(s)) = s
      BY <2>1 DEF Offset, Slot
    <3> QED
      BY <3>1, PresentAt
  <2>4. \A s \in Slots : data'[s] \in Values
    BY <1>1, <2>1, <2>3 DEF AppendLeftOver
  <2>5. length' = length /\ itemCnt' = itemCnt /\ head' \in Slots
    BY <1>1, <2>2 DEF AppendLeftOver
  <2>6. ASSUME NEW k \in 0 .. itemCnt - 1 PROVE Slot(k)' \in Slots
    <3>1. PICK h \in 0 .. length - 1 : head' = h
      BY <2>5
    <3> QED
      BY <2>1, <2>5, <3>1, RingFacts, SlotNext
  <2>7. Present'
    BY <2>4, <2>5, <2>6 DEF Present
  <2> QED
    BY <2>2, <2>7
<1>2. ASSUME AppendLeftInPlace(x) PROVE Ring' /\ Present'
  <2>1. Ring'
    BY <1>2 DEF AppendLeft, AppendLeftInPlace, Before, Room, Mutated, Stale, Slot
  <2>2. ASSUME NEW k \in 0 .. itemCnt PROVE data'[Slot(k)'] \in Values
    <3>1. CASE k = 0
      BY <1>2, <3>1, <2>1 DEF AppendLeftInPlace, Before, Slot
    <3>2. CASE k > 0
      <4>1. Slot(k)' = Slot(k - 1)
        BY <1>2, <3>2 DEF AppendLeftInPlace, Before, Room, Slot
      <4>2. data[Slot(k - 1)] \in Values /\ Slot(k - 1) \in Slots /\ Slot(k - 1) # Before(head)
        BY <1>2, <3>2, SlotFacts, PresentAt DEF AppendLeftInPlace, Room
      <4> QED
        BY <1>2, <4>1, <4>2 DEF AppendLeftInPlace
    <3> QED
      BY <3>1, <3>2
  <2> QED
    BY <1>2, <2>1, <2>2 DEF AppendLeftInPlace, Present
<1>3. ASSUME AppendLeftGrown(x) PROVE Ring' /\ Present'
  <2>1. Ring'
    <3>1. length' = GrownLength /\ maxLen' = maxLen /\ iter' = Stale
      BY <1>3 DEF AppendLeft, AppendLeftGrown, Mutated
    <3>2. data' \in [Slots' -> Elements]
      BY <1>3, <3>1, GrownLengths DEF AppendLeftGrown, NoRoom, GrownData, Slot
    <3>3. head' \in Slots' /\ itemCnt' = length + 1 /\ tail' \in Slots' /\ tail' = Slot(itemCnt)'
      BY <1>3, <3>1, GrownLengths DEF AppendLeftGrown, NoRoom, Slot
    <3> QED
      BY <3>1, <3>2, <3>3, GrownLengths, <1>3 DEF AppendLeftGrown, NoRoom, Stale
  <2>2. ASSUME NEW k \in 0 .. itemCnt PROVE data'[Slot(k)'] \in Values
    <3>1. CASE k = 0
      BY <1>3, <3>1, GrownLengths DEF Slot, AppendLeftGrown, NoRoom, GrownData
    <3>2. CASE k > 0
      <4>1. Slot(k)' = k - 1
        BY <1>3, <3>2, GrownLengths DEF AppendLeftGrown, NoRoom, Slot
      <4>2. data[Slot(k - 1)] \in Values
        BY <1>3, <3>2, PresentAt DEF AppendLeftGrown, NoRoom
      <4>3. data'[k - 1] = data[Slot(k - 1)]
        BY <1>3, <3>2, GrownLengths DEF AppendLeftGrown, NoRoom, GrownData
      <4> QED
        BY <4>1, <4>2, <4>3
    <3> QED
      BY <3>1, <3>2
  <2> QED
    BY <1>3, <2>1, <2>2 DEF AppendLeftGrown, Present
<1>4. Ring' /\ Present'
  BY <1>1, <1>2, <1>3 DEF AppendLeft
<1> QED
  BY <1>4, StaleIsPlaced DEF AppendLeft, IInv
-----------------------------------------------------------------------------
LEMMA TakeLastKeeps ==
    ASSUME Ring, Present, itemCnt > 0, TakeLast, UNCHANGED maxLen
    PROVE  IInv'
<1>1. Ring'
  BY DEF Ring, TypeOK, LengthIsBounded, TakeLast, Before, Mutated, Stale, Slots, Slot, Elements
<1>2. ASSUME NEW k \in 0 .. itemCnt - 2 PROVE data'[Slot(k)] \in Values
  BY SlotFacts, PresentAt DEF Ring, TypeOK, TakeLast
<1>3. Present'
  <2>1. itemCnt' = itemCnt - 1 /\ \A k : Slot(k)' = Slot(k)
    BY DEF TakeLast, Slot
  <2>2. (itemCnt - 1) - 1 = itemCnt - 2
    BY RingFacts
  <2> QED
    BY <1>2, <2>1, <2>2 DEF Present
<1> QED
  BY <1>1, <1>3, StaleIsPlaced DEF TakeLast, IInv

LEMMA TakeFirstKeeps ==
    ASSUME Ring, Present, itemCnt > 0, TakeFirst, UNCHANGED maxLen
    PROVE  IInv'
<1>1. Ring'
  BY DEF Ring, TypeOK, LengthIsBounded, TakeFirst, After, Mutated, Stale, Slots, Slot, Elements
<1>2. ASSUME NEW k \in 0 .. itemCnt - 2 PROVE data'[Slot(k)'] \in Values
  <2>1. Slot(k)' = Slot(k + 1)
    BY DEF Ring, TypeOK, TakeFirst, After, Slots, Slot
  <2>2. data[Slot(k + 1)] \in Values /\ Slot(k + 1) \in Slots /\ Slot(k + 1) # head
    BY SlotFacts, PresentAt DEF Ring, TypeOK
  <2> QED
    BY <2>1, <2>2 DEF Ring, TypeOK, TakeFirst
<1>3. Present'
  BY <1>2 DEF Ring, TypeOK, Present, TakeFirst
<1> QED
  BY <1>1, <1>3, StaleIsPlaced DEF TakeFirst, IInv

\* The slots that Slide overwrites get the value of the slot after them.
LEMMA SlideKeepsValues ==
    ASSUME Ring, Present, NEW found \in Slots, Offset(found) < itemCnt,
           found # head, found # Before(tail)
    PROVE  /\ Slide(found) \in [Slots -> Elements]
           /\ \A k \in 0 .. itemCnt - 2 : Slide(found)[Slot(k)] \in Values
<1> USE DEF Ring, TypeOK, Present, Slots, Slot, Elements, Offset, Before, After
<1>1. Slide(found) \in [Slots -> Elements]
  BY DEF Slide
<1>2. ASSUME NEW k \in 0 .. itemCnt - 2
      PROVE  Slide(found)[Slot(k)] \in Values
  <2>1. Slot(k) \in Slots /\ data[Slot(k)] \in Values /\ data[Slot(k + 1)] \in Values
    <3> HIDE DEF Slot, Offset
    <3> QED
      BY SlotFacts, PresentAt
  <2>2. After(Slot(k)) = Slot(k + 1)
    OBVIOUS
  <2>3. Slide(found)[Slot(k)] \in {data[Slot(k)], data[After(Slot(k))]}
    BY <2>1 DEF Slide
  <2> QED
    BY <2>1, <2>2, <2>3
<1> QED
  BY <1>1, <1>2

LEMMA RemoveFromMiddleKeeps ==
    ASSUME Ring, Present, NEW found \in Slots, Offset(found) < itemCnt,
           found # head, found # Before(tail), RemoveFromMiddle(found), UNCHANGED maxLen
    PROVE  IInv'
<1>1. Ring'
  BY SlideKeepsValues
  DEF Ring, TypeOK, LengthIsBounded, RemoveFromMiddle, Before, Mutated, Stale, Slots, Slot, Offset
<1>2. \A k \in 0 .. itemCnt - 2 : data'[Slot(k)] \in Values
  BY SlideKeepsValues DEF RemoveFromMiddle
<1>3. Present'
  BY <1>2 DEF Ring, TypeOK, Present, RemoveFromMiddle, Slot
<1> QED
  BY <1>1, <1>3, StaleIsPlaced DEF RemoveFromMiddle, IInv
-----------------------------------------------------------------------------
LEMMA PopKeeps ==
    ASSUME IInv, Pop \/ PopLeft
    PROVE  IInv'
<1>1. CASE itemCnt = 0
  BY <1>1 DEF Pop, PopLeft, Raises, ring, IInv, Ring, TypeOK, LengthIsBounded, Present, IteratorPlaced, Slots,
    Slot, Elements
<1>2. CASE itemCnt # 0
  <2>1. itemCnt > 0
    BY <1>2 DEF IInv, Ring, TypeOK
  <2>2. (TakeLast \/ TakeFirst) /\ UNCHANGED maxLen
    BY <1>2 DEF Pop, PopLeft
  <2> QED
    BY <2>1, <2>2, TakeLastKeeps, TakeFirstKeeps DEF IInv
<1> QED
  BY <1>1, <1>2

LEMMA UnchangedKeeps == ASSUME IInv, UNCHANGED <<ring, maxLen, iter>> PROVE IInv'
  BY DEF ring, IInv, Ring, TypeOK, LengthIsBounded, Present, IteratorPlaced, Slots, Slot, Elements

LEMMA RemoveKeeps ==
    ASSUME IInv, NEW x \in Values, RemoveItem(x)
    PROVE  IInv'
<1>1. CASE Found(x) = {}
  BY <1>1, UnchangedKeeps DEF RemoveItem, Raises
<1>2. CASE Found(x) # {}
  <2>1. PICK found \in FirstFound(x) :
          \/ found = head /\ TakeFirst
          \/ found # head /\ found = Before(tail) /\ TakeLast
          \/ found \notin {head, Before(tail)} /\ RemoveFromMiddle(found)
    BY <1>2 DEF RemoveItem
  <2>2. found \in Slots /\ Offset(found) < itemCnt
    BY DEF FirstFound, Found
  <2>3. itemCnt > 0 /\ UNCHANGED maxLen
    BY <2>2 DEF RemoveItem, IInv, Ring, TypeOK, Slots, Offset
  <2> QED
    BY <2>1, <2>2, <2>3, TakeFirstKeeps, TakeLastKeeps, RemoveFromMiddleKeeps DEF IInv
<1> QED
  BY <1>1, <1>2
-----------------------------------------------------------------------------
\* An index in range is the slot of an item, at the position Python gives it.
LEMMA IndexToSlotIsSlot ==
    ASSUME Ring, NEW i \in Int, InRange(i)
    PROVE  IndexToSlot(i) = Slot(IF i >= 0 THEN i ELSE itemCnt + i)
<1>1. CASE i >= 0
  BY <1>1, RingFacts DEF IndexToSlot, Slot, InRange
<1>2. CASE i < 0
  <2>1. /\ itemCnt + i \in 0 .. itemCnt - 1 /\ length \in Nat
        /\ head \in 0 .. length - 1 /\ itemCnt \in 0 .. length
    BY <1>2, RingFacts DEF InRange
  <2>2. IndexToSlot(i) = IF tail + i < 0 THEN tail + i + length ELSE tail + i
    BY <1>2, RingFacts DEF IndexToSlot
  <2>3. CASE head + itemCnt < length
    <3>1. tail = head + itemCnt
      BY <2>1, <2>3, RingFacts
    <3> QED
      BY <1>2, <2>1, <2>2, <2>3, <3>1 DEF Slot
  <2>4. CASE head + itemCnt >= length
    <3>1. tail = head + itemCnt - length
      BY <2>1, <2>4, RingFacts
    <3> QED
      BY <1>2, <2>1, <2>2, <2>4, <3>1 DEF Slot
  <2> QED
    BY <2>1, <2>3, <2>4
<1> QED
  BY <1>1, <1>2

LEMMA SetItemKeeps ==
    ASSUME IInv, NEW i \in Indices, NEW x \in Values, SetItem(i, x)
    PROVE  IInv'
<1>1. data' \in [Slots -> Elements] /\ \A s \in Slots : data'[s] \in {data[s], x}
  BY DEF SetItem, IInv, Ring, TypeOK, Elements
<1>2. Ring'
  BY <1>1 DEF SetItem, Mutated, Stale, IInv, Ring, TypeOK, LengthIsBounded, Slots, Slot
<1>3. ASSUME NEW k \in 0 .. itemCnt - 1 PROVE data'[Slot(k)] \in Values
  BY <1>1, SlotFacts, PresentAt DEF IInv
<1>4. Present'
  BY <1>3 DEF SetItem, Present, Slot
<1> QED
  BY <1>2, <1>4, StaleIsPlaced DEF SetItem, IInv

LEMMA RebuildKeeps ==
    ASSUME Ring, Present, NEW i \in 0 .. itemCnt - 1, Rebuild(Slot(i)), UNCHANGED maxLen
    PROVE  IInv'
<1>1. Offset(Slot(i)) = i
  BY SlotFacts
<1>2. \A k \in 0 .. itemCnt - 1 : data[Slot(k)] \in Values
  BY DEF Present
<1>3. data' = [s \in Slots |-> CASE s < i -> data[Slot(s)]
                                 [] s \in i .. itemCnt - 2 -> data[Slot(s + 1)]
                                 [] OTHER -> Null]
  BY <1>1 DEF Rebuild
<1>4. ASSUME NEW s \in 0 .. length - 1
      PROVE  data'[s] \in Elements /\ (s < itemCnt - 1 => data'[s] \in Values)
  <2>1. data'[s] = CASE s < i -> data[Slot(s)]
                     [] s \in i .. itemCnt - 2 -> data[Slot(s + 1)]
                     [] OTHER -> Null
    BY <1>3 DEF Slots
  <2>2. itemCnt \in Int
    BY RingFacts
  <2>3. CASE s < i
    <3>1. data[Slot(s)] \in Values
      BY <1>2, <2>2, <2>3
    <3> QED
      BY <2>1, <2>3, <3>1 DEF Elements
  <2>4. CASE ~(s < i) /\ s \in i .. itemCnt - 2
    <3>1. data[Slot(s + 1)] \in Values
      BY <1>2, <2>2, <2>4
    <3> QED
      BY <2>1, <2>4, <3>1 DEF Elements
  <2>5. CASE ~(s < i) /\ s \notin i .. itemCnt - 2
    <3>1. data'[s] = Null
      BY <2>1, <2>5
    <3> QED
      BY <2>2, <2>5, <3>1 DEF Elements
  <2> QED
    BY <2>3, <2>4, <2>5
<1>5. data' \in [0 .. length - 1 -> Elements]
  BY <1>3, <1>4 DEF Slots
<1>6. length' = length /\ head' = 0 /\ tail' = itemCnt - 1 /\ itemCnt' = itemCnt - 1 /\ Mutated
  BY DEF Rebuild
<1>7. Ring'
  <2>1. PICK c \in 0 .. length - 1 : c = itemCnt - 1
    BY RingFacts
  <2>2. /\ length \in Nat \ {0} /\ 0 \in 0 .. length - 1 /\ c \in 0 .. length
        /\ c = IF 0 + c >= length THEN 0 + c - length ELSE 0 + c
        /\ maxLen \in MaxLens /\ (maxLen # Unbounded => length <= maxLen)
    BY <2>1, RingFacts
  <2> QED
    BY <1>5, <1>6, <2>1, <2>2, MakesRing
<1>8. ASSUME NEW k \in 0 .. itemCnt - 2 PROVE data'[Slot(k)'] \in Values
  <2>1. Slot(k)' = k
    BY <1>6, RingFacts DEF Slot
  <2> QED
    BY <1>4, <2>1, RingFacts
<1>9. Present'
  BY <1>6, <1>8, RingFacts DEF Present
<1> QED
  BY <1>6, <1>7, <1>9, StaleIsPlaced DEF IInv

LEMMA DelItemKeeps ==
    ASSUME IInv, NEW i \in Indices, DelItem(i)
    PROVE  IInv'
<1>1. CASE ~InRange(i)
  BY <1>1, UnchangedKeeps DEF DelItem, Raises
<1>2. CASE InRange(i)
  <2> DEFINE k == IF i >= 0 THEN i ELSE itemCnt + i
  <2>1. i \in Int /\ k \in 0 .. itemCnt - 1 /\ itemCnt > 0 /\ UNCHANGED maxLen
    BY <1>2, IndicesAssumption DEF DelItem, InRange, IInv, Ring, TypeOK
  <2>2. IndexToSlot(i) = Slot(k)
    BY <1>2, <2>1, IndexToSlotIsSlot DEF IInv
  <2>3. TakeFirst \/ TakeLast \/ Rebuild(Slot(k))
    BY <1>2, <2>2 DEF DelItem
  <2> QED
    BY <2>1, <2>3, TakeFirstKeeps, TakeLastKeeps, RebuildKeeps DEF IInv
<1> QED
  BY <1>1, <1>2

LEMMA RemainderInRange == \A m \in Int, n \in Nat \ {0} : m % n \in 0 .. n - 1
  OBVIOUS

LEMMA RotateKeeps ==
    ASSUME IInv, NEW n \in Indices, Rotate(n)
    PROVE  IInv'
<1>1. CASE itemCnt = 0 \/ n % itemCnt = 0
  BY <1>1, UnchangedKeeps DEF Rotate, ring
<1>2. CASE ~(itemCnt = 0 \/ n % itemCnt = 0)
  <2> DEFINE rot == n % itemCnt
  <2>1. itemCnt \in Nat \ {0} /\ rot \in 1 .. itemCnt - 1
    BY <1>2, IndicesAssumption, RemainderInRange DEF IInv, Ring, TypeOK
  <2>2. UNCHANGED <<itemCnt, maxLen>> /\ Mutated
    BY <1>2 DEF Rotate
  <2>3. \A k \in 0 .. itemCnt - 1 : data[Slot(k)] \in Values
    BY DEF IInv, Present
  <2> HIDE DEF rot
  <2>4. ASSUME RotateInPlace(rot) PROVE Ring' /\ Present'
    <3>1. head' \in Slots /\ tail' = head' /\ length' = length /\ data' = data /\ itemCnt = length
      <4> DEFINE moved == tail - rot + length
      <4>1. moved \in Int /\ length \in Nat \ {0}
        BY <2>1, RingFacts DEF IInv
      <4>2. moved % length \in 0 .. length - 1
        BY <4>1, RemainderInRange
      <4> QED
        BY <2>4, <4>2 DEF RotateInPlace, Slots
    <3>2. Ring'
      BY <2>2, <3>1, RingFacts, MakesRing DEF IInv, Slots, Slot
    <3>3. \A s \in Slots : data[s] \in Values
      <4> SUFFICES ASSUME NEW s \in Slots PROVE data[s] \in Values
        OBVIOUS
      <4>1. Offset(s) \in 0 .. itemCnt - 1 /\ Slot(Offset(s)) = s
        BY <3>1 DEF IInv, Ring, TypeOK, Slots, Offset, Slot
      <4> QED
        BY <4>1, <2>3
    <3>4. ASSUME NEW k \in 0 .. itemCnt - 1 PROVE Slot(k)' \in Slots
      <4>1. PICK h \in 0 .. length - 1 : head' = h
        BY <3>1 DEF Slots
      <4> QED
        BY <3>1, <4>1, RingFacts, SlotNext DEF IInv, Slots
    <3>5. Present'
      BY <2>2, <3>1, <3>3, <3>4 DEF Present
    <3> QED
      BY <3>2, <3>5
  <2>5. ASSUME RotateByCopying(rot) PROVE Ring' /\ Present'
    <3>1. \A k \in 0 .. itemCnt - 1 : (IF k >= rot THEN k - rot ELSE k - rot + itemCnt) \in 0 .. itemCnt - 1
      BY <2>1
    <3>2. data' \in [0 .. itemCnt - 1 -> Elements] /\ \A k \in 0 .. itemCnt - 1 : data'[k] \in Values
      BY <2>3, <2>5, <3>1 DEF RotateByCopying, Elements
    <3>3. length' = itemCnt /\ head' = 0 /\ tail' = 0
      BY <2>5 DEF RotateByCopying
    <3>4. Ring'
      <4>1. /\ itemCnt \in Nat /\ 0 \in 0 .. itemCnt - 1 /\ itemCnt \in 0 .. itemCnt
            /\ 0 = IF 0 + itemCnt >= itemCnt THEN 0 + itemCnt - itemCnt ELSE 0 + itemCnt
            /\ maxLen \in MaxLens /\ (maxLen # Unbounded => itemCnt <= maxLen)
        <5>1. itemCnt \in Nat /\ itemCnt > 0
          BY <2>1
        <5>2. maxLen \in MaxLens /\ (maxLen # Unbounded => itemCnt <= maxLen)
          <6>1. ASSUME maxLen # Unbounded PROVE itemCnt <= maxLen
            <7>1. PICK m \in Nat : m = maxLen
              BY <6>1, RingFacts, MaxLensAssumption DEF IInv
            <7>2. length \in Nat /\ length <= m /\ itemCnt \in 0 .. length
              BY <6>1, <7>1, RingFacts DEF IInv
            <7> QED
              BY <7>1, <7>2
          <6> QED
            BY <6>1, RingFacts DEF IInv
        <5> QED
          BY <5>1, <5>2
      <4> QED
        BY <2>2, <3>2, <3>3, <4>1, MakesRing
    <3>5. Present'
      BY <2>1, <2>2, <3>2, <3>3 DEF Present, Slot
    <3> QED
      BY <3>4, <3>5
  <2>6. RotateInPlace(rot) \/ RotateByCopying(rot)
    BY <1>2 DEF Rotate, rot
  <2> QED
    BY <2>2, <2>4, <2>5, <2>6, StaleIsPlaced DEF IInv
<1> QED
  BY <1>1, <1>2
-----------------------------------------------------------------------------
LEMMA IterateKeeps ==
    ASSUME IInv, NEW class \in {"deque_iterator", "deque_reverse_iterator"}, Iterate(class)
    PROVE  IInv'
  BY DEF Iterate, ring, IInv, Ring, TypeOK, LengthIsBounded, Present, IteratorPlaced, Slots, Slot, Elements

LEMMA MoveNextKeeps == ASSUME IInv, MoveNext PROVE IInv'
<1>1. /\ iter \in [class : {"stale", "deque_iterator", "deque_reverse_iterator"},
                   cur : -1 .. length - 1, moved : 0 .. itemCnt]
      /\ iter.class # "stale" /\ iter.moved < itemCnt
  BY DEF MoveNext, IInv, Ring, TypeOK
<1>2. UNCHANGED <<data, length, head, tail, itemCnt, maxLen>>
  BY DEF MoveNext, ring
<1> DEFINE cur == IF iter.class = "deque_iterator" THEN After(iter.cur) ELSE Before(iter.cur)
<1>3. /\ iter' \in [class : {"stale", "deque_iterator", "deque_reverse_iterator"},
                    cur : {cur}, moved : {iter.moved + 1}]
      /\ iter'.class = iter.class
  BY <1>1 DEF MoveNext
<1>4. CASE iter.class = "deque_iterator"
  <2>1. cur = Slot(iter.moved)
    <3>1. PICK m \in 0 .. itemCnt - 1 : iter.moved = m
      BY <1>1, RingFacts DEF IInv
    <3>2. iter.cur = IF m = 0 THEN head - 1 ELSE Slot(m - 1)
      BY <1>4, <3>1 DEF IInv, IteratorPlaced
    <3>3. cur = After(iter.cur)
      BY <1>4
    <3> QED
      BY <3>1, <3>2, <3>3, AfterSlot DEF IInv
  <2>2. cur \in -1 .. length - 1
    <3>1. iter.moved \in 0 .. itemCnt - 1
      BY <1>1, RingFacts DEF IInv
    <3>2. cur \in 0 .. length - 1
      BY <2>1, <3>1, SlotFacts DEF IInv, Slots
    <3> QED
      BY <3>2
  <2>3. Ring'
    BY <1>1, <1>2, <1>3, <2>2 DEF IInv, Ring, TypeOK, LengthIsBounded, Slots, Slot, Elements
  <2>4. Present'
    BY <1>2 DEF IInv, Present, Slot
  <2>5. IteratorPlaced'
    <3>1. iter'.class = iter.class /\ iter'.cur = cur /\ iter'.moved = iter.moved + 1 /\ iter.moved \in Nat
      BY <1>1, <1>3 DEF MoveNext
    <3>2. iter'.moved # 0 /\ iter'.moved - 1 = iter.moved
      BY <3>1
    <3> QED
      BY <1>2, <1>4, <2>1, <3>1, <3>2 DEF IteratorPlaced, Slot
  <2> QED
    BY <2>3, <2>4, <2>5 DEF IInv
<1>5. CASE iter.class = "deque_reverse_iterator"
  <2>1. cur = Slot(itemCnt - (iter.moved + 1))
    <3>1. PICK m \in 0 .. itemCnt - 1 : iter.moved = m
      BY <1>1, RingFacts DEF IInv
    <3>2. iter.cur = IF m = 0 THEN tail ELSE Slot(itemCnt - m)
      BY <1>5, <3>1 DEF IInv, IteratorPlaced
    <3>3. cur = Before(iter.cur)
      BY <1>5
    <3> QED
      BY <3>1, <3>2, <3>3, AfterSlot DEF IInv
  <2>2. cur \in -1 .. length - 1
    <3>1. itemCnt - (iter.moved + 1) \in 0 .. itemCnt - 1
      BY <1>1, RingFacts DEF IInv
    <3>2. cur \in 0 .. length - 1
      BY <2>1, <3>1, SlotFacts DEF IInv, Slots
    <3> QED
      BY <3>2
  <2>3. Ring'
    BY <1>1, <1>2, <1>3, <2>2 DEF IInv, Ring, TypeOK, LengthIsBounded, Slots, Slot, Elements
  <2>4. Present'
    BY <1>2 DEF IInv, Present, Slot
  <2>5. IteratorPlaced'
    <3>1. iter'.class = iter.class /\ iter'.cur = cur /\ iter'.moved = iter.moved + 1 /\ iter.moved \in Nat
      BY <1>1, <1>3 DEF MoveNext
    <3>2. iter'.moved # 0 /\ iter'.moved - 1 = iter.moved
      BY <3>1
    <3> QED
      BY <1>2, <1>5, <2>1, <3>1, <3>2 DEF IteratorPlaced, Slot
  <2> QED
    BY <2>3, <2>4, <2>5 DEF IInv
<1> QED
  BY <1>1, <1>4, <1>5
-----------------------------------------------------------------------------
LEMMA Step == ASSUME 0 \notin MaxLens, IInv, [Next]_vars PROVE IInv'
<1>1. CASE Operate
  <2>1. CASE \E n \in MaxLens : Construct(n)
    BY <2>1, ConstructKeeps
  <2>2. CASE \E x \in Values : AppendRight(x) \/ AppendLeft(x) \/ RemoveItem(x)
    BY <2>2, AppendKeeps, AppendLeftKeeps, RemoveKeeps DEF IInv
  <2>3. CASE Pop \/ PopLeft
    BY <2>3, PopKeeps
  <2>4. CASE \E i \in Indices : Rotate(i) \/ GetItem(i) \/ DelItem(i)
    <3>1. ASSUME NEW i \in Indices, GetItem(i) PROVE IInv'
      BY <3>1, UnchangedKeeps DEF GetItem
    <3> QED
      BY <2>4, <3>1, RotateKeeps, DelItemKeeps
  <2>5. CASE \E i \in Indices, x \in Values : SetItem(i, x)
    BY <2>5, SetItemKeeps
  <2> QED
    BY <1>1, <2>1, <2>2, <2>3, <2>4, <2>5 DEF Operate
<1>2. CASE \E class \in {"deque_iterator", "deque_reverse_iterator"} : Iterate(class)
  BY <1>2, IterateKeeps
<1>3. CASE MoveNext
  BY <1>3, MoveNextKeeps
<1>4. CASE UNCHANGED vars
  BY <1>4, UnchangedKeeps DEF vars
<1> QED
  BY <1>1, <1>2, <1>3, <1>4 DEF Next

\* The ring, its items and its iterators stay in order, whatever is called.
THEOREM Invariance == ASSUME 0 \notin MaxLens PROVE Spec => []IInv
<1>1. Init => IInv
  BY Initially
<1>2. IInv /\ [Next]_vars => IInv'
  BY Step
<1> QED
  BY <1>1, <1>2, PTL DEF Spec

\* Counted from the head, the items end at the tail, and every index that the
\* deque keeps lies within its array.
THEOREM TypeCorrect == ASSUME 0 \notin MaxLens PROVE Spec => []TypeOK
<1>1. IInv => TypeOK
  BY DEF IInv, Ring
<1> QED
  BY <1>1, Invariance, PTL

\* The array of a bounded deque never outgrows maxlen.
THEOREM NeverLonger == ASSUME 0 \notin MaxLens PROVE Spec => []LengthIsBounded
<1>1. IInv => LengthIsBounded
  BY DEF IInv, Ring
<1> QED
  BY <1>1, Invariance, PTL

\* No operation leaves an empty slot among the items.
THEOREM NoGaps == ASSUME 0 \notin MaxLens PROVE Spec => []ItemsArePresent
<1>1. ASSUME IInv PROVE ItemsArePresent
  <2> SUFFICES ASSUME NEW k \in 1 .. itemCnt PROVE Contents[k] # Null
    BY DEF ItemsArePresent
  <2>1. k - 1 \in 0 .. itemCnt - 1
    BY <1>1, RingFacts DEF IInv
  <2>2. data[Slot(k - 1)] \in Values
    BY <1>1, <2>1, PresentAt DEF IInv
  <2> QED
    BY <2>2, ValuesAssumption DEF Contents
<1> QED
  BY <1>1, Invariance, PTL

\* A valid iterator stands on the item it yields, in either direction.
THEOREM IteratorsStand == ASSUME 0 \notin MaxLens PROVE Spec => []IteratorsAreExact
<1>1. ASSUME IInv PROVE IteratorsAreExact
  <2> SUFFICES ASSUME iter.class # "stale", iter.moved > 0
               PROVE  /\ iter.moved <= itemCnt
                      /\ data[iter.cur] = Contents[IF iter.class = "deque_iterator" THEN iter.moved
                                                   ELSE itemCnt + 1 - iter.moved]
    BY DEF IteratorsAreExact
  <2>1. /\ iter.class \in {"deque_iterator", "deque_reverse_iterator"}
        /\ iter.moved \in 1 .. itemCnt /\ itemCnt \in Nat
    BY <1>1 DEF IInv, Ring, TypeOK
  <2>2. iter.cur = Slot((IF iter.class = "deque_iterator" THEN iter.moved ELSE itemCnt + 1 - iter.moved) - 1)
    <3>1. PICK m \in 1 .. itemCnt : iter.moved = m
      BY <2>1
    <3>2. itemCnt - m = (itemCnt + 1 - m) - 1
      BY <2>1
    <3> QED
      BY <1>1, <2>1, <3>1, <3>2 DEF IInv, IteratorPlaced
  <2>3. (IF iter.class = "deque_iterator" THEN iter.moved ELSE itemCnt + 1 - iter.moved) \in 1 .. itemCnt
    BY <2>1
  <2> QED
    BY <2>1, <2>2, <2>3 DEF Contents
<1> QED
  BY <1>1, Invariance, PTL
-----------------------------------------------------------------------------
(* The items as a sequence, and the operators on sequences DequeSpec uses.   *)

\* The items in order, as a sequence of values.
LEMMA ContentsSequence ==
    ASSUME Ring, Present
    PROVE  /\ Contents \in Seq(Values) /\ Len(Contents) = itemCnt
           /\ \A k \in 1 .. itemCnt : Contents[k] = data[Slot(k - 1)] /\ data[Slot(k - 1)] \in Values
           /\ itemCnt \in Nat
           /\ itemCnt = 0 <=> Contents = <<>>
<1>1. itemCnt \in Nat
  BY RingFacts
<1>2. \A k \in 1 .. itemCnt : data[Slot(k - 1)] \in Values
  <2> SUFFICES ASSUME NEW k \in 1 .. itemCnt PROVE data[Slot(k - 1)] \in Values
    OBVIOUS
  <2>1. k - 1 \in 0 .. itemCnt - 1
    BY <1>1
  <2> QED
    BY <2>1, PresentAt
<1>3. Contents \in [1 .. itemCnt -> Values]
  BY <1>2 DEF Contents
<1>4. Contents \in Seq(Values) /\ Len(Contents) = itemCnt
  BY <1>1, <1>3
<1>5. itemCnt = 0 <=> Contents = <<>>
  BY <1>1, <1>4, EmptySeq
<1> QED
  BY <1>1, <1>2, <1>4, <1>5 DEF Contents

\* How to see what an operation makes of the items.
LEMMA ContentsNext ==
    ASSUME NEW n \in Nat, itemCnt' = n, NEW s \in Seq(Values), Len(s) = n,
           \A k \in 1 .. n : data'[Slot(k - 1)'] = s[k]
    PROVE  Contents' = s
<1>1. Contents' = [k \in 1 .. n |-> data'[Slot(k - 1)']]
  BY DEF Contents
<1>2. s = [k \in 1 .. n |-> s[k]]
  BY LenProperties
<1> QED
  BY <1>1, <1>2

\* An operation that leaves the ring alone leaves the items alone.
LEMMA ContentsKept == UNCHANGED ring => UNCHANGED Contents
  BY DEF ring, Contents, Slot

\* The operators on sequences that the specification uses, on values.
LEMMA ConsFacts ==
    ASSUME NEW s \in Seq(Values), NEW x \in Values
    PROVE  /\ Abstract!Cons(x, s) \in Seq(Values) /\ Len(Abstract!Cons(x, s)) = Len(s) + 1
           /\ Abstract!Cons(x, s)[1] = x
           /\ \A k \in 2 .. Len(s) + 1 : Abstract!Cons(x, s)[k] = s[k - 1]
<1>1. <<x>> \in Seq(Values) /\ Len(<<x>>) = 1 /\ <<x>>[1] = x /\ Len(s) \in Nat
  BY LenProperties
<1>2. /\ <<x>> \o s \in Seq(Values) /\ Len(<<x>> \o s) = 1 + Len(s)
      /\ \A k \in 1 .. 1 + Len(s) : (<<x>> \o s)[k] = IF k <= 1 THEN <<x>>[k] ELSE s[k - 1]
  BY <1>1, ConcatProperties
<1> QED
  BY <1>1, <1>2 DEF Abstract!Cons

\* The items but the last.
LEMMA FrontFacts ==
    ASSUME NEW s \in Seq(Values), s # <<>>
    PROVE  /\ Abstract!Front(s) \in Seq(Values) /\ Len(Abstract!Front(s)) = Len(s) - 1
           /\ \A k \in 1 .. Len(s) - 1 : Abstract!Front(s)[k] = s[k]
           /\ Abstract!Last(s) = s[Len(s)] /\ Len(s) \in Nat \ {0}
<1>1. Len(s) \in Nat \ {0}
  BY EmptySeq
<1>2. \A k \in 1 .. Len(s) - 1 : s[k] \in Values
  BY <1>1, ElementOfSeq
<1> DEFINE f == SubSeq(s, 1, Len(s) - 1)
<1>3. /\ f \in Seq(Values) /\ Len(f) = IF 1 <= Len(s) - 1 THEN (Len(s) - 1) - 1 + 1 ELSE 0
      /\ \A k \in 1 .. (Len(s) - 1) - 1 + 1 : f[k] = s[1 + k - 1]
  BY <1>1, <1>2, SubSeqProperties
<1>4. Abstract!Front(s) = f /\ Abstract!Last(s) = s[Len(s)]
  BY DEF Abstract!Front, Abstract!Last
<1> HIDE DEF f
<1>5. Len(f) = Len(s) - 1 /\ \A k \in 1 .. Len(s) - 1 : f[k] = s[k]
  <2>1. PICK n \in Nat \ {0} : n = Len(s)
    BY <1>1
  <2>2. Len(f) = n - 1 /\ \A k \in 1 .. n - 1 : 1 + k - 1 = k /\ k \in 1 .. (n - 1) - 1 + 1
    BY <1>3, <2>1
  <2> QED
    BY <1>3, <2>1, <2>2
<1> QED
  BY <1>1, <1>3, <1>4, <1>5

\* The items without the one at position p.
LEMMA RemoveAtFacts ==
    ASSUME NEW s \in Seq(Values), NEW p \in 1 .. Len(s)
    PROVE  /\ Abstract!RemoveAt(s, p) \in Seq(Values) /\ Len(Abstract!RemoveAt(s, p)) = Len(s) - 1
           /\ \A k \in 1 .. Len(s) - 1 :
                 Abstract!RemoveAt(s, p)[k] = IF k < p THEN s[k] ELSE s[k + 1]
<1> DEFINE l == SubSeq(s, 1, p - 1)
           r == SubSeq(s, p + 1, Len(s))
<1>1. Len(s) \in Nat \ {0} /\ \A k \in 1 .. Len(s) : s[k] \in Values
  BY LenProperties, ElementOfSeq
<1>2. /\ l \in Seq(Values) /\ Len(l) = p - 1
      /\ \A k \in 1 .. p - 1 : l[k] = s[k]
  <2>1. /\ l \in Seq(Values) /\ Len(l) = IF 1 <= p - 1 THEN (p - 1) - 1 + 1 ELSE 0
        /\ \A k \in 1 .. (p - 1) - 1 + 1 : l[k] = s[1 + k - 1]
    BY <1>1, SubSeqProperties
  <2> HIDE DEF l
  <2> QED
    BY <1>1, <2>1
<1>3. /\ r \in Seq(Values) /\ Len(r) = Len(s) - p
      /\ \A k \in 1 .. Len(s) - p : r[k] = s[p + k]
  <2>1. /\ r \in Seq(Values) /\ Len(r) = IF p + 1 <= Len(s) THEN Len(s) - (p + 1) + 1 ELSE 0
        /\ \A k \in 1 .. Len(s) - (p + 1) + 1 : r[k] = s[p + 1 + k - 1]
    BY <1>1, SubSeqProperties
  <2> HIDE DEF r
  <2> QED
    BY <1>1, <2>1
<1>4. Abstract!RemoveAt(s, p) = l \o r
  BY DEF Abstract!RemoveAt
<1> HIDE DEF l, r
<1>5. /\ l \o r \in Seq(Values) /\ Len(l \o r) = Len(l) + Len(r)
      /\ \A k \in 1 .. Len(l) + Len(r) : (l \o r)[k] = IF k <= Len(l) THEN l[k] ELSE r[k - Len(l)]
  BY <1>2, <1>3, ConcatProperties
<1>6. ASSUME NEW k \in 1 .. Len(s) - 1
      PROVE  (l \o r)[k] = IF k < p THEN s[k] ELSE s[k + 1]
  <2>1. k \in 1 .. Len(l) + Len(r)
    BY <1>1, <1>2, <1>3
  <2>2. CASE k < p
    <3>1. k \in 1 .. p - 1 /\ k <= Len(l)
      BY <1>1, <1>2, <2>2
    <3> QED
      BY <1>2, <1>5, <2>1, <2>2, <3>1
  <2>3. CASE ~(k < p)
    <3>1. k - Len(l) \in 1 .. Len(s) - p /\ ~(k <= Len(l)) /\ p + (k - Len(l)) = k + 1
      BY <1>1, <1>2, <2>3
    <3> QED
      BY <1>3, <1>5, <2>1, <2>3, <3>1
  <2> QED
    BY <2>2, <2>3
<1> QED
  BY <1>1, <1>2, <1>3, <1>4, <1>5, <1>6

\* remove() has the first position that holds x in mind.
LEMMA RemoveFirstFacts ==
    ASSUME NEW s \in Seq(Values), NEW x, NEW p \in 1 .. Len(s), s[p] = x,
           \A q \in 1 .. Len(s) : s[q] = x => p <= q
    PROVE  Abstract!Contains(s, x) /\ Abstract!RemoveFirst(s, x) = Abstract!RemoveAt(s, p)
<1> DEFINE I == {q \in 1 .. Len(s) : s[q] = x}
<1>1. Len(s) \in Nat
  BY LenProperties
<1>2. p \in I /\ \A q \in I : p <= q
  OBVIOUS
<1>3. Abstract!SelectInSeq(s, LAMBDA v : v = x) = Abstract!Min(I)
  BY <1>2 DEF Abstract!SelectInSeq
<1>4. I \subseteq Int
  BY <1>1
<1> HIDE DEF I
<1>5. Abstract!Min(I) = p
  <2>1. \A m \in I : (\A q \in I : m <= q) => m = p
    BY <1>2, <1>4
  <2> QED
    BY <1>2, <2>1 DEF Abstract!Min
<1>6. Abstract!RemoveFirst(s, x) = Abstract!RemoveAt(s, Abstract!SelectInSeq(s, LAMBDA v : v = x))
  BY DEF Abstract!RemoveFirst
<1> QED
  BY <1>3, <1>5, <1>6 DEF Abstract!Contains
-----------------------------------------------------------------------------
(* Additions.                                                                *)

\* The counterpart of an operation, once its effect on the items is known.
LEMMA BecomesFacts ==
    ASSUME NEW s, NEW r, Contents' = s, result' = r, UNCHANGED maxLen
    PROVE  Abstract!Becomes(s, r)
  BY DEF Abstract!Becomes

\* A deque that is full before it has items is one with maxlen 0.
LEMMA FullFacts ==
    ASSUME Ring, Present, 0 \notin MaxLens
    PROVE  /\ maxLen # 0
           /\ Abstract!Full <=> itemCnt = maxLen
           /\ Abstract!Full => Contents # <<>>
  BY ContentsSequence, RingFacts DEF Abstract!Full

\* When the head moves by a slot, every position does.
LEMMA HeadMovesRight ==
    ASSUME Ring, head' = After(head), length' = length, NEW k \in 0 .. length - 1
    PROVE  /\ Slot(k)' = IF k = length - 1 THEN head ELSE Slot(k + 1)
           /\ k # length - 1 => Slot(k + 1) \in Slots /\ Slot(k + 1) # head
<1>1. PICK n \in Nat \ {0} : n = length
  BY RingFacts
<1>2. PICK h \in 0 .. n - 1 : h = head
  BY <1>1, RingFacts
<1>3. PICK g \in 0 .. n - 1 : g = (IF h + 1 = n THEN 0 ELSE h + 1)
  BY <1>1, <1>2
<1>4. Slot(k)' = IF g + k >= n THEN g + k - n ELSE g + k
  <2>1. length' = n /\ head' = g /\ k \in 0 .. n - 1 /\ n \in Nat
    BY <1>1, <1>2, <1>3 DEF After
  <2> QED
    BY <2>1, SlotNext
<1>5. Slot(k + 1) = IF h + (k + 1) >= n THEN h + (k + 1) - n ELSE h + (k + 1)
  BY <1>1, <1>2 DEF Slot
<1> QED
  BY <1>1, <1>2, <1>3, <1>4, <1>5 DEF Slots

\* The other way round, the first position becomes the slot before the head.
LEMMA HeadMovesLeft ==
    ASSUME Ring, head' = Before(head), length' = length, NEW k \in 0 .. length - 1
    PROVE  /\ Slot(k)' = IF k = 0 THEN Before(head) ELSE Slot(k - 1)
           /\ k # 0 => Slot(k - 1) \in Slots /\ Slot(k - 1) # Before(head)
           /\ Before(head) \in Slots
<1>1. PICK n \in Nat \ {0} : n = length
  BY RingFacts
<1>2. PICK h \in 0 .. n - 1 : h = head
  BY <1>1, RingFacts
<1>3. PICK g \in 0 .. n - 1 : g = (IF h = 0 THEN n - 1 ELSE h - 1)
  BY <1>1, <1>2
<1>4. Slot(k)' = (IF g + k >= n THEN g + k - n ELSE g + k) /\ Before(head) = g
  <2>1. length' = n /\ head' = g /\ k \in 0 .. n - 1 /\ n \in Nat /\ Before(head) = g
    BY <1>1, <1>2, <1>3 DEF Before
  <2> QED
    BY <2>1, SlotNext
<1>5. Slot(k - 1) = IF h + (k - 1) >= n THEN h + (k - 1) - n ELSE h + (k - 1)
  BY <1>1, <1>2 DEF Slot
<1> QED
  BY <1>1, <1>2, <1>3, <1>4, <1>5 DEF Slots

\* append: a full deque forgets its first item, whose slot the new one takes;
\* a longer array holds the items in order again.
LEMMA AppendIsExact ==
    ASSUME 0 \notin MaxLens, Ring, Present, NEW x \in Values, AppendRight(x)
    PROVE  Abstract!AppendRight(x)
<1> DEFINE kept == IF itemCnt = maxLen THEN Tail(Contents) ELSE Contents
           s == Append(kept, x)
<1>1. /\ Contents \in Seq(Values) /\ Len(Contents) = itemCnt /\ itemCnt \in Nat
      /\ \A k \in 1 .. itemCnt : Contents[k] = data[Slot(k - 1)]
  BY ContentsSequence
<1>2. result' = "ok" /\ UNCHANGED maxLen
  BY DEF AppendRight, Returns
<1>3. Abstract!AppendRight(x) <=> Abstract!Becomes(s, "ok")
  BY FullFacts DEF Abstract!AppendRight
<1>4. Contents' = s
  <2>1. CASE AppendOver(x)
    <3>1. itemCnt = maxLen /\ itemCnt # 0 /\ length = itemCnt /\ tail = head
      BY <1>1, <2>1, FullHasNoGap DEF AppendOver
    <3>2. /\ Tail(Contents) \in Seq(Values) /\ Len(Tail(Contents)) = itemCnt - 1
          /\ \A k \in 1 .. itemCnt - 1 : Tail(Contents)[k] = data[Slot(k)]
      <4>1. Contents # <<>>
        BY <3>1, ContentsSequence
      <4>2. /\ Tail(Contents) \in Seq(Values) /\ Len(Tail(Contents)) = itemCnt - 1
            /\ \A k \in 1 .. itemCnt - 1 : Tail(Contents)[k] = Contents[k + 1]
        BY <1>1, <4>1, HeadTailProperties
      <4>3. \A k \in 1 .. itemCnt - 1 : Contents[k + 1] = data[Slot(k)]
        BY <1>1
      <4> QED
        BY <4>2, <4>3
    <3>3. /\ s \in Seq(Values) /\ Len(s) = itemCnt
          /\ \A k \in 1 .. itemCnt - 1 : s[k] = data[Slot(k)]
          /\ s[itemCnt] = x
      BY <1>1, <3>1, <3>2, AppendProperties
    <3>4. /\ itemCnt' = itemCnt /\ length' = length /\ head' = After(head)
          /\ data' = [data EXCEPT ![head] = x]
      BY <2>1, <3>1 DEF AppendOver
    <3>5. ASSUME NEW k \in 1 .. itemCnt PROVE data'[Slot(k - 1)'] = s[k]
      <4>1. CASE k < itemCnt
        <5>1. Slot(k - 1)' = Slot(k) /\ Slot(k) # head /\ Slot(k) \in Slots
          <6>1. k - 1 \in 0 .. length - 1 /\ k - 1 # length - 1 /\ (k - 1) + 1 = k
            BY <1>1, <3>1, <4>1
          <6> QED
            BY <3>4, <6>1, HeadMovesRight
        <5>2. data'[Slot(k)] = data[Slot(k)]
          BY <3>4, <5>1, RingFacts DEF Slots
        <5> QED
          BY <3>3, <4>1, <5>1, <5>2
      <4>2. CASE k = itemCnt
        <5>1. Slot(k - 1)' = head
          <6>1. k - 1 \in 0 .. length - 1 /\ k - 1 = length - 1
            BY <1>1, <3>1, <4>2
          <6> QED
            BY <3>4, <6>1, HeadMovesRight
        <5>2. data'[head] = x
          BY <3>4, RingFacts
        <5> QED
          BY <3>3, <4>2, <5>1, <5>2
      <4> QED
        BY <1>1, <4>1, <4>2
    <3> HIDE DEF s
    <3> QED
      BY <1>1, <3>3, <3>4, <3>5, ContentsNext
  <2>2. CASE AppendInPlace(x) \/ AppendGrown(x)
    <3>1. itemCnt # maxLen /\ itemCnt' = itemCnt + 1
      BY <2>2 DEF AppendInPlace, AppendGrown, Room, NoRoom
    <3>2. /\ s \in Seq(Values) /\ Len(s) = itemCnt + 1
          /\ \A k \in 1 .. itemCnt : s[k] = data[Slot(k - 1)]
          /\ s[itemCnt + 1] = x
      BY <1>1, <3>1, AppendProperties
    <3>3. ASSUME AppendInPlace(x), NEW k \in 0 .. itemCnt
          PROVE  data'[Slot(k)'] = IF k < itemCnt THEN data[Slot(k)] ELSE x
      <4>1. Slot(k)' = Slot(k) /\ data' = [data EXCEPT ![tail] = x] /\ itemCnt < length
        BY <3>3 DEF AppendInPlace, Slot, Room
      <4>2. CASE k < itemCnt
        <5>1. Slot(k) \in Slots /\ Slot(k) # tail
          BY <1>1, <4>1, <4>2, SlotFacts
        <5> QED
          BY <4>1, <4>2, <5>1, RingFacts DEF Slots
      <4>3. CASE k = itemCnt
        BY <4>1, <4>3, RingFacts DEF Slot
      <4> QED
        BY <1>1, <4>2, <4>3
    <3>4. ASSUME AppendGrown(x), NEW k \in 0 .. itemCnt
          PROVE  data'[Slot(k)'] = IF k < itemCnt THEN data[Slot(k)] ELSE x
      <4>1. /\ itemCnt = length /\ head' = 0 /\ length' = GrownLength
            /\ data' = [GrownData EXCEPT ![length] = x] /\ GrownLength \in Nat /\ GrownLength > length
        BY <3>1, <3>4, GrownLengths DEF AppendGrown, NoRoom
      <4>2. Slot(k)' = k
        BY <1>1, <4>1 DEF Slot
      <4>3. GrownData = [i \in 0 .. GrownLength - 1 |-> IF i < length THEN data[Slot(i)] ELSE Null]
        BY DEF GrownData
      <4> QED
        BY <1>1, <4>1, <4>2, <4>3
    <3>5. ASSUME NEW k \in 1 .. itemCnt + 1 PROVE data'[Slot(k - 1)'] = s[k]
      <4>1. k - 1 \in 0 .. itemCnt
        BY <1>1
      <4>2. data'[Slot(k - 1)'] = IF k - 1 < itemCnt THEN data[Slot(k - 1)] ELSE x
        BY <2>2, <3>3, <3>4, <4>1
      <4> QED
        BY <1>1, <3>2, <4>2
    <3> HIDE DEF s
    <3> QED
      BY <1>1, <3>1, <3>2, <3>5, ContentsNext
  <2>3. ~AppendToEmpty(x)
    BY FullFacts DEF AppendToEmpty
  <2> QED
    BY <2>1, <2>2, <2>3 DEF AppendRight
<1> HIDE DEF s
<1> QED
  BY <1>2, <1>3, <1>4, BecomesFacts

\* appendleft: the new item goes before the first, in the last slot at worst.
LEMMA AppendLeftIsExact ==
    ASSUME 0 \notin MaxLens, Ring, Present, NEW x \in Values, AppendLeft(x)
    PROVE  Abstract!AppendLeft(x)
<1> DEFINE kept == IF itemCnt = maxLen THEN Abstract!Front(Contents) ELSE Contents
           s == Abstract!Cons(x, kept)
<1>1. /\ Contents \in Seq(Values) /\ Len(Contents) = itemCnt /\ itemCnt \in Nat
      /\ \A k \in 1 .. itemCnt : Contents[k] = data[Slot(k - 1)]
  BY ContentsSequence
<1>2. result' = "ok" /\ UNCHANGED maxLen
  BY RingFacts DEF AppendLeft, Returns, AppendLeftOver, AppendLeftInPlace, AppendLeftGrown
<1>3. Abstract!AppendLeft(x) <=> Abstract!Becomes(s, "ok")
  BY FullFacts DEF Abstract!AppendLeft
<1>4. Contents' = s
  <2>1. CASE AppendLeftOver(x)
    <3>1. itemCnt = maxLen /\ itemCnt # 0 /\ length = itemCnt /\ tail = head
      BY <1>1, <2>1, FullHasNoGap, FullFacts, RingFacts DEF AppendLeftOver
    <3>2. /\ kept \in Seq(Values) /\ Len(kept) = itemCnt - 1
          /\ \A k \in 1 .. itemCnt - 1 : kept[k] = data[Slot(k - 1)]
      <4>1. Contents # <<>>
        BY <3>1, ContentsSequence
      <4>2. /\ Abstract!Front(Contents) \in Seq(Values)
            /\ Len(Abstract!Front(Contents)) = itemCnt - 1
            /\ \A k \in 1 .. itemCnt - 1 : Abstract!Front(Contents)[k] = Contents[k]
        BY <1>1, <4>1, FrontFacts
      <4> QED
        BY <1>1, <3>1, <4>2
    <3> HIDE DEF kept
    <3>3. /\ s \in Seq(Values) /\ Len(s) = itemCnt /\ s[1] = x
          /\ \A k \in 2 .. itemCnt : s[k] = kept[k - 1]
      BY <1>1, <3>2, ConsFacts
    <3>4. /\ itemCnt' = itemCnt /\ length' = length /\ head' = Before(head)
          /\ data' = [data EXCEPT ![Before(head)] = x]
      BY <2>1, <3>1 DEF AppendLeftOver
    <3>5. ASSUME NEW k \in 1 .. itemCnt PROVE data'[Slot(k - 1)'] = s[k]
      <4>1. CASE k = 1
        <5>1. Slot(k - 1)' = Before(head) /\ Before(head) \in 0 .. length - 1
          <6>1. k - 1 \in 0 .. length - 1 /\ k - 1 = 0
            BY <1>1, <3>1, <4>1
          <6> QED
            BY <3>4, <6>1, HeadMovesLeft DEF Slots
        <5> QED
          BY <3>3, <3>4, <4>1, <5>1, RingFacts
      <4>2. CASE k > 1
        <5>1. Slot(k - 1)' = Slot(k - 2) /\ Slot(k - 2) # Before(head) /\ Slot(k - 2) \in Slots
          <6>1. k - 1 \in 0 .. length - 1 /\ k - 1 # 0 /\ (k - 1) - 1 = k - 2
            BY <1>1, <3>1, <4>2
          <6> QED
            BY <3>4, <6>1, HeadMovesLeft
        <5>2. data'[Slot(k - 2)] = data[Slot(k - 2)]
          BY <3>4, <5>1, RingFacts DEF Slots
        <5>3. k - 1 \in 1 .. itemCnt - 1 /\ k - 1 - 1 = k - 2
          BY <1>1, <4>2
        <5> QED
          BY <3>2, <3>3, <4>2, <5>1, <5>2, <5>3
      <4> QED
        BY <1>1, <4>1, <4>2
    <3> HIDE DEF s
    <3> QED
      BY <1>1, <3>3, <3>4, <3>5, ContentsNext
  <2>2. CASE AppendLeftInPlace(x) \/ AppendLeftGrown(x)
    <3>1. itemCnt # maxLen /\ itemCnt' = itemCnt + 1
      BY <2>2 DEF AppendLeftInPlace, AppendLeftGrown, Room, NoRoom
    <3>2. /\ s \in Seq(Values) /\ Len(s) = itemCnt + 1 /\ s[1] = x
          /\ \A k \in 2 .. itemCnt + 1 : s[k] = Contents[k - 1]
      BY <1>1, <3>1, ConsFacts
    <3>3. ASSUME AppendLeftInPlace(x), NEW k \in 0 .. itemCnt
          PROVE  data'[Slot(k)'] = IF k = 0 THEN x ELSE data[Slot(k - 1)]
      <4>1. /\ data' = [data EXCEPT ![Before(head)] = x] /\ itemCnt < length
            /\ head' = Before(head) /\ length' = length
        BY <3>3, RingFacts DEF AppendLeftInPlace, Room
      <4>2. CASE k = 0
        <5>1. Slot(k)' = Before(head) /\ Before(head) \in 0 .. length - 1
          BY <4>1, <4>2, RingFacts DEF Slot, Before
        <5> QED
          BY <4>1, <4>2, <5>1, RingFacts
      <4>3. CASE k # 0
        <5>1. Slot(k)' = Slot(k - 1)
          BY <4>1, <4>3, RingFacts DEF Slot, Before
        <5>2. Slot(k - 1) \in Slots /\ Slot(k - 1) # Before(head)
          BY <1>1, <4>1, <4>3, SlotFacts
        <5> QED
          BY <4>1, <4>3, <5>1, <5>2, RingFacts DEF Slots
      <4> QED
        BY <4>2, <4>3
    <3>4. ASSUME AppendLeftGrown(x), NEW k \in 0 .. itemCnt
          PROVE  data'[Slot(k)'] = IF k = 0 THEN x ELSE data[Slot(k - 1)]
      <4>1. /\ itemCnt = length /\ head' = GrownLength - 1 /\ length' = GrownLength
            /\ data' = [GrownData EXCEPT ![GrownLength - 1] = x]
            /\ GrownLength \in Nat /\ GrownLength > length
        BY <3>1, <3>4, GrownLengths DEF AppendLeftGrown, NoRoom
      <4>2. Slot(k)' = IF k = 0 THEN GrownLength - 1 ELSE k - 1
        BY <1>1, <4>1 DEF Slot
      <4>3. GrownData = [i \in 0 .. GrownLength - 1 |-> IF i < length THEN data[Slot(i)] ELSE Null]
        BY DEF GrownData
      <4> QED
        BY <1>1, <4>1, <4>2, <4>3
    <3>5. ASSUME NEW k \in 1 .. itemCnt + 1 PROVE data'[Slot(k - 1)'] = s[k]
      <4>1. k - 1 \in 0 .. itemCnt /\ (k - 1 = 0 <=> k = 1) /\ (k # 1 => k \in 2 .. itemCnt + 1)
            /\ (k # 1 => k - 1 \in 1 .. itemCnt)
        BY <1>1
      <4>2. data'[Slot(k - 1)'] = IF k - 1 = 0 THEN x ELSE data[Slot((k - 1) - 1)]
        BY <2>2, <3>3, <3>4, <4>1
      <4> QED
        BY <1>1, <3>2, <4>1, <4>2
    <3> HIDE DEF s
    <3> QED
      BY <1>1, <3>1, <3>2, <3>5, ContentsNext
  <2> QED
    BY <2>1, <2>2 DEF AppendLeft
<1> HIDE DEF s
<1> QED
  BY <1>2, <1>3, <1>4, BecomesFacts
-----------------------------------------------------------------------------
(* What pop and popleft leave.                                               *)

\* The items that stay when the last is taken.
LEMMA TakeLastFacts ==
    ASSUME Ring, Present, itemCnt > 0, TakeLast
    PROVE  \A k \in 1 .. itemCnt - 1 : data'[Slot(k - 1)'] = Contents[k]
<1> SUFFICES ASSUME NEW k \in 1 .. itemCnt - 1
             PROVE  data'[Slot(k - 1)'] = Contents[k]
  OBVIOUS
<1>1. itemCnt \in Nat /\ Contents[k] = data[Slot(k - 1)]
  BY ContentsSequence
<1>2. k - 1 \in 0 .. itemCnt - 1 /\ k - 1 # itemCnt - 1
  BY <1>1
<1>3. Slot(k - 1) \in Slots /\ Slot(k - 1) # Before(tail)
  BY <1>2, SlotFacts
<1>4. Slot(k - 1)' = Slot(k - 1) /\ data' = [data EXCEPT ![Before(tail)] = Null]
  BY DEF TakeLast, Slot
<1> QED
  BY <1>1, <1>3, <1>4, RingFacts DEF Slots

\* The same at the other end.
LEMMA TakeFirstFacts ==
    ASSUME Ring, Present, itemCnt > 0, TakeFirst
    PROVE  \A k \in 1 .. itemCnt - 1 : data'[Slot(k - 1)'] = Contents[k + 1]
<1> SUFFICES ASSUME NEW k \in 1 .. itemCnt - 1
             PROVE  data'[Slot(k - 1)'] = Contents[k + 1]
  OBVIOUS
<1>1. itemCnt \in Nat /\ itemCnt \in 0 .. length /\ length \in Nat
  BY RingFacts
<1>2. k - 1 \in 0 .. length - 1 /\ k - 1 # length - 1 /\ (k - 1) + 1 = k /\ k + 1 \in 1 .. itemCnt
  BY <1>1
<1>3. head' = After(head) /\ length' = length /\ data' = [data EXCEPT ![head] = Null]
  BY DEF TakeFirst
<1>4. Slot(k - 1)' = Slot(k) /\ Slot(k) \in Slots /\ Slot(k) # head
  BY <1>2, <1>3, HeadMovesRight
<1>5. Contents[k + 1] = data[Slot((k + 1) - 1)] /\ (k + 1) - 1 = k
  BY <1>1, <1>2, ContentsSequence
<1> QED
  BY <1>3, <1>4, <1>5, RingFacts DEF Slots

\* Without items there is nothing to pop.
LEMMA PopIsExact == ASSUME Ring, Present, Pop PROVE Abstract!Pop
<1>1. /\ Contents \in Seq(Values) /\ Len(Contents) = itemCnt /\ itemCnt \in Nat
      /\ itemCnt = 0 <=> Contents = <<>>
      /\ UNCHANGED maxLen
  BY ContentsSequence DEF Pop
<1>2. CASE itemCnt = 0
  <2>1. result' = "IndexError" /\ UNCHANGED Contents
    BY <1>2, ContentsKept DEF Pop, Raises, Returns
  <2> QED
    BY <1>1, <1>2, <2>1 DEF Abstract!Pop, Abstract!Fails, Abstract!Becomes
<1>3. CASE itemCnt # 0
  <2>1. TakeLast /\ result' = data[Before(tail)] /\ itemCnt' = itemCnt - 1
    BY <1>3 DEF Pop, Returns, TakeLast
  <2>2. /\ Abstract!Front(Contents) \in Seq(Values)
        /\ Len(Abstract!Front(Contents)) = itemCnt - 1
        /\ \A k \in 1 .. itemCnt - 1 : Abstract!Front(Contents)[k] = Contents[k]
        /\ Abstract!Last(Contents) = Contents[itemCnt]
    BY <1>1, <1>3, FrontFacts
  <2>3. \A k \in 1 .. itemCnt - 1 : data'[Slot(k - 1)'] = Abstract!Front(Contents)[k]
    BY <1>1, <1>3, <2>1, <2>2, TakeLastFacts
  <2>4. Contents' = Abstract!Front(Contents)
    <3>1. itemCnt - 1 \in Nat
      BY <1>1, <1>3
    <3> QED
      BY <2>1, <2>2, <2>3, <3>1, ContentsNext
  <2>5. Abstract!Last(Contents) = data[Before(tail)]
    <3>1. itemCnt - 1 \in 0 .. itemCnt - 1 /\ itemCnt \in 1 .. itemCnt
      BY <1>1, <1>3
    <3>2. Slot(itemCnt - 1) = Before(tail)
      BY <3>1, SlotFacts
    <3> QED
      BY <2>2, <3>1, <3>2, ContentsSequence
  <2> QED
    BY <1>1, <1>3, <2>1, <2>4, <2>5 DEF Abstract!Pop, Abstract!Becomes
<1> QED
  BY <1>2, <1>3

\* The first item is the one in the head.
LEMMA PopLeftIsExact == ASSUME Ring, Present, PopLeft PROVE Abstract!PopLeft
<1>1. /\ Contents \in Seq(Values) /\ Len(Contents) = itemCnt /\ itemCnt \in Nat
      /\ itemCnt = 0 <=> Contents = <<>>
      /\ UNCHANGED maxLen
  BY ContentsSequence DEF PopLeft
<1>2. CASE itemCnt = 0
  <2>1. result' = "IndexError" /\ UNCHANGED Contents
    BY <1>2, ContentsKept DEF PopLeft, Raises, Returns
  <2> QED
    BY <1>1, <1>2, <2>1 DEF Abstract!PopLeft, Abstract!Fails, Abstract!Becomes
<1>3. CASE itemCnt # 0
  <2>1. TakeFirst /\ result' = data[head] /\ itemCnt' = itemCnt - 1
    BY <1>3 DEF PopLeft, Returns, TakeFirst
  <2>2. /\ Tail(Contents) \in Seq(Values)
        /\ Len(Tail(Contents)) = itemCnt - 1
        /\ \A k \in 1 .. itemCnt - 1 : Tail(Contents)[k] = Contents[k + 1]
    BY <1>1, <1>3, HeadTailProperties
  <2>3. \A k \in 1 .. itemCnt - 1 : data'[Slot(k - 1)'] = Tail(Contents)[k]
    BY <1>1, <1>3, <2>1, <2>2, TakeFirstFacts
  <2>4. Contents' = Tail(Contents)
    <3>1. itemCnt - 1 \in Nat
      BY <1>1, <1>3
    <3> QED
      BY <2>1, <2>2, <2>3, <3>1, ContentsNext
  <2>5. Head(Contents) = data[head]
    <3>1. 0 \in 0 .. itemCnt - 1 /\ 1 \in 1 .. itemCnt /\ 1 - 1 = 0
      BY <1>1, <1>3
    <3>2. Slot(0) = head
      BY <3>1, SlotFacts
    <3>3. Contents[1] = data[Slot(0)]
      BY <3>1, ContentsSequence
    <3> QED
      BY <1>1, <3>2, <3>3
  <2> QED
    BY <1>1, <1>3, <2>1, <2>4, <2>5 DEF Abstract!PopLeft, Abstract!Becomes
<1> QED
  BY <1>2, <1>3
-----------------------------------------------------------------------------
(* Removals.                                                                 *)

\* What is left of the items when position j (from 0) is dropped.
LEMMA DroppedItems ==
    ASSUME Ring, Present, NEW j \in 0 .. itemCnt - 1, itemCnt' = itemCnt - 1,
           \A k \in 0 .. itemCnt - 2 : data'[Slot(k)'] = IF k < j THEN data[Slot(k)] ELSE data[Slot(k + 1)]
    PROVE  Contents' = Abstract!RemoveAt(Contents, j + 1)
<1> DEFINE s == Abstract!RemoveAt(Contents, j + 1)
<1>1. /\ Contents \in Seq(Values) /\ Len(Contents) = itemCnt /\ itemCnt \in Nat
      /\ \A k \in 1 .. itemCnt : Contents[k] = data[Slot(k - 1)]
  BY ContentsSequence
<1>2. /\ s \in Seq(Values) /\ Len(s) = itemCnt - 1
      /\ \A k \in 1 .. itemCnt - 1 : s[k] = IF k < j + 1 THEN Contents[k] ELSE Contents[k + 1]
  <2>1. j + 1 \in 1 .. Len(Contents)
    BY <1>1
  <2> QED
    BY <1>1, <2>1, RemoveAtFacts
<1> HIDE DEF s
<1>3. ASSUME NEW k \in 1 .. itemCnt - 1 PROVE data'[Slot(k - 1)'] = s[k]
  <2>1. /\ k - 1 \in 0 .. itemCnt - 2 /\ (k - 1 < j <=> k < j + 1) /\ (k - 1) + 1 = (k + 1) - 1
        /\ k \in 1 .. itemCnt /\ k + 1 \in 1 .. itemCnt
    BY <1>1
  <2>2. data'[Slot(k - 1)'] = IF k - 1 < j THEN data[Slot(k - 1)] ELSE data[Slot((k - 1) + 1)]
    BY <2>1
  <2> QED
    BY <1>1, <1>2, <2>1, <2>2
<1>4. itemCnt - 1 \in Nat
  BY <1>1
<1> QED
  BY <1>2, <1>3, <1>4, ContentsNext DEF s

\* Taking an item from an end drops the first or the last position.
LEMMA EndsAreDropped ==
    ASSUME Ring, Present, itemCnt > 0
    PROVE  /\ TakeFirst => Contents' = Abstract!RemoveAt(Contents, 0 + 1)
           /\ TakeLast => Contents' = Abstract!RemoveAt(Contents, (itemCnt - 1) + 1)
<1>1. itemCnt \in Nat \ {0} /\ \A k \in 1 .. itemCnt : Contents[k] = data[Slot(k - 1)]
  BY ContentsSequence
<1>2. ASSUME TakeFirst PROVE Contents' = Abstract!RemoveAt(Contents, 0 + 1)
  <2>1. 0 \in 0 .. itemCnt - 1 /\ itemCnt' = itemCnt - 1
    BY <1>1, <1>2 DEF TakeFirst
  <2>2. ASSUME NEW k \in 0 .. itemCnt - 2
        PROVE  data'[Slot(k)'] = IF k < 0 THEN data[Slot(k)] ELSE data[Slot(k + 1)]
    <3>1. k + 1 \in 1 .. itemCnt - 1 /\ (k + 1) - 1 = k /\ (k + 1) + 1 \in 1 .. itemCnt
          /\ ((k + 1) + 1) - 1 = k + 1 /\ ~(k < 0)
      BY <1>1
    <3>2. data'[Slot((k + 1) - 1)'] = Contents[(k + 1) + 1]
      BY <1>2, <3>1, TakeFirstFacts
    <3> QED
      BY <1>1, <3>1, <3>2
  <2> QED
    BY <2>1, <2>2, DroppedItems
<1>3. ASSUME TakeLast PROVE Contents' = Abstract!RemoveAt(Contents, (itemCnt - 1) + 1)
  <2>1. itemCnt - 1 \in 0 .. itemCnt - 1 /\ itemCnt' = itemCnt - 1
    BY <1>1, <1>3 DEF TakeLast
  <2>2. ASSUME NEW k \in 0 .. itemCnt - 2
        PROVE  data'[Slot(k)'] = IF k < itemCnt - 1 THEN data[Slot(k)] ELSE data[Slot(k + 1)]
    <3>1. k + 1 \in 1 .. itemCnt - 1 /\ (k + 1) - 1 = k /\ k + 1 \in 1 .. itemCnt /\ k < itemCnt - 1
      BY <1>1
    <3>2. data'[Slot((k + 1) - 1)'] = Contents[k + 1]
      BY <1>3, <3>1, TakeLastFacts
    <3> QED
      BY <1>1, <3>1, <3>2
  <2> QED
    BY <2>1, <2>2, DroppedItems
<1> QED
  BY <1>2, <1>3

\* The two loops of remove() close the gap, and only that.
LEMMA SlideDrops ==
    ASSUME Ring, Present, NEW j \in 0 .. itemCnt - 1, Slot(j) # head, Slot(j) # Before(tail),
           NEW k \in 0 .. itemCnt - 2
    PROVE  Slide(Slot(j))[Slot(k)] = IF k < j THEN data[Slot(k)] ELSE data[Slot(k + 1)]
<1>1. PICK n \in Nat \ {0} : n = length
  BY RingFacts
<1>2. PICK c \in 0 .. n : c = itemCnt
  BY <1>1, RingFacts
<1>3. PICK h \in 0 .. n - 1 : h = head
  BY <1>1, RingFacts
<1>4. PICK t \in 0 .. n - 1 : t = tail /\ t = IF h + c >= n THEN h + c - n ELSE h + c
  BY <1>1, <1>2, <1>3, RingFacts
<1>5. j \in 1 .. c - 2 /\ k \in 0 .. c - 2
  <2>1. itemCnt \in Nat /\ j # 0 /\ j # itemCnt - 1
    BY RingFacts, SlotFacts
  <2> QED
    BY <1>2, <2>1
<1>6. PICK f \in 0 .. n - 1 : f = Slot(j) /\ f = IF h + j >= n THEN h + j - n ELSE h + j
  BY <1>1, <1>2, <1>3, <1>5 DEF Slot
<1>7. PICK p \in 0 .. n - 1 : p = Slot(k) /\ p = IF h + k >= n THEN h + k - n ELSE h + k
  <2>1. h \in Int /\ n \in Int /\ k \in Int /\ 0 <= h /\ h < n /\ 0 <= k /\ k < n
    BY <1>2, <1>5
  <2>2. (IF h + k >= n THEN h + k - n ELSE h + k) \in 0 .. n - 1
    BY <2>1
  <2>3. Slot(k) = IF h + k >= n THEN h + k - n ELSE h + k
    BY <1>1, <1>3 DEF Slot
  <2> QED
    BY <2>2, <2>3
<1>8. After(p) = Slot(k + 1)
  BY <1>1, <1>2, <1>3, <1>5, <1>7 DEF After, Slot
<1> DEFINE start == IF h >= t THEN 0 ELSE h
           below == f \in start .. t - 2
           slid == {i \in start .. t - 2 : below => i >= f}
           wrapped == IF h >= t /\ ~below THEN f .. n - 1 ELSE {}
           moved == IF t = 0 THEN wrapped \ {n - 1} ELSE slid \cup wrapped
<1>9. Slide(f) = [i \in 0 .. n - 1 |-> IF i \in moved THEN data[After(i)] ELSE data[i]]
  BY <1>1, <1>3, <1>4 DEF Slide, Slots
<1>10. p \in moved <=> k >= j
  <2>1. CASE h < t
    BY <1>5, <1>6, <1>7, <1>4, <2>1
  <2>2. CASE h >= t /\ t = 0
    BY <1>5, <1>6, <1>7, <1>4, <2>2
  <2>3. CASE h >= t /\ t # 0 /\ f < h
    BY <1>5, <1>6, <1>7, <1>4, <2>3
  <2>4. CASE h >= t /\ t # 0 /\ f >= h
    BY <1>5, <1>6, <1>7, <1>4, <2>4
  <2> QED
    BY <2>1, <2>2, <2>3, <2>4
<1> HIDE DEF moved
<1>11. Slide(f)[p] = IF k < j THEN data[p] ELSE data[After(p)]
  BY <1>5, <1>9, <1>10
<1> QED
  BY <1>6, <1>7, <1>8, <1>11

\* Where the first item x is, and that there is one if the slots say so.
LEMMA FirstFoundFacts ==
    ASSUME Ring, Present, NEW x, NEW found \in FirstFound(x)
    PROVE  /\ found \in Slots /\ Offset(found) \in 0 .. itemCnt - 1 /\ Slot(Offset(found)) = found
           /\ Abstract!Contains(Contents, x)
           /\ Abstract!RemoveFirst(Contents, x) = Abstract!RemoveAt(Contents, Offset(found) + 1)
<1> DEFINE j == Offset(found)
<1>1. /\ Contents \in Seq(Values) /\ Len(Contents) = itemCnt /\ itemCnt \in Nat
      /\ \A k \in 1 .. itemCnt : Contents[k] = data[Slot(k - 1)]
  BY ContentsSequence
<1>2. found \in Slots /\ j < itemCnt /\ data[found] = x
  BY DEF FirstFound, Found
<1>3. j \in 0 .. itemCnt - 1 /\ Slot(j) = found
  <2>1. PICK n \in Nat \ {0} : n = length
    BY RingFacts
  <2>2. PICK h \in 0 .. n - 1 : h = head
    BY <2>1, RingFacts
  <2>3. j = (IF found >= h THEN found - h ELSE found - h + n) /\ found \in 0 .. n - 1
    BY <1>2, <2>1, <2>2 DEF Offset, Slots
  <2>4. j \in 0 .. n - 1 /\ found = IF h + j >= n THEN h + j - n ELSE h + j
    BY <2>3
  <2> HIDE DEF j
  <2> QED
    BY <1>1, <1>2, <2>1, <2>2, <2>4 DEF Slot
<1>4. j + 1 \in 1 .. Len(Contents) /\ (j + 1) - 1 = j
  BY <1>1, <1>3
<1> HIDE DEF j
<1>5. Contents[j + 1] = x
  BY <1>1, <1>2, <1>3, <1>4
<1>6. ASSUME NEW q \in 1 .. Len(Contents), Contents[q] = x PROVE j + 1 <= q
  <2>1. q - 1 \in 0 .. itemCnt - 1 /\ data[Slot(q - 1)] = x
    BY <1>1, <1>6
  <2>2. Slot(q - 1) \in Slots /\ Offset(Slot(q - 1)) = q - 1
    BY <2>1, SlotFacts
  <2>3. Slot(q - 1) \in Found(x)
    BY <1>1, <2>1, <2>2 DEF Found
  <2>4. Offset(found) <= q - 1
    BY <2>2, <2>3 DEF FirstFound
  <2> QED
    BY <1>1, <1>3, <2>4 DEF j
<1>7. Abstract!Contains(Contents, x)
      /\ Abstract!RemoveFirst(Contents, x) = Abstract!RemoveAt(Contents, j + 1)
  BY <1>1, <1>4, <1>5, <1>6, RemoveFirstFacts
<1> QED
  BY <1>2, <1>3, <1>7 DEF j

\* remove() drops the first item that equals x, wherever it lies in the ring.
LEMMA RemoveIsExact ==
    ASSUME 0 \notin MaxLens, Ring, Present, NEW x \in Values, RemoveItem(x)
    PROVE  Abstract!RemoveItem(x)
<1>1. /\ Contents \in Seq(Values) /\ Len(Contents) = itemCnt /\ itemCnt \in Nat
      /\ \A k \in 1 .. itemCnt : Contents[k] = data[Slot(k - 1)]
      /\ UNCHANGED maxLen
  BY ContentsSequence DEF RemoveItem
<1>2. CASE Found(x) = {}
  <2>1. ~Abstract!Contains(Contents, x)
    <3> SUFFICES ASSUME NEW q \in 1 .. itemCnt, Contents[q] = x PROVE FALSE
      BY <1>1 DEF Abstract!Contains
    <3>1. q - 1 \in 0 .. itemCnt - 1 /\ data[Slot(q - 1)] = x
      BY <1>1
    <3>2. Slot(q - 1) \in Slots /\ Offset(Slot(q - 1)) = q - 1
      BY <3>1, SlotFacts
    <3> QED
      BY <1>1, <1>2, <3>1, <3>2 DEF Found
  <2>2. result' = "ValueError" /\ UNCHANGED Contents
    BY <1>2, RingFacts, ContentsKept DEF RemoveItem, Raises, Returns
  <2> QED
    BY <1>1, <2>1, <2>2 DEF Abstract!RemoveItem, Abstract!Fails, Abstract!Becomes
<1>3. CASE Found(x) # {}
  <2>1. PICK found \in FirstFound(x) :
            \/ found = head /\ TakeFirst
            \/ found # head /\ found = Before(tail) /\ TakeLast
            \/ found \notin {head, Before(tail)} /\ RemoveFromMiddle(found)
    BY <1>3 DEF RemoveItem
  <2> DEFINE j == Offset(found)
  <2>2. /\ found \in Slots /\ j \in 0 .. itemCnt - 1 /\ Slot(j) = found
        /\ Abstract!Contains(Contents, x)
        /\ Abstract!RemoveFirst(Contents, x) = Abstract!RemoveAt(Contents, j + 1)
    BY FirstFoundFacts
  <2> HIDE DEF j
  <2>3. itemCnt > 0
    BY <1>1, <2>2
  <2>4. Contents' = Abstract!RemoveAt(Contents, j + 1)
    <3>1. CASE found = head /\ TakeFirst
      <4>1. j = 0
        BY <2>2, <3>1, SlotFacts
      <4> QED
        BY <2>3, <3>1, <4>1, EndsAreDropped
    <3>2. CASE found # head /\ found = Before(tail) /\ TakeLast
      <4>1. j = itemCnt - 1
        BY <2>2, <3>2, SlotFacts
      <4> QED
        BY <2>3, <3>2, <4>1, EndsAreDropped
    <3>3. CASE found \notin {head, Before(tail)} /\ RemoveFromMiddle(found)
      <4>1. data' = Slide(Slot(j)) /\ itemCnt' = itemCnt - 1 /\ UNCHANGED <<head, length>>
        BY <2>2, <3>3 DEF RemoveFromMiddle
      <4>2. \A k : Slot(k)' = Slot(k)
        BY <4>1 DEF Slot
      <4>3. \A k \in 0 .. itemCnt - 2 :
                data'[Slot(k)'] = IF k < j THEN data[Slot(k)] ELSE data[Slot(k + 1)]
        BY <2>2, <3>3, <4>1, <4>2, SlideDrops
      <4> QED
        BY <2>2, <4>1, <4>3, DroppedItems
    <3> QED
      BY <2>1, <3>1, <3>2, <3>3
  <2>5. result' = "ok"
    BY <1>3 DEF RemoveItem, Returns
  <2> QED
    BY <1>1, <2>2, <2>4, <2>5 DEF Abstract!RemoveItem, Abstract!Becomes
<1> QED
  BY <1>2, <1>3
-----------------------------------------------------------------------------
(* Rotations.                                                                *)

\* A remainder is what is left of a multiple.
LEMMA RemainderOf ==
    ASSUME NEW m \in Nat \ {0}, NEW q \in Int, NEW i \in 0 .. m - 1
    PROVE  (m * q + i) % m = i
  OBVIOUS

\* An integer is a multiple and its remainder.
LEMMA QuotientAndRemainder ==
    ASSUME NEW m \in Nat \ {0}, NEW x \in Int
    PROVE  x = m * (x \div m) + (x % m) /\ x % m \in 0 .. m - 1 /\ x \div m \in Int
  OBVIOUS

\* Where a position comes from when m items are shifted by n.
LEMMA ShiftedRemainder ==
    ASSUME NEW m \in Nat \ {0}, NEW n \in Int, NEW k \in 0 .. m - 1
    PROVE  (k - n) % m = IF k >= n % m THEN k - (n % m) ELSE k - (n % m) + m
<1> DEFINE q == n \div m
           r == n % m
           i == IF k >= r THEN k - r ELSE k - r + m
<1>1. n = m * q + r /\ r \in 0 .. m - 1 /\ q \in Int
  BY QuotientAndRemainder
<1> HIDE DEF q, r
<1>2. /\ i \in 0 .. m - 1
      /\ k - n = m * (-q) + i \/ k - n = m * (-q - 1) + i
  BY <1>1
<1>3. -q \in Int /\ -q - 1 \in Int
  BY <1>1
<1> HIDE DEF i
<1>4. (m * (-q) + i) % m = i /\ (m * (-q - 1) + i) % m = i
  BY <1>2, <1>3, RemainderOf
<1>5. (k - n) % m = i
  BY <1>2, <1>4, Zenon
<1> QED
  BY <1>5 DEF i, r

\* An array without gaps is rotated by moving its head.
LEMMA HeadIsShifted ==
    ASSUME Ring, itemCnt = length, NEW rot \in 0 .. itemCnt - 1, RotateInPlace(rot),
           NEW k \in 0 .. itemCnt - 1
    PROVE  Slot(k)' = Slot(IF k >= rot THEN k - rot ELSE k - rot + itemCnt)
<1>1. PICK m \in Nat \ {0} : m = length
  BY RingFacts
<1>2. PICK h \in 0 .. m - 1 : h = head /\ h = tail
  BY <1>1, RingFacts
<1> DEFINE g == IF h >= rot THEN h - rot ELSE h - rot + m
<1>3. g \in 0 .. m - 1 /\ (h - rot + m = m * 1 + g \/ h - rot + m = m * 0 + g)
  BY <1>1, <1>2
<1>4. (m * 1 + g) % m = g /\ (m * 0 + g) % m = g
  BY <1>3, RemainderOf
<1>5. (h - rot + m) % m = g
  <2> HIDE DEF g
  <2> QED
    BY <1>3, <1>4, Zenon
<1>6. head' = g /\ length' = m
  BY <1>1, <1>2, <1>5 DEF RotateInPlace
<1>7. Slot(k)' = IF g + k >= m THEN g + k - m ELSE g + k
  <2> HIDE DEF g
  <2> QED
    BY <1>1, <1>3, <1>6, SlotNext
<1> DEFINE j == IF k >= rot THEN k - rot ELSE k - rot + m
<1>8. Slot(j) = IF h + j >= m THEN h + j - m ELSE h + j
  BY <1>1, <1>2 DEF Slot
<1>9. (IF g + k >= m THEN g + k - m ELSE g + k) = IF h + j >= m THEN h + j - m ELSE h + j
  BY <1>1
<1> QED
  BY <1>1, <1>7, <1>8, <1>9

\* Every item moves by n positions, in place or into an array without gaps.
LEMMA RotateIsExact ==
    ASSUME Ring, Present, NEW n \in Int, Rotate(n)
    PROVE  Abstract!Rotate(n)
<1> DEFINE s == [p \in 1 .. itemCnt |-> Contents[1 + ((p - 1 - n) % itemCnt)]]
<1>1. /\ Len(Contents) = itemCnt /\ itemCnt \in Nat
      /\ \A k \in 1 .. itemCnt : Contents[k] = data[Slot(k - 1)] /\ data[Slot(k - 1)] \in Values
  BY ContentsSequence
<1>2. result' = "ok" /\ UNCHANGED <<itemCnt, maxLen>>
  BY DEF Rotate, Returns
<1>3. Contents' = s
  <2>1. Contents' = [p \in 1 .. itemCnt |-> data'[Slot(p - 1)']]
    BY <1>2 DEF Contents
  <2>2. ASSUME NEW p \in 1 .. itemCnt
        PROVE  data'[Slot(p - 1)'] = Contents[1 + ((p - 1 - n) % itemCnt)]
    <3>1. PICK m \in Nat \ {0} : m = itemCnt
      BY <1>1
    <3>2. PICK k \in 0 .. m - 1 : k = p - 1
      BY <3>1
    <3>3. PICK rot \in 0 .. m - 1 : rot = n % m
      BY RemainderInRange
    <3> DEFINE j == IF k >= rot THEN k - rot ELSE k - rot + m
    <3>4. j \in 0 .. m - 1 /\ (k - n) % m = j
      <4>1. (k - n) % m = IF k >= n % m THEN k - (n % m) ELSE k - (n % m) + m
        BY ShiftedRemainder
      <4>2. (k - n) % m = j
        BY <3>3, <4>1
      <4>3. k \in Int /\ rot \in Int /\ m \in Int /\ 0 <= k /\ k < m /\ 0 <= rot /\ rot < m
        BY <3>2, <3>3
      <4> QED
        BY <4>2, <4>3
    <3>5. 1 + j \in 1 .. itemCnt /\ (1 + j) - 1 = j
      BY <3>1, <3>4
    <3>6. Contents[1 + j] = data[Slot(j)]
      BY <1>1, <3>5
    <3>7. data'[Slot(k)'] = data[Slot(j)]
      <4>1. CASE rot = 0
        <5>1. UNCHANGED <<data, length, head>> /\ j = k
          BY <3>1, <3>3, <4>1 DEF Rotate
        <5> QED
          BY <5>1 DEF Slot
      <4>2. CASE rot # 0 /\ RotateInPlace(rot)
        <5>1. itemCnt = length /\ data' = data
          BY <4>2 DEF RotateInPlace
        <5> QED
          BY <3>1, <4>2, <5>1, HeadIsShifted
      <4>3. CASE rot # 0 /\ RotateByCopying(rot)
        <5>1. /\ data' = [i \in 0 .. m - 1 |->
                            data[Slot(IF i >= rot THEN i - rot ELSE i - rot + m)]]
              /\ length' = m /\ head' = 0
          BY <3>1, <4>3 DEF RotateByCopying
        <5>2. Slot(k)' = k
          BY <5>1 DEF Slot
        <5> QED
          BY <5>1, <5>2
      <4>4. rot # 0 => RotateInPlace(rot) \/ RotateByCopying(rot)
        BY <3>1, <3>3 DEF Rotate
      <4> QED
        BY <4>1, <4>2, <4>3, <4>4
    <3> HIDE DEF j
    <3> QED
      BY <3>1, <3>2, <3>4, <3>6, <3>7
  <2> QED
    BY <2>1, <2>2
<1> HIDE DEF s
<1> QED
  BY <1>1, <1>2, <1>3 DEF s, Abstract!Rotate, Abstract!Becomes
-----------------------------------------------------------------------------
(* Indexing.                                                                 *)

\* An index in range has a position, and it is the one the slot holds.
LEMMA PositionFacts ==
    ASSUME Ring, Present, NEW i \in Int
    PROVE  /\ InRange(i) <=> Abstract!Position(i) # 0
           /\ InRange(i) =>
                 \E k \in 0 .. itemCnt - 1 :
                    /\ Abstract!Position(i) = k + 1 /\ IndexToSlot(i) = Slot(k)
                    /\ Contents[k + 1] = data[Slot(k)]
<1>1. /\ Len(Contents) = itemCnt /\ itemCnt \in Nat
      /\ \A k \in 1 .. itemCnt : Contents[k] = data[Slot(k - 1)]
  BY ContentsSequence
<1>2. Abstract!Position(i) = CASE i \in 0 .. itemCnt - 1 -> i + 1
                               [] i \in -itemCnt .. -1 -> itemCnt + i + 1
                               [] OTHER -> 0
  BY <1>1 DEF Abstract!Position
<1>3. CASE ~InRange(i)
  <2>1. i \notin 0 .. itemCnt - 1 /\ i \notin -itemCnt .. -1
    BY <1>1, <1>3 DEF InRange
  <2> QED
    BY <1>2, <1>3, <2>1
<1>4. CASE InRange(i)
  <2> DEFINE k == IF i >= 0 THEN i ELSE itemCnt + i
  <2>1. k \in 0 .. itemCnt - 1 /\ Abstract!Position(i) = k + 1 /\ k + 1 # 0
    <3>1. CASE i >= 0
      <4>1. i \in 0 .. itemCnt - 1 /\ i \notin -itemCnt .. -1
        BY <1>1, <1>4, <3>1 DEF InRange
      <4> QED
        BY <1>2, <3>1, <4>1
    <3>2. CASE ~(i >= 0)
      <4>1. i \notin 0 .. itemCnt - 1 /\ i \in -itemCnt .. -1
        BY <1>1, <1>4, <3>2 DEF InRange
      <4> QED
        BY <1>1, <1>2, <3>2, <4>1
    <3> QED
      BY <3>1, <3>2
  <2>2. IndexToSlot(i) = Slot(k)
    BY <1>4, IndexToSlotIsSlot
  <2> HIDE DEF k
  <2>3. Contents[k + 1] = data[Slot(k)]
    <3>1. k + 1 \in 1 .. itemCnt /\ (k + 1) - 1 = k
      BY <1>1, <2>1
    <3> QED
      BY <1>1, <3>1
  <2> QED
    BY <1>4, <2>1, <2>2, <2>3
<1> QED
  BY <1>3, <1>4

\* Reading an item changes none.
LEMMA GetItemIsExact ==
    ASSUME Ring, Present, NEW i \in Int, GetItem(i)
    PROVE  Abstract!GetItem(i)
<1>1. UNCHANGED <<Contents, maxLen>>
  BY ContentsKept DEF GetItem
<1>2. CASE ~InRange(i)
  <2>1. result' = "IndexError" /\ Abstract!Position(i) = 0
    BY <1>2, PositionFacts DEF GetItem, Returns
  <2> QED
    BY <1>1, <2>1 DEF Abstract!GetItem, Abstract!Fails, Abstract!Becomes
<1>3. CASE InRange(i)
  <2>1. PICK k \in 0 .. itemCnt - 1 :
            /\ Abstract!Position(i) = k + 1 /\ IndexToSlot(i) = Slot(k)
            /\ Contents[k + 1] = data[Slot(k)]
    BY <1>3, PositionFacts
  <2>2. Abstract!Position(i) # 0 /\ result' = Contents[Abstract!Position(i)]
    BY <1>3, <2>1, PositionFacts DEF GetItem, Returns
  <2> QED
    BY <1>1, <2>2 DEF Abstract!GetItem, Abstract!Becomes
<1> QED
  BY <1>2, <1>3

\* Storing an item changes the one at its position, and no other.
LEMMA SetItemIsExact ==
    ASSUME Ring, Present, NEW i \in Int, NEW x \in Values, SetItem(i, x)
    PROVE  Abstract!SetItem(i, x)
<1>1. /\ Contents \in Seq(Values) /\ Len(Contents) = itemCnt /\ itemCnt \in Nat
      /\ \A k \in 1 .. itemCnt : Contents[k] = data[Slot(k - 1)]
      /\ UNCHANGED <<length, head, tail, itemCnt, maxLen>>
  BY ContentsSequence DEF SetItem
<1>2. CASE ~InRange(i)
  <2>1. result' = "IndexError" /\ Abstract!Position(i) = 0 /\ UNCHANGED ring
    BY <1>1, <1>2, PositionFacts DEF SetItem, Returns, ring
  <2>2. UNCHANGED Contents
    BY <2>1, ContentsKept
  <2> QED
    BY <1>1, <2>1, <2>2 DEF Abstract!SetItem, Abstract!Fails, Abstract!Becomes
<1>3. CASE InRange(i)
  <2>1. PICK k \in 0 .. itemCnt - 1 :
            /\ Abstract!Position(i) = k + 1 /\ IndexToSlot(i) = Slot(k)
            /\ Contents[k + 1] = data[Slot(k)]
    BY <1>3, PositionFacts
  <2>2. Abstract!Position(i) # 0 /\ result' = "ok" /\ data' = [data EXCEPT ![Slot(k)] = x]
    BY <1>3, <2>1, PositionFacts DEF SetItem, Returns
  <2> DEFINE s == [Contents EXCEPT ![k + 1] = x]
  <2>3. Contents' = s
    <3>1. Contents' = [p \in 1 .. itemCnt |-> data'[Slot(p - 1)]]
      BY <1>1 DEF Contents, Slot
    <3>2. s = [p \in 1 .. itemCnt |-> IF p = k + 1 THEN x ELSE data[Slot(p - 1)]]
      <4>1. k + 1 \in 1 .. itemCnt
        BY <1>1
      <4> QED
        BY <4>1 DEF Contents
    <3>3. ASSUME NEW p \in 1 .. itemCnt
          PROVE  data'[Slot(p - 1)] = IF p = k + 1 THEN x ELSE data[Slot(p - 1)]
      <4>1. p - 1 \in 0 .. itemCnt - 1 /\ (p = k + 1 <=> p - 1 = k)
        BY <1>1
      <4>2. /\ Slot(p - 1) \in Slots /\ Offset(Slot(p - 1)) = p - 1
            /\ Slot(k) \in Slots /\ Offset(Slot(k)) = k
        BY <4>1, SlotFacts
      <4>3. Slot(p - 1) = Slot(k) <=> p - 1 = k
        BY <4>2
      <4> QED
        BY <2>2, <4>1, <4>2, <4>3, RingFacts DEF Slots
    <3> QED
      BY <3>1, <3>2, <3>3
  <2>4. s = Abstract!ReplaceAt(Contents, Abstract!Position(i), x)
    BY <2>1 DEF Abstract!ReplaceAt
  <2> HIDE DEF s
  <2> QED
    BY <1>1, <2>2, <2>3, <2>4 DEF Abstract!SetItem, Abstract!Becomes
<1> QED
  BY <1>2, <1>3

\* The array that is rebuilt lacks one position.
LEMMA RebuildDrops ==
    ASSUME Ring, Present, NEW j \in 0 .. itemCnt - 1, Rebuild(Slot(j))
    PROVE  Contents' = Abstract!RemoveAt(Contents, j + 1)
<1>1. Offset(Slot(j)) = j
  BY SlotFacts
<1>2. /\ data' = [s \in Slots |-> CASE s < j -> data[Slot(s)]
                                    [] s \in j .. itemCnt - 2 -> data[Slot(s + 1)]
                                    [] OTHER -> Null]
      /\ head' = 0 /\ itemCnt' = itemCnt - 1 /\ length' = length
  BY <1>1 DEF Rebuild
<1>3. ASSUME NEW k \in 0 .. itemCnt - 2
      PROVE  data'[Slot(k)'] = IF k < j THEN data[Slot(k)] ELSE data[Slot(k + 1)]
  <2>1. Slot(k)' = k /\ k \in Slots
    BY <1>2, RingFacts DEF Slot, Slots
  <2>2. CASE k < j
    BY <1>2, <2>1, <2>2
  <2>3. CASE ~(k < j)
    <3>1. k \in j .. itemCnt - 2
      BY <2>3, RingFacts
    <3> QED
      BY <1>2, <2>1, <2>3, <3>1
  <2> QED
    BY <2>2, <2>3
<1> QED
  BY <1>2, <1>3, DroppedItems

\* Whether the item is at an end or not, the others close ranks.
LEMMA DelItemIsExact ==
    ASSUME Ring, Present, NEW i \in Int, DelItem(i)
    PROVE  Abstract!DelItem(i)
<1>1. UNCHANGED maxLen
  BY DEF DelItem
<1>2. CASE ~InRange(i)
  <2>1. result' = "IndexError" /\ Abstract!Position(i) = 0 /\ UNCHANGED ring
    BY <1>2, PositionFacts DEF DelItem, Raises, Returns
  <2>2. UNCHANGED Contents
    BY <2>1, ContentsKept
  <2> QED
    BY <1>1, <2>1, <2>2 DEF Abstract!DelItem, Abstract!Fails, Abstract!Becomes
<1>3. CASE InRange(i)
  <2>1. PICK k \in 0 .. itemCnt - 1 :
            /\ Abstract!Position(i) = k + 1 /\ IndexToSlot(i) = Slot(k)
            /\ Contents[k + 1] = data[Slot(k)]
    BY <1>3, PositionFacts
  <2>2. /\ Abstract!Position(i) # 0 /\ result' = "ok"
        /\ \/ Slot(k) = head /\ TakeFirst
           \/ Slot(k) # head /\ Slot(k) = tail - 1 /\ TakeLast
           \/ Rebuild(Slot(k))
    BY <1>3, <2>1, PositionFacts DEF DelItem, Returns
  <2>3. itemCnt \in Nat \ {0}
    BY RingFacts
  <2>4. Contents' = Abstract!RemoveAt(Contents, k + 1)
    <3>1. CASE Slot(k) = head /\ TakeFirst
      <4>1. k = 0
        BY <3>1, SlotFacts
      <4> QED
        BY <2>3, <3>1, <4>1, EndsAreDropped
    <3>2. CASE Slot(k) # head /\ Slot(k) = tail - 1 /\ TakeLast
      <4>1. Slot(k) = Before(tail)
        <5>1. Slot(k) \in 0 .. length - 1 /\ tail \in 0 .. length - 1 /\ length \in Nat
          BY SlotFacts, RingFacts DEF Slots
        <5> QED
          BY <3>2, <5>1 DEF Before
      <4>2. k = itemCnt - 1
        BY <4>1, SlotFacts
      <4> QED
        BY <2>3, <3>2, <4>2, EndsAreDropped
    <3>3. CASE Rebuild(Slot(k))
      BY <3>3, RebuildDrops
    <3> QED
      BY <2>2, <3>1, <3>2, <3>3
  <2> QED
    BY <1>1, <2>1, <2>2, <2>4 DEF Abstract!DelItem, Abstract!Becomes
<1> QED
  BY <1>2, <1>3
-----------------------------------------------------------------------------
(* The refinement.                                                           *)

\* A deque without items is the empty sequence.
LEMMA NothingIsEmpty ==
    /\ itemCnt = 0 => Contents = <<>>
    /\ itemCnt' = 0 => Contents' = <<>>
<1>1. \A f : [k \in 1 .. 0 |-> f[k]] = <<>>
  OBVIOUS
<1>2. ASSUME itemCnt = 0 PROVE Contents = <<>>
  BY <1>2 DEF Contents
<1>3. ASSUME itemCnt' = 0 PROVE Contents' = <<>>
  BY <1>3 DEF Contents
<1> QED
  BY <1>2, <1>3

\* No iterator moves an item, and neither does a step of something else.
LEMMA NothingElse ==
    ASSUME UNCHANGED vars \/ MoveNext
           \/ \E class \in {"deque_iterator", "deque_reverse_iterator"} : Iterate(class)
    PROVE  UNCHANGED Abstract!vars
<1>1. UNCHANGED <<ring, maxLen, result>>
  BY DEF vars, MoveNext, Iterate
<1> QED
  BY <1>1, ContentsKept DEF Abstract!vars

\* Every operation is exact, in one place.
LEMMA OperationsRefine ==
    ASSUME 0 \notin MaxLens, IInv
    PROVE  /\ \A x \in Values :
                 /\ AppendRight(x) => Abstract!AppendRight(x)
                 /\ AppendLeft(x) => Abstract!AppendLeft(x)
                 /\ RemoveItem(x) => Abstract!RemoveItem(x)
           /\ Pop => Abstract!Pop
           /\ PopLeft => Abstract!PopLeft
           /\ \A i \in Indices :
                 /\ Rotate(i) => Abstract!Rotate(i)
                 /\ GetItem(i) => Abstract!GetItem(i)
                 /\ DelItem(i) => Abstract!DelItem(i)
                 /\ \A x \in Values : SetItem(i, x) => Abstract!SetItem(i, x)
<1>1. Ring /\ Present
  BY DEF IInv
<1>2. ASSUME NEW x \in Values
      PROVE  /\ AppendRight(x) => Abstract!AppendRight(x)
             /\ AppendLeft(x) => Abstract!AppendLeft(x)
             /\ RemoveItem(x) => Abstract!RemoveItem(x)
  BY <1>1, AppendIsExact, AppendLeftIsExact, RemoveIsExact
<1>3. ASSUME NEW i \in Indices
      PROVE  /\ Rotate(i) => Abstract!Rotate(i)
             /\ GetItem(i) => Abstract!GetItem(i)
             /\ DelItem(i) => Abstract!DelItem(i)
             /\ \A x \in Values : SetItem(i, x) => Abstract!SetItem(i, x)
  BY <1>1, IndicesAssumption, RotateIsExact, GetItemIsExact, DelItemIsExact, SetItemIsExact
<1> QED
  BY <1>1, <1>2, <1>3, PopIsExact, PopLeftIsExact

\* Every step of the ring buffer is a step of the sequence, or none.
LEMMA StepRefines ==
    ASSUME 0 \notin MaxLens, IInv, [Next]_vars
    PROVE  [Abstract!Next]_(Abstract!vars)
<1>1. CASE Operate
  <2>1. CASE \E n \in MaxLens : Construct(n)
    <3>1. PICK n \in MaxLens : Construct(n)
      BY <2>1
    <3>2. Abstract!Construct(n)
      BY <3>1, NothingIsEmpty DEF Construct, Returns, Abstract!Construct
    <3> QED
      BY <3>2 DEF Abstract!Next
  <2>2. CASE \E x \in Values : AppendRight(x) \/ AppendLeft(x) \/ RemoveItem(x)
    BY <2>2, OperationsRefine DEF Abstract!Next
  <2>3. CASE Pop \/ PopLeft
    BY <2>3, OperationsRefine DEF Abstract!Next
  <2>4. CASE \E i \in Indices : Rotate(i) \/ GetItem(i) \/ DelItem(i)
                                \/ \E x \in Values : SetItem(i, x)
    BY <2>4, OperationsRefine DEF Abstract!Next
  <2> QED
    BY <1>1, <2>1, <2>2, <2>3, <2>4 DEF Operate
<1> QED
  BY <1>1, NothingElse DEF Next

\* Each operation on the ring is the operation on the sequence that it is
\* named for, whatever the capacity and wherever the items lie in the array.
THEOREM EveryOperationIsExact == ASSUME 0 \notin MaxLens PROVE Spec => OperationsAreExact
<1> DEFINE Exact ==
        /\ \A x \in Values :
              /\ AppendRight(x) => Abstract!AppendRight(x)
              /\ AppendLeft(x) => Abstract!AppendLeft(x)
              /\ RemoveItem(x) => Abstract!RemoveItem(x)
        /\ Pop => Abstract!Pop
        /\ PopLeft => Abstract!PopLeft
        /\ \A i \in Indices :
              /\ Rotate(i) => Abstract!Rotate(i)
              /\ GetItem(i) => Abstract!GetItem(i)
              /\ DelItem(i) => Abstract!DelItem(i)
              /\ \A x \in Values : SetItem(i, x) => Abstract!SetItem(i, x)
<1>1. IInv => [Exact]_vars
  BY OperationsRefine
<1>2. [][Exact]_vars => OperationsAreExact
  BY DEF OperationsAreExact
<1> QED
  BY <1>1, <1>2, Invariance, PTL

\* The ring buffer implements the bounded sequence.
THEOREM RingIsASequence == ASSUME 0 \notin MaxLens PROVE Spec => ImplementsDeque
<1>1. Init => Abstract!Init
  BY NothingIsEmpty DEF Init, Abstract!Init
<1>2. IInv /\ [Next]_vars => [Abstract!Next]_(Abstract!vars)
  BY StepRefines
<1>3. Spec => Abstract!Spec
  BY <1>1, <1>2, Invariance, PTL DEF Spec, Abstract!Spec
<1> QED
  BY <1>3 DEF ImplementsDeque
=============================================================================
