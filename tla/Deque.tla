------------------------------- MODULE Deque -------------------------------
(***************************************************************************)
(* collections.deque (IronPython2.Modules/_collections.cs): a ring buffer  *)
(* of length slots that grows by doubling, shrinks when it is rotated and  *)
(* overwrites the other end when the deque is full.  Every operation holds *)
(* the deque's lock, so it is one step; iterators take the lock for each   *)
(* MoveNext and notice by the version that the deque was mutated.          *)
(***************************************************************************)
EXTENDS Integers

CONSTANTS
    Values, Null,
    MaxLens, Unbounded,     \* the values of _maxLen; Unbounded is -1
    InitialLength,          \* 8: the length of the first array
    Indices,                \* the indices and the rotations tried
    MaxItems                \* bound: an unbounded deque holds no more items

ASSUME ValuesAssumption == Null \notin Values
ASSUME MaxLensAssumption == Unbounded = -1 /\ MaxLens \subseteq Nat \cup {Unbounded}
ASSUME LengthAssumption == InitialLength \in Nat \ {0}
ASSUME IndicesAssumption == Indices \subseteq Int

VARIABLES
    data,       \* _data
    length,     \* _data.Length
    head, tail, \* _head, _tail
    itemCnt,    \* _itemCnt
    maxLen,     \* _maxLen
    iter,       \* an iterator: its class, _curIndex and _moveCnt, or Stale
    result      \* what the last operation returned or raised

ring == <<data, length, head, tail, itemCnt>>
vars == <<ring, maxLen, iter, result>>
-----------------------------------------------------------------------------
Slots == 0 .. length - 1

\* The slot after i and the one before it.
After(i) == IF i + 1 = length THEN 0 ELSE i + 1
Before(i) == IF i = 0 THEN length - 1 ELSE i - 1

\* The slot of the k-th item, counted from 0, and where slot i is in this order.
Slot(k) == IF head + k >= length THEN head + k - length ELSE head + k
Offset(i) == IF i >= head THEN i - head ELSE i - head + length

Smaller(m, n) == IF m < n THEN m ELSE n
Empty(n) == [i \in 0 .. n - 1 |-> Null]

\* The array clear() allocates, and the one GrowArray does, in sequence again.
FirstLength(n) == IF n = Unbounded THEN InitialLength ELSE Smaller(n, InitialLength)

\* Variant: GrowArray always doubles the array.
GrownLengthDoubled == 2 * length

GrownLength == IF maxLen = Unbounded THEN 2 * length ELSE Smaller(maxLen, 2 * length)

GrownData == [i \in 0 .. GrownLength - 1 |-> IF i < length THEN data[Slot(i)] ELSE Null]

\* An iterator whose _version is not the deque's fails and does nothing else.
Stale == [class |-> "stale", cur |-> 0, moved |-> 0]

\* _version++
Mutated == iter' = Stale
Returns(r) == result' = r
Raises(error) == Returns(error) /\ UNCHANGED <<ring, iter>>

Init ==
    /\ maxLen \in MaxLens
    /\ length = FirstLength(maxLen)
    /\ data = Empty(length)
    /\ head = 0 /\ tail = 0 /\ itemCnt = 0
    /\ iter = Stale
    /\ result = "ok"

\* __init__ with another maxlen, or clear() with the same.
Construct(n) ==
    /\ maxLen' = n
    /\ length' = FirstLength(n)
    /\ data' = Empty(FirstLength(n))
    /\ head' = 0 /\ tail' = 0 /\ itemCnt' = 0
    /\ Mutated /\ Returns("ok")
-----------------------------------------------------------------------------
(* append and appendleft.                                                    *)

Room == itemCnt # maxLen /\ itemCnt < length
NoRoom == itemCnt # maxLen /\ itemCnt = length /\ itemCnt < MaxItems

AppendToEmpty(x) ==
    /\ itemCnt = maxLen /\ maxLen = 0
    /\ UNCHANGED ring

\* Variant: the head stays, although its item was overwritten.
AppendOverHeadKept(x) ==
    /\ itemCnt = maxLen /\ maxLen # 0
    /\ data' = [data EXCEPT ![tail] = x]
    /\ tail' = After(tail)
    /\ UNCHANGED <<length, head, itemCnt>>

\* The deque is full: the new item takes the place of the first.
AppendOver(x) ==
    /\ itemCnt = maxLen /\ maxLen # 0
    /\ data' = [data EXCEPT ![tail] = x]
    /\ tail' = After(tail)
    /\ head' = After(tail)
    /\ UNCHANGED <<length, itemCnt>>

AppendInPlace(x) ==
    /\ Room
    /\ data' = [data EXCEPT ![tail] = x]
    /\ tail' = After(tail)
    /\ itemCnt' = itemCnt + 1
    /\ UNCHANGED <<length, head>>

AppendGrown(x) ==
    /\ NoRoom
    /\ data' = [GrownData EXCEPT ![length] = x]
    /\ length' = GrownLength
    /\ head' = 0
    /\ tail' = IF length + 1 = GrownLength THEN 0 ELSE length + 1
    /\ itemCnt' = itemCnt + 1

AppendRight(x) ==
    /\ AppendToEmpty(x) \/ AppendOver(x) \/ AppendInPlace(x) \/ AppendGrown(x)
    /\ Mutated /\ Returns("ok")
    /\ UNCHANGED maxLen

\* Without slots there is no slot before the head: the store is out of range.
AppendLeftOver(x) ==
    /\ itemCnt = maxLen
    /\ head' = Before(head) /\ tail' = Before(head)
    /\ UNCHANGED <<length, itemCnt>>
    /\ IF length = 0
       THEN Returns("IndexOutOfRange") /\ UNCHANGED data
       ELSE Returns("ok") /\ data' = [data EXCEPT ![Before(head)] = x]

AppendLeftInPlace(x) ==
    /\ Room
    /\ data' = [data EXCEPT ![Before(head)] = x]
    /\ head' = Before(head)
    /\ itemCnt' = itemCnt + 1
    /\ UNCHANGED <<length, tail>>
    /\ Returns("ok")

\* The head moves from 0 to the last slot of the new array.
AppendLeftGrown(x) ==
    /\ NoRoom
    /\ data' = [GrownData EXCEPT ![GrownLength - 1] = x]
    /\ length' = GrownLength
    /\ head' = GrownLength - 1
    /\ tail' = length
    /\ itemCnt' = itemCnt + 1
    /\ Returns("ok")

AppendLeft(x) ==
    /\ AppendLeftOver(x) \/ AppendLeftInPlace(x) \/ AppendLeftGrown(x)
    /\ Mutated
    /\ UNCHANGED maxLen
-----------------------------------------------------------------------------
(* pop, popleft and removals from the middle.                                *)

TakeLast ==
    /\ data' = [data EXCEPT ![Before(tail)] = Null]
    /\ tail' = Before(tail)
    /\ itemCnt' = itemCnt - 1
    /\ Mutated
    /\ UNCHANGED <<length, head>>

\* Variant: an iterator does not notice.
TakeFirstUnversioned ==
    /\ data' = [data EXCEPT ![head] = Null]
    /\ head' = After(head)
    /\ itemCnt' = itemCnt - 1
    /\ UNCHANGED <<length, tail, iter>>

TakeFirst ==
    /\ data' = [data EXCEPT ![head] = Null]
    /\ head' = After(head)
    /\ itemCnt' = itemCnt - 1
    /\ Mutated
    /\ UNCHANGED <<length, tail>>

Pop ==
    /\ IF itemCnt = 0 THEN Raises("IndexError") ELSE TakeLast /\ Returns(data[Before(tail)])
    /\ UNCHANGED maxLen

PopLeft ==
    /\ IF itemCnt = 0 THEN Raises("IndexError") ELSE TakeFirst /\ Returns(data[head])
    /\ UNCHANGED maxLen

\* WalkDeque finds the slots that hold x; remove() stops at the first.
Found(x) == {i \in Slots : Offset(i) < itemCnt /\ data[i] = x}
FirstFound(x) == {i \in Found(x) : \A j \in Found(x) : Offset(i) <= Offset(j)}

\* Variant: the second loop is skipped, as if the items did not wrap.
SlideUnwrapped(found) ==
    LET start == IF head >= tail THEN 0 ELSE head
        slid == {i \in start .. tail - 2 : found \in start .. tail - 2 => i >= found}
    IN  [i \in Slots |-> IF i \in slid THEN data[After(i)] ELSE data[i]]

\* Two loops move the items after the one found by one slot: down from the
\* tail and, if the items wrap and it was not below the tail, from the end of
\* the array.  The last item stays in its slot as well.
Slide(found) ==
    LET start == IF head >= tail THEN 0 ELSE head
        below == found \in start .. tail - 2
        slid == {i \in start .. tail - 2 : below => i >= found}
        wrapped == IF head >= tail /\ ~below THEN found .. length - 1 ELSE {}
        moved == IF tail = 0 THEN wrapped \ {length - 1} ELSE slid \cup wrapped
    IN  [i \in Slots |-> IF i \in moved THEN data[After(i)] ELSE data[i]]

RemoveFromMiddle(found) ==
    /\ data' = Slide(found)
    /\ tail' = Before(tail)
    /\ itemCnt' = itemCnt - 1
    /\ Mutated
    /\ UNCHANGED <<length, head>>

\* A comparison that mutates the deque makes remove() fail whatever it found:
\* what is left of such a call is the mutation, an operation of its own.
\* In an empty array "not found" is taken for the last slot, and pop() fails.
RemoveItem(x) ==
    /\ UNCHANGED maxLen
    /\ IF Found(x) = {}
       THEN Raises(IF length = 0 THEN "IndexError" ELSE "ValueError")
       ELSE /\ Returns("ok")
            /\ \E found \in FirstFound(x) :
                  \/ found = head /\ TakeFirst
                  \/ found # head /\ found = Before(tail) /\ TakeLast
                  \/ found \notin {head, Before(tail)} /\ RemoveFromMiddle(found)
-----------------------------------------------------------------------------
(* rotate, indexing and __delitem__.                                         *)

\* A full array is rotated in place.
RotateInPlace(rot) ==
    /\ itemCnt = length
    /\ head' = (tail - rot + length) % length
    /\ tail' = (tail - rot + length) % length
    /\ UNCHANGED <<data, length>>

\* Variant: items are written past the end of the new array.
RotateByCopyingUnwrapped(rot) ==
    /\ itemCnt # length
    /\ data' = [i \in 0 .. itemCnt - 1 |-> IF i < rot THEN Null ELSE data[Slot(i - rot)]]
    /\ length' = itemCnt
    /\ head' = 0 /\ tail' = 0

\* Otherwise the items are copied to an array without gaps.
RotateByCopying(rot) ==
    /\ itemCnt # length
    /\ data' = [i \in 0 .. itemCnt - 1 |->
                  data[Slot(IF i >= rot THEN i - rot ELSE i - rot + itemCnt)]]
    /\ length' = itemCnt
    /\ head' = 0 /\ tail' = 0

Rotate(n) ==
    /\ Returns("ok")
    /\ UNCHANGED <<itemCnt, maxLen>>
    /\ IF itemCnt = 0 \/ n % itemCnt = 0
       THEN UNCHANGED <<data, length, head, tail, iter>>
       ELSE (RotateInPlace(n % itemCnt) \/ RotateByCopying(n % itemCnt)) /\ Mutated

InRange(i) == i \in -itemCnt .. itemCnt - 1

\* Negative indices count back from the tail.
IndexToSlot(i) ==
    CASE i >= 0 /\ head + i >= length -> head + i - length
      [] i >= 0 /\ head + i < length -> head + i
      [] i < 0 /\ tail + i < 0 -> tail + i + length
      [] i < 0 /\ tail + i >= 0 -> tail + i

GetItem(i) ==
    /\ IF InRange(i) THEN Returns(data[IndexToSlot(i)]) ELSE Returns("IndexError")
    /\ UNCHANGED <<ring, maxLen, iter>>

\* The version changes before the index is looked at.
SetItem(i, x) ==
    /\ Mutated
    /\ UNCHANGED <<length, head, tail, itemCnt, maxLen>>
    /\ IF InRange(i)
       THEN Returns("ok") /\ data' = [data EXCEPT ![IndexToSlot(i)] = x]
       ELSE Returns("IndexError") /\ UNCHANGED data

\* The array is rebuilt without the slot; it keeps its length.
Rebuild(slot) ==
    /\ data' = [i \in Slots |-> CASE i < Offset(slot) -> data[Slot(i)]
                                  [] i \in Offset(slot) .. itemCnt - 2 -> data[Slot(i + 1)]
                                  [] OTHER -> Null]
    /\ head' = 0
    /\ tail' = itemCnt - 1
    /\ itemCnt' = itemCnt - 1
    /\ Mutated
    /\ UNCHANGED length

\* The second test for the last slot never holds: the tail is never length.
DelItem(i) ==
    /\ UNCHANGED maxLen
    /\ IF ~InRange(i)
       THEN Raises("IndexError")
       ELSE /\ Returns("ok")
            /\ LET slot == IndexToSlot(i)
               IN  \/ slot = head /\ TakeFirst
                   \/ slot # head /\ slot = tail - 1 /\ TakeLast
                   \/ slot \notin {head, tail - 1} /\ Rebuild(slot)
-----------------------------------------------------------------------------
(* Iterators.                                                                *)

Iterate(class) ==
    /\ iter' = [class |-> class, moved |-> 0,
                cur |-> IF class = "deque_iterator" THEN head - 1 ELSE tail]
    /\ UNCHANGED <<ring, maxLen, result>>

\* An iterator at the end stays there.
MoveNext ==
    /\ iter.class # "stale"
    /\ iter.moved < itemCnt
    /\ iter' = [iter EXCEPT !.moved = @ + 1,
                            !.cur = IF iter.class = "deque_iterator" THEN After(@) ELSE Before(@)]
    /\ UNCHANGED <<ring, maxLen, result>>
-----------------------------------------------------------------------------
Operate ==
    \/ \E n \in MaxLens : Construct(n)
    \/ \E x \in Values : AppendRight(x) \/ AppendLeft(x) \/ RemoveItem(x)
    \/ Pop \/ PopLeft
    \/ \E i \in Indices :
          \/ Rotate(i) \/ GetItem(i) \/ DelItem(i)
          \/ \E x \in Values : SetItem(i, x)

Next ==
    \/ Operate
    \/ \E class \in {"deque_iterator", "deque_reverse_iterator"} : Iterate(class)
    \/ MoveNext

Spec == Init /\ [][Next]_vars
-----------------------------------------------------------------------------
Elements == Values \cup {Null}
Errors == {"IndexError", "ValueError", "IndexOutOfRange"}

\* The array has its length, and the ring is closed: counted from the head,
\* the items end at the tail.
TypeOK ==
    /\ length \in Nat /\ itemCnt \in 0 .. length
    /\ data \in [Slots -> Elements]
    /\ head \in Slots /\ tail \in Slots
    /\ maxLen \in MaxLens
    /\ iter \in [class : {"stale", "deque_iterator", "deque_reverse_iterator"},
                 cur : -1 .. length - 1, moved : 0 .. itemCnt]
    /\ tail = Slot(itemCnt)

\* The array of a bounded deque is never longer than maxlen, so that a deque
\* with maxlen items has no gap and the ends overwrite each other.
LengthIsBounded == maxLen # Unbounded => length <= maxLen

\* No slot between head and tail is empty.
Contents == [k \in 1 .. itemCnt |-> data[Slot(k - 1)]]
ItemsArePresent == \A k \in 1 .. itemCnt : Contents[k] # Null

\* An iterator that was not invalidated stands on the item it has to yield.
IteratorsAreExact ==
    iter.class # "stale" /\ iter.moved > 0 =>
        /\ iter.moved <= itemCnt
        /\ data[iter.cur] = Contents[IF iter.class = "deque_iterator" THEN iter.moved
                                     ELSE itemCnt + 1 - iter.moved]

\* The ring buffer is a bounded sequence.
Abstract == INSTANCE DequeSpec WITH items <- Contents, maxlen <- maxLen
ImplementsDeque == Abstract!Spec

\* Each operation is its own counterpart, not merely some operation: a removal
\* that closes the wrong gap is not excused by a deletion that would.
OperationsAreExact ==
    [][ /\ \A x \in Values :
              /\ AppendRight(x) => Abstract!AppendRight(x)
              /\ AppendLeft(x) => Abstract!AppendLeft(x)
              /\ RemoveItem(x) => Abstract!RemoveItem(x)
        /\ Pop => Abstract!Pop
        /\ PopLeft => Abstract!PopLeft
        /\ \A i \in Indices :
              /\ Rotate(i) => Abstract!Rotate(i)
              /\ GetItem(i) => Abstract!GetItem(i)
              /\ DelItem(i) => Abstract!DelItem(i)
              /\ \A x \in Values : SetItem(i, x) => Abstract!SetItem(i, x) ]_vars
=============================================================================
