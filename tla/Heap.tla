-------------------------------- MODULE Heap --------------------------------
(***************************************************************************)
(* The heap that _heapq.cs keeps in a list (the PriorityQueue of Queue.py  *)
(* is built on it). Positions count from 1, so the parent of i is i \div 2 *)
(* and its children are 2 * i and 2 * i + 1.                               *)
(***************************************************************************)
EXTENDS Integers, SequencesExt

Swap(h, i, j) == [h EXCEPT ![i] = h[j], ![j] = h[i]]

\* The item at i rises while it is less than its parent.
SiftUp(heap, index) ==
    LET rise[h \in Seq(Int), i \in Nat] ==
            IF i > 1 /\ h[i] < h[i \div 2] THEN rise[Swap(h, i \div 2, i), i \div 2] ELSE h
    IN  rise[heap, index]

\* The item at i sinks while a child is less; it changes places with the smaller one.
SiftDown(heap, start) ==
    LET smaller(h, i) == IF 2 * i + 1 <= Len(h) /\ h[2 * i + 1] < h[2 * i] THEN 2 * i + 1 ELSE 2 * i
        sink[h \in Seq(Int), i \in Nat] ==
            IF 2 * i <= Len(h) /\ h[smaller(h, i)] < h[i]
            THEN sink[Swap(h, i, smaller(h, i)), smaller(h, i)]
            ELSE h
    IN  sink[heap, start]

HeapPush(h, x) == SiftUp(Append(h, x), Len(h) + 1)

\* What is left after heappop, which returns the root h[1].
HeapPop(h) == IF Len(h) = 1 THEN <<>> ELSE SiftDown(Front(Swap(h, 1, Len(h))), 1)
=============================================================================
