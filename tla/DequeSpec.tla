----------------------------- MODULE DequeSpec -----------------------------
(***************************************************************************)
(* What a deque promises: a sequence of items that is never longer than    *)
(* maxlen, because adding an item at one end of a full deque drops the     *)
(* item at the other end.                                                  *)
(***************************************************************************)
EXTENDS Integers, SequencesExt

CONSTANTS
    Values,
    MaxLens,        \* the values of maxlen in use; Unbounded is None
    Unbounded,
    Indices         \* the indices and the rotations tried

VARIABLES items, maxlen, result

vars == <<items, maxlen, result>>

Init == items = <<>> /\ maxlen \in MaxLens /\ result = "ok"

Full == Len(items) = maxlen

\* The position of index i, which may count from the right, or 0.
Position(i) ==
    CASE i \in 0 .. Len(items) - 1 -> i + 1
      [] i \in -Len(items) .. -1 -> Len(items) + i + 1
      [] OTHER -> 0

Becomes(s, r) == items' = s /\ result' = r /\ UNCHANGED maxlen
Fails(error) == Becomes(items, error)

Construct(n) == items' = <<>> /\ maxlen' = n /\ result' = "ok"

AppendRight(x) ==
    Becomes(IF maxlen = 0 THEN <<>> ELSE Append(IF Full THEN Tail(items) ELSE items, x), "ok")

AppendLeft(x) ==
    Becomes(IF maxlen = 0 THEN <<>> ELSE Cons(x, IF Full THEN Front(items) ELSE items), "ok")

Pop == IF items = <<>> THEN Fails("IndexError") ELSE Becomes(Front(items), Last(items))

PopLeft == IF items = <<>> THEN Fails("IndexError") ELSE Becomes(Tail(items), Head(items))

RemoveItem(x) == IF Contains(items, x) THEN Becomes(RemoveFirst(items, x), "ok") ELSE Fails("ValueError")

\* The item at position p moves to position p + n.
Rotate(n) ==
    LET length == Len(items)
    IN  Becomes([p \in 1 .. length |-> items[1 + ((p - 1 - n) % length)]], "ok")

GetItem(i) == IF Position(i) = 0 THEN Fails("IndexError") ELSE Becomes(items, items[Position(i)])

SetItem(i, x) ==
    IF Position(i) = 0 THEN Fails("IndexError") ELSE Becomes(ReplaceAt(items, Position(i), x), "ok")

DelItem(i) ==
    IF Position(i) = 0 THEN Fails("IndexError") ELSE Becomes(RemoveAt(items, Position(i)), "ok")

Next ==
    \/ \E n \in MaxLens : Construct(n)
    \/ \E x \in Values : AppendRight(x) \/ AppendLeft(x) \/ RemoveItem(x)
    \/ Pop \/ PopLeft
    \/ \E i \in Indices :
          \/ Rotate(i) \/ GetItem(i) \/ DelItem(i)
          \/ \E x \in Values : SetItem(i, x)

Spec == Init /\ [][Next]_vars
=============================================================================
