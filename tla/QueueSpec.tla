----------------------------- MODULE QueueSpec -----------------------------
(***************************************************************************)
(* What a Queue promises its callers: put, get, task_done and join take    *)
(* effect at one moment each, between the call and the return, when there  *)
(* is room, an item or no unfinished task; a call that gives up does so at *)
(* a moment when there is none; and as long as some call can be finished,  *)
(* calls are finished.                                                     *)
(***************************************************************************)
EXTENDS Integers, SequencesExt

CONSTANTS Threads, Queues, Requests(_)

VARIABLES
    items,       \* the items, in the order in which get() will return them
    unfinished,
    call,        \* of each thread: Idle, the request in progress, or its answer
    queueKind    \* the order of the queue and its maxsize

vars == <<items, unfinished, call, queueKind>>

Idle == [op |-> "idle"]
Answer(a) == [op |-> "answer", answer |-> a]

Init ==
    /\ items = <<>> /\ unfinished = 0
    /\ call = [t \in Threads |-> Idle]
    /\ queueKind \in Queues

Bounded == queueKind.maxsize > 0
Full == Bounded /\ Len(items) = queueKind.maxsize

\* Where an item enters the order of service.
With(x) ==
    CASE queueKind.order = "fifo" -> Append(items, x)
      [] queueKind.order = "lifo" -> Cons(x, items)
      [] queueKind.order = "priority" ->
            LET smaller == Cardinality({i \in DOMAIN items : items[i] <= x})
            IN  InsertAt(items, smaller + 1, x)

Returns(t, a) == call' = [call EXCEPT ![t] = Answer(a)] /\ UNCHANGED queueKind

Call(t) ==
    /\ call[t] = Idle
    /\ \E r \in Requests(queueKind) : call' = [call EXCEPT ![t] = r]
    /\ UNCHANGED <<items, unfinished, queueKind>>

Put(t) ==
    /\ call[t].op = "put" /\ ~Full
    /\ ~(Bounded /\ call[t].mode = "negative")
    /\ items' = With(call[t].item) /\ unfinished' = unfinished + 1
    /\ Returns(t, "done")

Get(t) ==
    /\ call[t].op = "get" /\ items # <<>> /\ call[t].mode # "negative"
    /\ items' = Tail(items)
    /\ Returns(t, Head(items))
    /\ UNCHANGED unfinished

TaskDone(t) ==
    /\ call[t].op = "task_done" /\ unfinished > 0
    /\ unfinished' = unfinished - 1
    /\ Returns(t, "done")
    /\ UNCHANGED items

Join(t) ==
    /\ call[t].op = "join" /\ unfinished = 0
    /\ Returns(t, "done")
    /\ UNCHANGED <<items, unfinished>>

\* Only a call that is not to block, or not for ever, fails, and only when it has to.
Fail(t) ==
    /\ \E error \in {"Full", "Empty", "ValueError"} :
          /\ \/ error = "Full" /\ call[t].op = "put" /\ Full /\ call[t].mode \in {"now", "timed"}
             \/ error = "Empty" /\ call[t].op = "get" /\ items = <<>> /\ call[t].mode \in {"now", "timed"}
             \/ error = "ValueError" /\ call[t].op = "put" /\ Bounded /\ call[t].mode = "negative"
             \/ error = "ValueError" /\ call[t].op = "get" /\ call[t].mode = "negative"
             \/ error = "ValueError" /\ call[t].op = "task_done" /\ unfinished = 0
          /\ Returns(t, error)
    /\ UNCHANGED <<items, unfinished>>

Finish(t) == Put(t) \/ Get(t) \/ TaskDone(t) \/ Join(t) \/ Fail(t)

Return(t) ==
    /\ call[t].op = "answer"
    /\ call' = [call EXCEPT ![t] = Idle]
    /\ UNCHANGED <<items, unfinished, queueKind>>

Next == \E t \in Threads : Call(t) \/ Finish(t) \/ Return(t)

\* No lost wakeup: while some call can be finished, not all of them stay blocked.
Progress ==
    /\ WF_vars(\E t \in Threads : Finish(t))
    /\ \A t \in Threads : WF_vars(Return(t))

Spec == Init /\ [][Next]_vars /\ Progress
=============================================================================
