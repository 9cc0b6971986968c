------------------------------- MODULE Queue -------------------------------
(***************************************************************************)
(* Queue.py: a list of items behind one mutex, with three conditions that  *)
(* share it. The condition variables are the module Condition's, the heap  *)
(* of a PriorityQueue is Heap's. A call that waits rechecks, under the     *)
(* mutex, what it waits for.                                               *)
(***************************************************************************)
EXTENDS Condition, Heap, FiniteSets

CONSTANTS
    Queues,             \* the queues checked: [order, maxsize]
    Requests(_),        \* the calls made to a queue: [op, item, mode]
    MaxUnfinished(_)    \* bounds the puts that are not followed by task_done

ASSUME QueueAssumption ==
    /\ Conds = {"not_empty", "not_full", "all_tasks_done"}
    /\ Locks = {"mutex"}
    /\ LockOf = [c \in Conds |-> "mutex"]
    /\ \A q \in Queues : q.order \in {"fifo", "lifo", "priority"} /\ q.maxsize \in Nat

VARIABLES
    queue,          \* the deque or list of the items
    unfinishedTasks,
    call,           \* of each thread: Idle, the request in progress, or its answer
    pc,
    queueKind       \* the class of the queue and its maxsize

queueVars == <<queue, unfinishedTasks, call, pc, queueKind>>
vars == <<conditionVars, queueVars>>

Idle == [op |-> "idle"]
Answer(a) == [op |-> "answer", answer |-> a]

\* "acquire": before the mutex;  "check": inside the try block, before or after a wait;
\* "exit": the finally clause.
Goto(t, l) == pc' = [pc EXCEPT ![t] = l]

Init ==
    /\ ConditionInit
    /\ queue = <<>> /\ unfinishedTasks = 0
    /\ call = [t \in Threads |-> Idle]
    /\ pc = [t \in Threads |-> "idle"]
    /\ queueKind \in Queues
-----------------------------------------------------------------------------
\* _put and _get of the three classes.
Stored(x) == IF queueKind.order = "priority" THEN HeapPush(queue, x) ELSE Append(queue, x)
Next1 == IF queueKind.order = "lifo" THEN Last(queue) ELSE Head(queue)
Rest ==
    CASE queueKind.order = "fifo" -> Tail(queue)
      [] queueKind.order = "lifo" -> Front(queue)
      [] queueKind.order = "priority" -> HeapPop(queue)

Bounded == queueKind.maxsize > 0
Full == Bounded /\ Len(queue) = queueKind.maxsize
-----------------------------------------------------------------------------
Call(t) ==
    /\ pc[t] = "idle"
    /\ \E r \in Requests(queueKind) :
          /\ r.op = "put" =>
                unfinishedTasks + Cardinality({u \in Threads : call[u].op = "put"}) < MaxUnfinished(queueKind)
          /\ call' = [call EXCEPT ![t] = r]
    /\ Goto(t, "acquire")
    /\ UNCHANGED <<conditionVars, queue, unfinishedTasks, queueKind>>

Acquire(t) ==
    /\ pc[t] = "acquire"
    /\ Lock(t, "mutex")
    /\ Goto(t, "check")
    /\ UNCHANGED <<waitVars, notifyVars, queue, unfinishedTasks, call, queueKind>>

\* The call leaves its try block, with a result or an exception.
Leave(t, a) ==
    /\ call' = [call EXCEPT ![t] = Answer(a)]
    /\ Goto(t, "exit")
    /\ UNCHANGED <<holder, waitVars, queueKind>>

Raise(t, error) == Leave(t, error) /\ UNCHANGED <<notifyVars, queue, unfinishedTasks>>

\* The body of a while loop whose condition holds: give up, or wait at c and try again.
\* The deadline may be over at any time and is over once a wait has timed out.
BlockOn(t, c, error) ==
    \/ call[t].mode \in {"now", "timed"} /\ Raise(t, error)
    \/ /\ \/ call[t].mode = "forever"
          \/ call[t].mode = "timed" /\ t \notin expired
       /\ Wait(t, c, call[t].mode = "timed")
       /\ UNCHANGED queueVars

At(t, op) == pc[t] = "check" /\ Runs(t, "mutex") /\ call[t].op = op

Put(t) ==
    /\ At(t, "put")
    /\ \/ Bounded /\ call[t].mode = "negative" /\ Raise(t, "ValueError")
       \/ Full /\ call[t].mode # "negative" /\ BlockOn(t, "not_full", "Full")
       \/ /\ ~Full /\ ~(Bounded /\ call[t].mode = "negative")
          /\ queue' = Stored(call[t].item)
          /\ unfinishedTasks' = unfinishedTasks + 1
          /\ StartNotify("not_empty", 1)
          /\ Leave(t, "done")

\* Variant: looks at the deadline before it looks at the queue again.
GetDeadlineFirst(t) ==
    /\ At(t, "get")
    /\ \/ call[t].mode = "negative" /\ Raise(t, "ValueError")
       \/ t \in expired /\ Raise(t, "Empty")
       \/ queue = <<>> /\ call[t].mode # "negative" /\ BlockOn(t, "not_empty", "Empty")
       \/ /\ queue # <<>> /\ call[t].mode # "negative" /\ t \notin expired
          /\ queue' = Rest
          /\ StartNotify("not_full", 1)
          /\ Leave(t, Next1)
          /\ UNCHANGED unfinishedTasks

Get(t) ==
    /\ At(t, "get")
    /\ \/ call[t].mode = "negative" /\ Raise(t, "ValueError")
       \/ queue = <<>> /\ call[t].mode # "negative" /\ BlockOn(t, "not_empty", "Empty")
       \/ /\ queue # <<>> /\ call[t].mode # "negative"
          /\ queue' = Rest
          /\ StartNotify("not_full", 1)
          /\ Leave(t, Next1)
          /\ UNCHANGED unfinishedTasks

\* Variant: notifies one joiner only.
TaskDoneNotifiesOne(t) ==
    /\ At(t, "task_done")
    /\ \/ unfinishedTasks = 0 /\ Raise(t, "ValueError")
       \/ /\ unfinishedTasks > 0
          /\ unfinishedTasks' = unfinishedTasks - 1
          /\ IF unfinishedTasks = 1 THEN StartNotify("all_tasks_done", 1) ELSE UNCHANGED notifyVars
          /\ Leave(t, "done")
          /\ UNCHANGED queue

\* The joiners are notified before the counter is assigned; nobody reads it in between.
TaskDone(t) ==
    /\ At(t, "task_done")
    /\ \/ unfinishedTasks = 0 /\ Raise(t, "ValueError")
       \/ /\ unfinishedTasks > 0
          /\ unfinishedTasks' = unfinishedTasks - 1
          /\ IF unfinishedTasks = 1 THEN StartNotifyAll("all_tasks_done") ELSE UNCHANGED notifyVars
          /\ Leave(t, "done")
          /\ UNCHANGED queue

Join(t) ==
    /\ At(t, "join")
    /\ \/ unfinishedTasks > 0 /\ Wait(t, "all_tasks_done", FALSE) /\ UNCHANGED queueVars
       \/ unfinishedTasks = 0 /\ Raise(t, "done")

\* The finally clause, after the notify() has returned; the caller has its answer.
Exit(t) ==
    /\ pc[t] = "exit"
    /\ Notified("mutex")
    /\ Unlock("mutex")
    /\ call' = [call EXCEPT ![t] = Idle]
    /\ Goto(t, "idle")
    /\ expired' = expired \ {t}
    /\ UNCHANGED <<waiters, woken, waiting, notifyVars, queue, unfinishedTasks, queueKind>>
-----------------------------------------------------------------------------
Try(t) == Put(t) \/ Get(t) \/ TaskDone(t) \/ Join(t)
ByItself(t) == WaitStep(t) /\ UNCHANGED queueVars
Waking == \E c \in Conds : NotifyStep(c) /\ UNCHANGED queueVars
Locking(t) == Acquire(t) \/ (Restore(t) /\ UNCHANGED queueVars)

Next ==
    \/ \E t \in Threads : Call(t) \/ Locking(t) \/ Try(t) \/ Exit(t) \/ ByItself(t)
    \/ Waking

\* Threads go on unless they wait; of those that wait for the mutex, one is granted it
\* (LockSpec promises no more).
Fairness ==
    /\ \A t \in Threads : WF_vars(Try(t) \/ Exit(t)) /\ WF_vars(ByItself(t))
    /\ WF_vars(\E t \in Threads : Locking(t))
    /\ WF_vars(Waking)

Spec == Init /\ [][Next]_vars /\ Fairness
-----------------------------------------------------------------------------
\* The types of the variables.  A thread inside its try block holds the mutex unless it
\* waits, and nobody else does; a notify() is over before its thread lets go of the mutex.
TypeOK ==
    /\ ConditionTypeOK
    /\ queueKind \in Queues /\ unfinishedTasks \in Nat
    /\ pc \in [Threads -> {"idle", "acquire", "check", "exit"}]
    /\ \A t \in Threads : Holds(t, "mutex") <=> pc[t] \in {"check", "exit"} /\ ~IsWaiting(t)
    /\ ~Notified("mutex") => \E t \in Threads : Holds(t, "mutex") /\ pc[t] = "exit"

\* The threads that wait at condition c and have not been notified, and those on their
\* way from a wait there to look at the queue again, or before it already.
Parked(c) == {t \in Threads : waiting[t].cond = c /\ waiting[t].at = "waiter" /\ t \notin woken \cup ToSet(todo[c])}
OnTheWay(c, op) ==
    {t \in Threads : waiting[t].cond = c /\ t \notin Parked(c)}
        \cup {t \in Threads : At(t, op)}

\* No lost wakeup, in numbers: while a getter sleeps, every item in the queue has a getter
\* on its way to it, while a putter sleeps, every free slot has a putter on its way, and
\* nobody sleeps in join() unless tasks are unfinished, whatever is notified, taken by a
\* thread that did not wait, or given up meanwhile.
NobodyForgotten ==
    /\ Parked("not_empty") # {} => Len(queue) <= Cardinality(OnTheWay("not_empty", "get"))
    /\ Parked("not_full") # {} => queueKind.maxsize - Len(queue) <= Cardinality(OnTheWay("not_full", "put"))
    /\ Parked("all_tasks_done") # {} => unfinishedTasks > 0

\* The items in the order in which they will be returned.
Order ==
    CASE queueKind.order = "fifo" -> queue
      [] queueKind.order = "lifo" -> Reverse(queue)
      [] queueKind.order = "priority" -> SortSeq(queue, <)

Abstract == INSTANCE QueueSpec WITH
    items <- Order, unfinished <- unfinishedTasks

\* Every call takes effect at one moment, in the order of service of its class, fails only
\* when it must, and as long as some call can be finished calls are finished, although
\* threads come and go between a notify() and the return of the wait() it ends.
ImplementsQueue == Abstract!Spec
=============================================================================
