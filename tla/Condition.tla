----------------------------- MODULE Condition -----------------------------
(***************************************************************************)
(* The condition variables of threading.py, over locks that behave as      *)
(* LockSpec says.  A call of wait() allocates a lock of its own, the       *)
(* waiter, and blocks on it; the thread stands for its waiter, because it  *)
(* has one at a time.  A notify() releases the waiters it has read from    *)
(* the list one by one, while a waiter that times out takes itself off the *)
(* list without holding the condition's lock.                              *)
(***************************************************************************)
EXTENDS Naturals, SequencesExt

CONSTANTS
    Threads,
    Nobody,
    Locks,
    Conds,
    LockOf      \* the lock of each condition

ASSUME ConditionAssumption ==
    /\ Nobody \notin Threads
    /\ LockOf \in [Conds -> Locks]

VARIABLES
    holder,     \* of each lock, the thread that holds it, or Nobody
    waiters,    \* __waiters, of each condition
    woken,      \* the threads whose waiter was released and not acquired since
    waiting,    \* the wait() each thread is inside
    expired,    \* the threads whose last wait() ended with its timeout
    todo,       \* the waiters a notify() has read and not dealt with yet
    released    \* of those, the first, once its lock was released

conditionVars == <<holder, waiters, woken, waiting, expired, todo, released>>
waitVars == <<waiters, woken, waiting, expired>>
notifyVars == <<todo, released>>

\* "waiter": blocked on the waiter;  "remove": timed out and about to leave the
\* list;  "restore": about to acquire the condition's lock again.
NotWaiting == [at |-> "none", cond |-> Nobody, timed |-> FALSE]
Waits == {NotWaiting} \cup [at : {"waiter", "remove", "restore"}, cond : Conds, timed : BOOLEAN]

IsWaiting(t) == waiting[t].at # "none"
Holds(t, l) == holder[l] = t

\* What a thread does next by itself, unless it waits for a lock.
Runs(t, l) == Holds(t, l) /\ ~IsWaiting(t)

ConditionInit ==
    /\ holder = [l \in Locks |-> Nobody]
    /\ waiters = [c \in Conds |-> <<>>]
    /\ woken = {}
    /\ waiting = [t \in Threads |-> NotWaiting]
    /\ expired = {}
    /\ todo = [c \in Conds |-> <<>>]
    /\ released = [c \in Conds |-> Nobody]

\* The types of the variables. A thread is on the list of no condition but the one it
\* waits for, once, and leaves it before wait() returns.
ConditionTypeOK ==
    /\ holder \in [Locks -> Threads \cup {Nobody}]
    /\ woken \subseteq Threads /\ expired \subseteq Threads
    /\ waiting \in [Threads -> Waits]
    /\ \A c \in Conds :
          /\ IsInjective(waiters[c]) /\ IsInjective(todo[c])
          /\ \A t \in ToSet(waiters[c]) : waiting[t].cond = c /\ (waiting[t].at = "restore" => released[c] = t)
          /\ ToSet(todo[c]) \subseteq Threads
          /\ released[c] \in {Nobody} \cup ToSet(todo[c])
-----------------------------------------------------------------------------
\* Locks: an acquire that is granted, and a release.
Lock(t, l) == holder[l] = Nobody /\ holder' = [holder EXCEPT ![l] = t]
Unlock(l) == holder' = [holder EXCEPT ![l] = Nobody]
-----------------------------------------------------------------------------
\* A new waiter, acquired at once, enters the list; then the lock is released.
\* (In between only threads that time out touch the list, which commutes.)
Wait(t, c, timed) ==
    /\ waiters' = [waiters EXCEPT ![c] = Append(@, t)]
    /\ waiting' = [waiting EXCEPT ![t] = [at |-> "waiter", cond |-> c, timed |-> timed]]
    /\ Unlock(LockOf[c])
    /\ UNCHANGED <<woken, expired, notifyVars>>

\* The acquire of the waiter succeeds, in the blocking form or in the polling loop.
WakeUp(t) ==
    /\ waiting[t].at = "waiter"
    /\ t \in woken
    /\ woken' = woken \ {t}
    /\ waiting' = [waiting EXCEPT ![t].at = "restore"]
    /\ UNCHANGED <<holder, waiters, expired, notifyVars>>

\* The last attempt of the polling loop fails and the time is over.
TimeOut(t) ==
    /\ waiting[t].at = "waiter" /\ waiting[t].timed
    /\ t \notin woken
    /\ waiting' = [waiting EXCEPT ![t].at = "remove"]
    /\ expired' = expired \cup {t}
    /\ UNCHANGED <<holder, waiters, woken, notifyVars>>

\* Variant: a waiter that timed out stays on the list.
RemoveWaiterForgotten(t) ==
    /\ waiting[t].at = "remove"
    /\ waiting' = [waiting EXCEPT ![t].at = "restore"]
    /\ UNCHANGED <<holder, waiters, woken, expired, notifyVars>>

\* Takes the waiter off the list, without the lock; a notify may have done so
\* already, which is no error.
RemoveWaiter(t) ==
    /\ waiting[t].at = "remove"
    /\ waiters' = [waiters EXCEPT ![waiting[t].cond] = RemoveFirst(@, t)]
    /\ waiting' = [waiting EXCEPT ![t].at = "restore"]
    /\ UNCHANGED <<holder, woken, expired, notifyVars>>

\* _acquire_restore: wait() returns. Its waiter is garbage from here on, even if
\* a notify has released it after it timed out.
Restore(t) ==
    /\ waiting[t].at = "restore"
    /\ Lock(t, LockOf[waiting[t].cond])
    /\ waiting' = [waiting EXCEPT ![t] = NotWaiting]
    /\ woken' = woken \ {t}
    /\ UNCHANGED <<waiters, expired, notifyVars>>
-----------------------------------------------------------------------------
\* The slice: the first n waiters.
StartNotify(c, n) ==
    /\ todo' = [todo EXCEPT ![c] = SubSeq(waiters[c], 1, IF n < Len(waiters[c]) THEN n ELSE Len(waiters[c]))]
    /\ UNCHANGED released

\* notifyAll passes the length of the list, which it reads first.
StartNotifyAll(c) == StartNotify(c, Len(waiters[c]))

ReleaseWaiter(c) ==
    /\ todo[c] # <<>> /\ released[c] = Nobody
    /\ released' = [released EXCEPT ![c] = Head(todo[c])]
    /\ woken' = woken \cup {Head(todo[c])}
    /\ UNCHANGED <<holder, waiters, waiting, expired, todo>>

\* A waiter that timed out meanwhile may have removed itself, which is no error.
RemoveNotified(c) ==
    /\ released[c] # Nobody
    /\ waiters' = [waiters EXCEPT ![c] = RemoveFirst(@, released[c])]
    /\ todo' = [todo EXCEPT ![c] = Tail(@)]
    /\ released' = [released EXCEPT ![c] = Nobody]
    /\ UNCHANGED <<holder, woken, waiting, expired>>

\* Every notify() at conditions of lock l has returned.
Notified(l) == \A c \in Conds : LockOf[c] = l => todo[c] = <<>>

\* What threads do inside wait() and notify() by themselves.
WaitStep(t) == WakeUp(t) \/ TimeOut(t) \/ RemoveWaiter(t)
NotifyStep(c) == ReleaseWaiter(c) \/ RemoveNotified(c)
=============================================================================
