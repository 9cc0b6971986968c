----------------------------- MODULE ThreadLock -----------------------------
(***************************************************************************)
(* thread.lock (IronPython2.Modules/thread.cs): a lock word taken with a   *)
(* compare-and-swap and an AutoResetEvent that is only created once some   *)
(* thread has to wait.  Every interlocked operation and every read of      *)
(* blockEvent is a step of its own.                                        *)
(***************************************************************************)
CONSTANTS
    Callers,    \* the threads that use the lock
    NoThread

ASSUME NoThreadAssumption == NoThread \notin Callers

VARIABLES
    curHolder,   \* the lock word
    blockEvent,  \* "null", or the state of the AutoResetEvent
    step         \* where each thread is inside acquire or release

lockVars == <<curHolder, blockEvent, step>>

\* "cas", "look", "create", "wait": inside acquire(True);  "try": acquire(False)
\* "check", "set": inside release, after the exchange.
LockSteps == {"idle", "cas", "try", "look", "create", "wait", "check", "set"}
EventStates == {"null", "clear", "set"}

StepTo(t, l) == step' = [step EXCEPT ![t] = l]

LockInit ==
    /\ curHolder = NoThread
    /\ blockEvent = "null"
    /\ step = [t \in Callers |-> "idle"]
-----------------------------------------------------------------------------
CallAcquire(t) ==
    /\ step[t] = "idle"
    /\ \E l \in {"cas", "try"} : StepTo(t, l)
    /\ UNCHANGED <<curHolder, blockEvent>>

\* Variant: the lock word is written without comparing it first.
CompareExchangePlainWrite(t) ==
    /\ step[t] \in {"cas", "try"}
    /\ curHolder' = t
    /\ StepTo(t, "idle")
    /\ UNCHANGED blockEvent

\* The compare-and-swap: success returns True, failure returns False when
\* waitflag is false and otherwise goes on to look at blockEvent.
CompareExchange(t) ==
    /\ step[t] \in {"cas", "try"}
    /\ \/ /\ curHolder = NoThread
          /\ curHolder' = t
          /\ StepTo(t, "idle")
       \/ /\ curHolder # NoThread
          /\ StepTo(t, IF step[t] = "try" THEN "idle" ELSE "look")
          /\ UNCHANGED curHolder
    /\ UNCHANGED blockEvent

\* Variant: waits without looking whether there is an event.
LookAtEventUnchecked(t) ==
    /\ step[t] = "look"
    /\ StepTo(t, "wait")
    /\ UNCHANGED <<curHolder, blockEvent>>

LookAtEvent(t) ==
    /\ step[t] = "look"
    /\ StepTo(t, IF blockEvent = "null" THEN "create" ELSE "wait")
    /\ UNCHANGED <<curHolder, blockEvent>>

\* Variant: waits on the new event at once, without "try again in case".
CreateBlockEventThenWait(t) ==
    /\ step[t] = "create"
    /\ blockEvent' = IF blockEvent = "null" THEN "clear" ELSE blockEvent
    /\ StepTo(t, "wait")
    /\ UNCHANGED curHolder

\* Installs an unsignalled event unless another thread did, then tries again.
CreateBlockEvent(t) ==
    /\ step[t] = "create"
    /\ blockEvent' = IF blockEvent = "null" THEN "clear" ELSE blockEvent
    /\ StepTo(t, "cas")
    /\ UNCHANGED curHolder

\* An AutoResetEvent lets one waiter through and is clear again.
WaitOne(t) ==
    /\ step[t] = "wait"
    /\ blockEvent = "set"
    /\ blockEvent' = "clear"
    /\ StepTo(t, "cas")
    /\ UNCHANGED curHolder

\* Any thread may release; on a lock that is not held the exchange reads
\* null and the call raises threaderror without touching the event.
Release(t) ==
    /\ step[t] = "idle"
    /\ curHolder' = NoThread
    /\ StepTo(t, IF curHolder = NoThread THEN "idle" ELSE "check")
    /\ UNCHANGED blockEvent

CheckEvent(t) ==
    /\ step[t] = "check"
    /\ StepTo(t, IF blockEvent = "null" THEN "idle" ELSE "set")
    /\ UNCHANGED <<curHolder, blockEvent>>

SetEvent(t) ==
    /\ step[t] = "set"
    /\ blockEvent' = "set"
    /\ StepTo(t, "idle")
    /\ UNCHANGED curHolder
-----------------------------------------------------------------------------
\* The steps of a call that has begun; only WaitOne can block.
Continue(t) ==
    \/ CompareExchange(t) \/ LookAtEvent(t) \/ CreateBlockEvent(t) \/ WaitOne(t)
    \/ CheckEvent(t) \/ SetEvent(t)

LockNext == \E t \in Callers : CallAcquire(t) \/ Release(t) \/ Continue(t)

\* The scheduler runs every thread that can run; nobody has to call anything.
LockFairness == \A t \in Callers : WF_lockVars(Continue(t))

ThreadLockSpec == LockInit /\ [][LockNext]_lockVars /\ LockFairness
-----------------------------------------------------------------------------
\* The variables of thread.lock hold what their declarations allow, and
\* blockEvent.WaitOne() never meets a null event.
LockTypeOK ==
    /\ curHolder \in Callers \cup {NoThread}
    /\ blockEvent \in EventStates
    /\ step \in [Callers -> LockSteps]
    /\ \A t \in Callers : step[t] = "wait" => blockEvent # "null"

\* No wakeup is lost (the race the comment in release() speaks of): while the
\* lock is free and its event clear, a thread that waits, or is about to,
\* still has a thread that will signal it or compete for the lock.
NoLostWakeup ==
    (/\ curHolder = NoThread
     /\ blockEvent = "clear"
     /\ \E t \in Callers : step[t] \in {"look", "wait"})
        => \E u \in Callers : step[u] \in {"check", "set", "cas", "create"}

\* The acquires a caller sees as blocked.
Blocked == {t \in Callers : step[t] \in {"cas", "look", "create", "wait"}}

\* acquire and release implement the lock a Python program relies on,
\* including that a lock which stays free goes to somebody who wants it.
AbstractLock == INSTANCE LockSpec WITH Threads <- Callers, holder <- curHolder, wanting <- Blocked
ImplementsLock == AbstractLock!Spec
=============================================================================
