------------------------------ MODULE LockSpec ------------------------------
(***************************************************************************)
(* What a caller of thread.lock may rely on: at most one holder, a blocked *)
(* acquire that is eventually granted to somebody whenever the lock is     *)
(* free, and a release that any thread may make (a Python lock is not      *)
(* owned: it is a binary semaphore).                                       *)
(***************************************************************************)
CONSTANTS Threads, NoThread

VARIABLES
    holder,   \* the thread whose acquire succeeded last, or NoThread
    wanting   \* the threads inside a blocking acquire

vars == <<holder, wanting>>

Init == holder = NoThread /\ wanting = {}

Want(t) ==
    /\ t \notin wanting
    /\ wanting' = wanting \cup {t}
    /\ UNCHANGED holder

Grant(t) ==
    /\ holder = NoThread
    /\ t \in wanting
    /\ holder' = t
    /\ wanting' = wanting \ {t}

\* acquire(False) on a free lock
TryGrant(t) ==
    /\ holder = NoThread
    /\ t \notin wanting
    /\ holder' = t
    /\ UNCHANGED wanting

Release ==
    /\ holder # NoThread
    /\ holder' = NoThread
    /\ UNCHANGED wanting

Next ==
    \/ \E t \in Threads : Want(t) \/ Grant(t) \/ TryGrant(t)
    \/ Release

\* The promise to blocked callers: a lock that stays free is granted.
Granting == WF_vars(\E t \in Threads : Grant(t))

Spec == Init /\ [][Next]_vars /\ Granting
=============================================================================
