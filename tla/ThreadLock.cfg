\* Three threads: one releasing, two waiting, in every order.
CONSTANTS
    Callers = {t1, t2, t3}
    NoThread = NoThread
SPECIFICATION ThreadLockSpec
INVARIANTS LockTypeOK NoLostWakeup
PROPERTIES ImplementsLock
\* A program may really stop: everybody in acquire and nobody left to release.
CHECK_DEADLOCK FALSE
