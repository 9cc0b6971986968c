\* Three threads call a bounded queue in every way, and a stack and a priority queue in some.
CONSTANTS
    Threads = {t1, t2, t3}
    Nobody = Nobody
    Locks = {"mutex"}
    Conds <- MCConds
    LockOf <- MCLockOf
    Requests <- MCRequests
    Queues <- MCQueues
    MaxUnfinished <- MCMaxUnfinished
SPECIFICATION Spec
INVARIANTS TypeOK NobodyForgotten
CHECK_DEADLOCK FALSE
PROPERTIES ImplementsQueue
