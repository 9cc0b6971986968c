\* The same threads: the main thread does not wait for one that was started after it listed them.
CONSTANTS
    Threads = {main, t1, t2}
    Main = main
    Daemons <- MCDaemons
    MaxCalls <- MCMaxCalls
    t1 = t1  t2 = t2
    Nobody = Nobody
    Conds <- MCConds
    Locks <- MCLocks
    LockOf <- MCLockOf
SPECIFICATION Spec
INVARIANTS ExitWaitsForAll
CHECK_DEADLOCK FALSE
