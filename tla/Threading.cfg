\* The main thread and two others, of which one may be daemonic, start and join each other and end.
CONSTANTS
    Threads = {main, t1, t2}
    Main = main
    Daemons <- MCDaemons
    MaxCalls <- MCMaxCalls
    t1 = t1  t2 = t2
    Nobody = Nobody
    Conds <- MCConds
    Locks <- MCLocks
    LockOf <- MCLockOf
SPECIFICATION Spec
INVARIANTS TypeOK AliveAreListed ExitJoinsTheLiving
PROPERTIES AllEnd
CHECK_DEADLOCK FALSE
