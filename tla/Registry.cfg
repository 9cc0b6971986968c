\* Two threads register, enumerate and clean up three codes in every order.
CONSTANTS
    t1 = t1  t2 = t2  c1 = c1  c2 = c2  c3 = c3
    Threads = {t1, t2}
    Codes = {c1, c2, c3}
    Nobody = Nobody  NoNode = NoNode  Marker = Marker
    FirstCleanup = 1  Postponement = 1
    MaxNextCleanup = 3
SPECIFICATION Spec
INVARIANTS TypeOK NoLiveCodeLost CountIsExact EnumerationIsComplete AssertionsHold
PROPERTIES LockIsReleased
