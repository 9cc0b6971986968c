\* Two generators, one of them without an except clause, and two values to send.
CONSTANTS
    g = g  k = k  Generators = {g, k}  CanSetSysExcInfo = {g}
    v = v  w = w  Sent = {v, w}
    e = e  Thrown = {e}
    None = None
SYMMETRY Symmetry
SPECIFICATION Spec
INVARIANTS TypeOK BodiesRunAlone
PROPERTIES DeliveryIsExact  CloseClosesIt
