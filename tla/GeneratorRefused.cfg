\* A value and an exception in the fields of one generator.
CONSTANTS
    g = g  k = k  Generators = {g, k}  CanSetSysExcInfo = {g}
    v = v  w = w  Sent = {v, w}
    e = e  Thrown = {e}
    None = None
SYMMETRY Symmetry
SPECIFICATION Spec
PROPERTIES NotSentAndThrown
