\* Two threads trace, call and compile a function, and a module, a class or a
\* function that exec runs, in every order, with and without -X:Tracing.
CONSTANTS
    t1 = t1  t2 = t2  f1 = f1  m1 = m1
    Threads = {t1, t2}
    Functions = {f1}
    Others = {m1}
    Adaptive = {m1}
    Limits = {"unlimited", "limited"}
    MaxUncounted = 1
    Nobody = Nobody
SPECIFICATION Spec
INVARIANTS TypeOK TargetsMatchMode LightTargetsMatchMode ListenersAreCounted
PROPERTIES UpdatesFinish
