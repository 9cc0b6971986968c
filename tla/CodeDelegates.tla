---------------------------- MODULE CodeDelegates ----------------------------
(***************************************************************************)
(* The delegates of function codes (FunctionCode.cs) and the settings that *)
(* choose them (PythonContext.cs): sys.settrace and sys.setrecursionlimit  *)
(* update every registered code, calls compile a code's delegate lazily,   *)
(* and compilations that run in the background store their result later.   *)
(*                                                                         *)
(* A delegate is abstracted to the mode it was compiled for and whether it *)
(* counts the depth of recursion; the stub is the delegate that compiles   *)
(* its code on the first call.  CodeRegistry shows that an update reaches  *)
(* every code; here it visits all of them, in any order.                   *)
(***************************************************************************)
EXTENDS Integers, FiniteSets

CONSTANTS
    Threads,
    Functions,              \* codes of functions that are only ever called
    Others,                 \* modules, bodies of classes, and functions that exec runs too
    Adaptive,               \* the codes that start interpreted (ShouldInterpret)
    Limits,                 \* the recursion limits set: "unlimited", "limited"
    MaxUncounted,           \* bound: how far the count of listeners may get below 0
    Nobody

Codes == Functions \cup Others

ASSUME CodesAssumption == Functions \cap Others = {}
ASSUME ThreadsAssumption == IsFiniteSet(Threads) /\ Nobody \notin Threads
ASSUME BoundAssumption == MaxUncounted \in Nat
ASSUME SettingsAssumption ==
    /\ Adaptive \subseteq Codes
    /\ Limits \subseteq {"unlimited", "limited"} /\ Limits # {}

VARIABLES
    option,         \* PythonOptions.Tracing: -X:Tracing was given
    kind,           \* what each code is the body of
    updateLock,     \* holder of _codeUpdateLock
    createLock,     \* holder of _CodeCreateAndUpdateDelegateLock
    listener,       \* threads with a traceback listener (_tracebackListeners)
    listeners,      \* _tracebackListenersCount
    recursionLimit, \* _recursionLimit
    target,         \* FunctionCode.Target
    lightTarget,    \* FunctionCode.LightThrowTarget
    traceable,      \* the codes with a lambda for tracing (_tracingLambda)
    compiled,       \* the modes whose delegate exists (_normalDelegate, _tracingDelegate)
    queued,         \* the bodies of classes the pool has yet to compile
    adapting,       \* interpreted delegates that may yet report a compilation
    compilingLight, \* _compilingLight
    thread          \* what each thread is doing

locks == <<updateLock, createLock>>
environment == <<option, kind>>
settings == <<environment, listener, listeners, recursionLimit>>
targets == <<target, lightTarget>>
delegates == <<targets, traceable, compiled, queued, adapting, compilingLight>>
vars == <<locks, settings, delegates, thread>>
-----------------------------------------------------------------------------
Modes == {"normal", "tracing"}
Kinds == {"function", "module", "class"}
Stub == [mode |-> "stub", checked |-> FALSE]
NoTarget == [mode |-> "none", checked |-> FALSE]        \* Target is null
Idle == [pc |-> "idle", code |-> Nobody, mode |-> "normal", todo |-> {}, was |-> FALSE]

TracingEnabled(count) == option \/ count > 0
EnableTracing == TracingEnabled(listeners)
Mode == IF EnableTracing THEN "tracing" ELSE "normal"

\* AddRecursionCheck: for the bodies of functions.
AddRecursionCheck(c, mode) ==
    [mode |-> mode, checked |-> recursionLimit # "unlimited" /\ kind[c] = "function"]

\* Target = LightThrowTarget = d
SetTarget(c, d) ==
    /\ target' = [target EXCEPT ![c] = d]
    /\ lightTarget' = [lightTarget EXCEPT ![c] = d]

Goto(t, pc) == thread' = [thread EXCEPT ![t].pc = pc]
Finish(t) == thread' = [thread EXCEPT ![t] = Idle]

\* CompileLambda: an interpreted delegate will report when it was compiled.
CompileLambda(c, mode) ==
    /\ compiled' = [compiled EXCEPT ![c] = @ \cup {mode}]
    /\ adapting' = IF c \in Adaptive /\ mode \notin compiled[c]
                   THEN [adapting EXCEPT ![c] = @ \cup {mode}] ELSE adapting

\* A function starts with the stub, the body of a class with nothing, a module
\* with the delegate it was made for.
InitialDelegate(c, mode) ==
    CASE kind[c] = "function" -> Stub
      [] kind[c] = "class" -> NoTarget
      [] kind[c] = "module" -> [mode |-> mode, checked |-> FALSE]

Init ==
    /\ option \in BOOLEAN
    /\ kind \in {k \in [Codes -> Kinds] : \A c \in Functions : k[c] = "function"}
    /\ updateLock = Nobody
    /\ createLock = Nobody
    /\ listener = {}
    /\ listeners = 0
    /\ recursionLimit \in Limits
    /\ \E mode \in IF option THEN Modes ELSE {"normal"} :
          /\ target = [c \in Codes |-> InitialDelegate(c, mode)]
          /\ compiled = [c \in Codes |-> IF kind[c] = "module" THEN {mode} ELSE {}]
    /\ lightTarget = target
    /\ traceable = {}
    /\ queued = {c \in Codes : kind[c] = "class"}
    /\ adapting = [c \in Codes |-> {}]
    /\ compilingLight = {}
    /\ thread = [t \in Threads |-> Idle]
-----------------------------------------------------------------------------
(* SetTrace.                                                                 *)

\* The listener of the thread changes before any lock is taken.
BeginSetTrace(t, on) ==
    /\ thread[t].pc = "idle"
    /\ thread' = [thread EXCEPT ![t] = [Idle EXCEPT !.pc = "count", !.was = t \in listener]]
    /\ listener' = IF on THEN listener \cup {t} ELSE listener \ {t}
    /\ UNCHANGED <<locks, environment, listeners, recursionLimit, delegates>>

\* Variant: every call counts, whether or not the thread had a listener.
CountEveryCall(t) ==
    /\ thread[t].pc = "count"
    /\ updateLock = Nobody
    /\ listeners' = IF t \in listener THEN listeners + 1 ELSE listeners - 1
    /\ IF TracingEnabled(listeners') # EnableTracing
       THEN updateLock' = t /\ Goto(t, "enumerate")
       ELSE UNCHANGED updateLock /\ Finish(t)
    /\ UNCHANGED <<createLock, environment, listener, recursionLimit, delegates>>

\* The first and the last listener switch the mode of every code.
CountListener(t) ==
    /\ thread[t].pc = "count"
    /\ updateLock = Nobody
    /\ listeners' = CASE t \in listener /\ ~thread[t].was -> listeners + 1
                      [] t \notin listener /\ thread[t].was -> listeners - 1
                      [] OTHER -> listeners
    /\ IF TracingEnabled(listeners') # EnableTracing
       THEN updateLock' = t /\ Goto(t, "enumerate")
       ELSE UNCHANGED updateLock /\ Finish(t)
    /\ UNCHANGED <<createLock, environment, listener, recursionLimit, delegates>>

\* With -X:Tracing the first traced line a thread runs installs a listener of
\* its own, which nothing counts.
OnTraceEvent(t) ==
    /\ thread[t].pc = "idle"
    /\ option
    /\ t \notin listener
    /\ \E c \in Codes : "tracing" \in compiled[c]
    /\ -listeners < MaxUncounted
    /\ listener' = listener \cup {t}
    /\ UNCHANGED <<locks, environment, listeners, recursionLimit, delegates, thread>>

\* Variant: the codes are enumerated without the registry's lock.
EnumerateUnlocked(t) ==
    /\ thread[t].pc = "enumerate"
    /\ thread' = [thread EXCEPT ![t].pc = "update", ![t].todo = Codes]
    /\ UNCHANGED <<locks, settings, delegates>>

BeginUpdateAllCode(t) ==
    /\ thread[t].pc = "enumerate"
    /\ createLock = Nobody
    /\ createLock' = t
    /\ thread' = [thread EXCEPT ![t].pc = "update", ![t].todo = Codes]
    /\ UNCHANGED <<updateLock, settings, delegates>>

\* UpdateDelegate without forcing creates no lambda: the code gets the delegate
\* of the mode, ...
ReuseDelegate(c) ==
    /\ IF EnableTracing THEN c \in traceable ELSE "normal" \in compiled[c]
    /\ CompileLambda(c, Mode)
    /\ SetTarget(c, AddRecursionCheck(c, Mode))

\* ... the stub that functions start with, ...
FallBackToStub(c) ==
    /\ IF EnableTracing THEN c \notin traceable /\ kind[c] # "class"
                        ELSE "normal" \notin compiled[c]
    /\ SetTarget(c, Stub)
    /\ UNCHANGED <<compiled, adapting>>

\* ... or, when the body of a class is to be traced, what it had.
KeepClass(c) ==
    /\ EnableTracing /\ c \notin traceable /\ kind[c] = "class"
    /\ UNCHANGED <<targets, compiled, adapting>>

\* Variant: the enumeration starts over after each code.
UpdateCodeStartsOver(t) ==
    /\ thread[t].pc = "update"
    /\ \E c \in thread[t].todo :
          /\ ReuseDelegate(c) \/ FallBackToStub(c) \/ KeepClass(c)
          /\ thread' = [thread EXCEPT ![t].todo = Codes \ {c}]
    /\ UNCHANGED <<locks, settings, traceable, queued, compilingLight>>

UpdateCode(t) ==
    /\ thread[t].pc = "update"
    /\ \E c \in thread[t].todo :
          /\ ReuseDelegate(c) \/ FallBackToStub(c) \/ KeepClass(c)
          /\ thread' = [thread EXCEPT ![t].todo = @ \ {c}]
    /\ UNCHANGED <<locks, settings, traceable, queued, compilingLight>>

EndUpdateAllCode(t) ==
    /\ thread[t].pc = "update"
    /\ thread[t].todo = {}
    /\ createLock' = Nobody
    /\ updateLock' = Nobody
    /\ Finish(t)
    /\ UNCHANGED <<settings, delegates>>

\* RecursionLimit: the test for a change comes after the assignment and never
\* holds, so no code is updated.  Bound: a limit that was set is not lifted.
SetRecursionLimit(t, limit) ==
    /\ thread[t].pc = "idle"
    /\ recursionLimit = "unlimited"
    /\ updateLock = Nobody
    /\ recursionLimit' = limit
    /\ UNCHANGED <<locks, environment, listener, listeners, delegates, thread>>
-----------------------------------------------------------------------------
(* UpdateDelegate with a forced creation: LazyCompileFirstTarget holds the   *)
(* lock around it; Call, MakeClass and the pool do not.                      *)

\* The stub has been called: another call may compile the code before this one
\* gets the lock, and this one then compiles it again.
CallStub(t, c) ==
    /\ thread[t].pc = "idle"
    /\ kind[c] = "function"
    /\ target[c] = Stub
    /\ thread' = [thread EXCEPT ![t] = [Idle EXCEPT !.pc = "lazy", !.code = c]]
    /\ UNCHANGED <<locks, settings, delegates>>

\* Variant: the stub compiles its code without the lock.
LazyCompileUnlocked(t) ==
    /\ thread[t].pc = "lazy"
    /\ Goto(t, "mode")
    /\ UNCHANGED <<locks, settings, delegates>>

LazyCompileFirstTarget(t) ==
    /\ thread[t].pc = "lazy"
    /\ createLock = Nobody
    /\ createLock' = t
    /\ Goto(t, "mode")
    /\ UNCHANGED <<updateLock, settings, delegates>>

\* A code that exec runs, or the body of a class that MakeClass is to run, is
\* compiled when it has the functions' stub or nothing.
Call(t, c) ==
    /\ thread[t].pc = "idle"
    /\ c \in Others
    /\ target[c] \in {Stub, NoTarget}
    /\ thread' = [thread EXCEPT ![t] = [Idle EXCEPT !.pc = "mode", !.code = c]]
    /\ UNCHANGED <<locks, settings, delegates>>

\* The pool compiles the body of a class ahead of its first run.
CompileClass(t, c) ==
    /\ thread[t].pc = "idle"
    /\ c \in queued
    /\ queued' = queued \ {c}
    /\ thread' = [thread EXCEPT ![t] = [Idle EXCEPT !.pc = "mode", !.code = c]]
    /\ UNCHANGED <<locks, settings, targets, traceable, compiled, adapting, compilingLight>>

ReadMode(t) ==
    /\ thread[t].pc = "mode"
    /\ thread' = [thread EXCEPT ![t].pc = "compile", ![t].mode = Mode]
    /\ UNCHANGED <<locks, settings, delegates>>

\* Tracing needs a transformed lambda, which is kept.
TransformLambda(t) ==
    /\ thread[t].pc = "compile"
    /\ thread[t].mode = "tracing"
    /\ thread[t].code \notin traceable
    /\ traceable' = traceable \cup {thread[t].code}
    /\ UNCHANGED <<locks, settings, targets, compiled, queued, adapting, compilingLight, thread>>

CompileDelegate(t) ==
    /\ thread[t].pc = "compile"
    /\ thread[t].mode = "tracing" => thread[t].code \in traceable
    /\ CompileLambda(thread[t].code, thread[t].mode)
    /\ Goto(t, "store")
    /\ UNCHANGED <<locks, settings, targets, traceable, queued, compilingLight>>

StoreDelegate(t) ==
    /\ thread[t].pc = "store"
    /\ SetTarget(thread[t].code, AddRecursionCheck(thread[t].code, thread[t].mode))
    /\ createLock' = IF createLock = t THEN Nobody ELSE createLock
    /\ Finish(t)
    /\ UNCHANGED <<updateLock, settings, traceable, compiled, queued, adapting, compilingLight>>

\* TargetUpdaterForCompilation: the compiler's thread stores what it compiled
\* (SetCompiledTarget, SetCompiledTargetTracing).
SetCompiledTarget(t, c, mode) ==
    /\ thread[t].pc = "idle"
    /\ mode \in adapting[c]
    /\ adapting' = [adapting EXCEPT ![c] = @ \ {mode}]
    /\ SetTarget(c, AddRecursionCheck(c, mode))
    /\ UNCHANGED <<locks, settings, traceable, compiled, queued, compilingLight, thread>>
-----------------------------------------------------------------------------
(* LightThrowCompile: a function that threw often gets a target for light    *)
(* exceptions, compiled on a pool thread.                                    *)

BeginLightThrowCompile(t, c) ==
    /\ thread[t].pc = "idle"
    /\ kind[c] = "function"
    /\ compiled[c] # {}
    /\ c \notin compilingLight
    /\ target[c] = lightTarget[c]
    /\ compilingLight' = compilingLight \cup {c}
    /\ thread' = [thread EXCEPT ![t] = [Idle EXCEPT !.pc = "lightMode", !.code = c]]
    /\ UNCHANGED <<locks, settings, targets, traceable, compiled, queued, adapting>>

ReadLightMode(t) ==
    /\ thread[t].pc = "lightMode"
    /\ updateLock = Nobody
    /\ thread' = [thread EXCEPT ![t].pc = "light", ![t].mode = Mode]
    /\ UNCHANGED <<locks, settings, delegates>>

\* Variant: the result is stored whatever the mode is by now.
StoreLightAnyway(t) ==
    /\ thread[t].pc = "light"
    /\ updateLock = Nobody
    /\ lightTarget' = [lightTarget EXCEPT ![thread[t].code] =
           [mode |-> thread[t].mode, checked |-> FALSE]]
    /\ Finish(t)
    /\ UNCHANGED <<locks, settings, target, traceable, compiled, queued, adapting, compilingLight>>

\* The result is dropped if the mode has changed.
StoreLightThrowTarget(t) ==
    /\ thread[t].pc = "light"
    /\ updateLock = Nobody
    /\ lightTarget' = IF Mode # thread[t].mode THEN lightTarget
                      ELSE [lightTarget EXCEPT ![thread[t].code] =
                                [mode |-> Mode, checked |-> FALSE]]
    /\ Finish(t)
    /\ UNCHANGED <<locks, settings, target, traceable, compiled, queued, adapting, compilingLight>>
-----------------------------------------------------------------------------
Start(t) ==
    \/ \E on \in BOOLEAN : BeginSetTrace(t, on)
    \/ OnTraceEvent(t)
    \/ \E limit \in Limits : SetRecursionLimit(t, limit)
    \/ \E c \in Codes :
          \/ CallStub(t, c) \/ Call(t, c) \/ CompileClass(t, c) \/ BeginLightThrowCompile(t, c)
          \/ \E mode \in Modes : SetCompiledTarget(t, c, mode)

Continue(t) ==
    \/ CountListener(t) \/ BeginUpdateAllCode(t) \/ UpdateCode(t) \/ EndUpdateAllCode(t)
    \/ LazyCompileFirstTarget(t) \/ ReadMode(t) \/ TransformLambda(t) \/ CompileDelegate(t)
    \/ StoreDelegate(t)
    \/ ReadLightMode(t) \/ StoreLightThrowTarget(t)

Next == \E t \in Threads : Start(t) \/ Continue(t)

\* An operation that has begun runs on; nobody has to start one.
Fairness == \A t \in Threads : WF_vars(Continue(t))

Spec == Init /\ [][Next]_vars /\ Fairness
-----------------------------------------------------------------------------
Delegates == [mode : Modes \cup {"stub", "none"}, checked : BOOLEAN]
Steps == {"idle", "count", "enumerate", "update", "lazy", "mode", "compile", "store", "lightMode", "light"}

\* The fields keep their types and a thread that updates all codes holds both
\* locks, the update lock first.
TypeOK ==
    /\ option \in BOOLEAN
    /\ kind \in [Codes -> Kinds] /\ \A c \in Functions : kind[c] = "function"
    /\ updateLock \in Threads \cup {Nobody} /\ createLock \in Threads \cup {Nobody}
    /\ listener \subseteq Threads /\ listeners \in Int
    /\ recursionLimit \in Limits
    /\ target \in [Codes -> Delegates] /\ lightTarget \in [Codes -> Delegates]
    /\ compiled \in [Codes -> SUBSET Modes] /\ adapting \in [Codes -> SUBSET Modes]
    /\ traceable \subseteq Codes /\ queued \subseteq Codes /\ compilingLight \subseteq Codes
    /\ thread \in [Threads -> [pc : Steps, code : Codes \cup {Nobody}, mode : Modes,
                               todo : SUBSET Codes, was : BOOLEAN]]
    /\ \A t \in Threads :
          /\ thread[t].pc \in {"enumerate", "update"} => updateLock = t
          /\ thread[t].pc = "update" => createLock = t

Settled == updateLock = Nobody /\ createLock = Nobody

\* _tracebackListenersCount is the number of threads with a listener, but for
\* the calls of settrace that have not counted yet.  With -X:Tracing a thread may
\* get a listener that was never counted, and settrace(None) still takes it off
\* the count: the count may then be too small, even negative, never too great.
ListenersAreCounted ==
    LET late == {t \in Threads : thread[t].pc = "count" /\ t \in listener /\ ~thread[t].was}
        early == {t \in Threads : thread[t].pc = "count" /\ t \notin listener /\ thread[t].was}
        counted == listeners + Cardinality(late)
        expected == Cardinality(listener) + Cardinality(early)
    IN  counted <= expected /\ (~option => counted = expected)

\* The codes whose delegates are only computed under the lock: Call, MakeClass,
\* the pool and the adaptive compiler store those of the others without it.
Guarded == Functions \ Adaptive

\* Once nothing is being updated, a guarded code runs in the mode that settrace
\* chose or compiles itself for it on its next call: "we don't race against
\* sys.settrace/sys.setprofile".
TargetsMatchMode ==
    Settled => \A c \in Guarded : target[c].mode \in {"stub", Mode}

\* The same of the targets for light exceptions, which are compiled without
\* the lock: a compilation for a mode that is over must not be stored.
LightTargetsMatchMode ==
    Settled => \A c \in Guarded : lightTarget[c].mode \in {"stub", Mode}

\* A change of the mode gets both locks and releases them: the locks are taken
\* in one order, and a compilation does not hold one while it waits.
UpdatesFinish == updateLock # Nobody ~> updateLock = Nobody
=============================================================================
