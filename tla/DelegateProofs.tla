--------------------------- MODULE DelegateProofs ---------------------------
(***************************************************************************)
(* The delegates of function codes, for any number of threads and codes:   *)
(* whenever no update is under way, the functions that compile under the   *)
(* lock run in the mode that sys.settrace chose.                           *)
(***************************************************************************)
EXTENDS CodeDelegates, FiniteSetTheorems, TLAPS

(* The inductive invariant.                                                  *)

Compiling(t) == thread[t].pc \in {"mode", "compile", "store"} /\ thread[t].code \in Functions

\* Whoever updates all codes holds both locks, and a function is compiled under
\* the second of them.
LocksHeld ==
    /\ updateLock # Nobody => thread[updateLock].pc \in {"enumerate", "update"}
    /\ \A t \in Threads : Compiling(t) => createLock = t

\* Threads work on codes, and the pool on bodies of classes.
CodesPlaced ==
    /\ \A t \in Threads :
          thread[t].pc \in {"lazy", "mode", "compile", "store", "lightMode", "light"}
              => thread[t].code \in Codes
    /\ \A c \in queued : kind[c] = "class"

\* Only adaptive codes are compiled again later.
NothingElseAdapts == \A c \in Codes \ Adaptive : adapting[c] = {}

Fits(c) ==
    /\ target[c].mode \in {"stub", Mode}
    /\ lightTarget[c].mode \in {"stub", Mode}

\* The targets fit the mode while nobody changes it, and so do the delegates
\* that are being compiled; an update has made those fit that it has visited.
ModeIsFollowed ==
    /\ updateLock = Nobody =>
          /\ \A c \in Guarded : Fits(c)
          /\ \A t \in Threads :
                Compiling(t) /\ thread[t].pc # "mode" => thread[t].mode = Mode
    /\ \A t \in Threads :
          thread[t].pc = "update" => \A c \in Guarded \ thread[t].todo : Fits(c)

\* The threads that _tracebackListenersCount counts, unless -X:Tracing gave them
\* a listener that it does not.
Counted == {t \in Threads : IF thread[t].pc = "count" THEN thread[t].was ELSE t \in listener}

CountIsCounted ==
    /\ listeners <= Cardinality(Counted)
    /\ ~option => listeners = Cardinality(Counted)

IInv == TypeOK /\ LocksHeld /\ CodesPlaced /\ NothingElseAdapts /\ ModeIsFollowed /\ CountIsCounted
-----------------------------------------------------------------------------
\* What a thread may be doing.
Tasks == [pc : Steps, code : Codes \cup {Nobody}, mode : Modes, todo : SUBSET Codes, was : BOOLEAN]

\* What no call of settrace does leaves the threads that are counted.
LEMMA CountedKeeps ==
    ASSUME CountIsCounted, UNCHANGED <<option, listener, listeners>>,
           \A s \in Threads : thread'[s].pc = "count" <=> thread[s].pc = "count",
           \A s \in Threads : thread[s].pc = "count" => thread'[s].was = thread[s].was
    PROVE  CountIsCounted'
<1>1. Counted' = Counted
  BY DEF Counted
<1> QED
  BY <1>1 DEF CountIsCounted

\* A thread that reads the mode has a task still.
LEMMA TaskReadsMode ==
    ASSUME NEW f \in [Threads -> Tasks], NEW t \in Threads, NEW p \in {"compile", "light"}
    PROVE  [f EXCEPT ![t].pc = p, ![t].mode = Mode] \in [Threads -> Tasks]
<1>1. Mode \in Modes
  BY DEF Mode, Modes
<1>2. [f EXCEPT ![t].pc = p] \in [Threads -> Tasks]
  BY DEF Tasks, Steps
<1> QED
  BY <1>1, <1>2 DEF Tasks

\* A thread that starts to update all codes has one too.
LEMMA TaskUpdates ==
    ASSUME NEW f \in [Threads -> Tasks], NEW t \in Threads
    PROVE  [f EXCEPT ![t].pc = "update", ![t].todo = Codes] \in [Threads -> Tasks]
<1>1. [f EXCEPT ![t].pc = "update"] \in [Threads -> Tasks]
  BY DEF Tasks, Steps
<1> QED
  BY <1>1 DEF Tasks

\* A target that is set is a delegate.
LEMMA TargetIsSet ==
    ASSUME target \in [Codes -> Delegates], lightTarget \in [Codes -> Delegates],
           NEW c \in Codes, NEW d \in Delegates, SetTarget(c, d)
    PROVE  target' \in [Codes -> Delegates] /\ lightTarget' \in [Codes -> Delegates]
  BY DEF SetTarget

\* So is a delegate with or without the check of the recursion's depth.
LEMMA CheckedDelegate ==
    ASSUME NEW c, NEW mode \in Modes PROVE AddRecursionCheck(c, mode) \in Delegates
  BY DEF AddRecursionCheck, Delegates

-----------------------------------------------------------------------------
(* Each action keeps the invariant.                                          *)

\* The listener changes, but the thread is counted as before.
LEMMA BeginSetTraceKeeps ==
    ASSUME IInv, NEW t \in Threads, NEW on \in BOOLEAN, BeginSetTrace(t, on)
    PROVE  IInv'
<1>1. TypeOK'
  <2>1. [Idle EXCEPT !.pc = "count", !.was = t \in listener] \in Tasks
    <3>1. (t \in listener) \in BOOLEAN
      OBVIOUS
    <3> QED
      BY <3>1 DEF Idle, Tasks, Steps, Modes
  <2>2. thread' \in [Threads -> Tasks]
    BY <2>1 DEF IInv, TypeOK, Tasks, BeginSetTrace, environment, targets
  <2> QED
    BY <2>2 DEF IInv, TypeOK, Tasks, BeginSetTrace, locks, delegates, targets, Idle,
       environment
<1>2. LocksHeld'
  BY ThreadsAssumption, CodesAssumption DEF IInv, TypeOK, LocksHeld, CodesPlaced,
     Compiling, BeginSetTrace, locks, delegates, targets, Idle, environment
<1>3. CodesPlaced'
  BY DEF IInv, TypeOK, CodesPlaced, BeginSetTrace, locks, delegates, targets, Idle,
     Codes, environment
<1>4. NothingElseAdapts'
  BY DEF IInv, TypeOK, NothingElseAdapts, BeginSetTrace, locks, delegates, targets,
     Idle, environment
<1>5. ModeIsFollowed'
  BY ThreadsAssumption DEF IInv, TypeOK, LocksHeld, CodesPlaced, ModeIsFollowed,
     Compiling, Fits, Mode, EnableTracing, TracingEnabled, Guarded, Codes, BeginSetTrace,
     locks, delegates, targets, Idle, environment
<1>6. CountIsCounted'
  <2>1. Counted' = Counted
    BY DEF IInv, TypeOK, Counted, BeginSetTrace, Idle, environment, targets
  <2> QED
    BY <2>1 DEF IInv, CountIsCounted, BeginSetTrace, environment, targets
<1> QED
  BY <1>1, <1>2, <1>3, <1>4, <1>5, <1>6 DEF IInv

\* The count follows the listener; the mode changes only under the update lock.
LEMMA CountListenerKeeps ==
    ASSUME IInv, NEW t \in Threads, CountListener(t)
    PROVE  IInv'
<1>6. CountIsCounted'
  <2> DEFINE n == Cardinality(Counted)
  <2>1. IsFiniteSet(Counted) /\ n \in Nat /\ listeners \in Int /\ option' = option
    BY ThreadsAssumption, FS_Subset, FS_CardinalityType DEF IInv, TypeOK, Counted,
       CountListener, environment
  <2>2. listeners <= n /\ (~option => listeners = n)
    BY DEF IInv, CountIsCounted
  <2>3. CASE t \in listener /\ ~thread[t].was
    <3>1. Counted' = Counted \cup {t} /\ t \notin Counted
      BY <2>3 DEF IInv, TypeOK, Counted, CountListener, Goto, Finish, Idle
    <3>2. listeners' = listeners + 1
      BY <2>3 DEF CountListener
    <3>3. Cardinality(Counted') = n + 1
      BY <2>1, <3>1, FS_AddElement
    <3> QED
      BY <2>1, <2>2, <3>2, <3>3 DEF CountIsCounted
  <2>4. CASE t \notin listener /\ thread[t].was
    <3>1. Counted' = Counted \ {t} /\ t \in Counted
      BY <2>4 DEF IInv, TypeOK, Counted, CountListener, Goto, Finish, Idle
    <3>2. listeners' = listeners - 1
      BY <2>4 DEF CountListener
    <3>3. Cardinality(Counted') = n - 1
      BY <2>1, <3>1, FS_RemoveElement
    <3> QED
      BY <2>1, <2>2, <3>2, <3>3 DEF CountIsCounted
  <2>5. CASE t \in listener <=> thread[t].was
    <3>1. Counted' = Counted
      <4>1. \A u \in Threads : u # t => thread'[u] = thread[u]
        BY DEF IInv, TypeOK, CountListener, Goto, Finish
      <4>2. thread[t].pc = "count" /\ thread'[t].pc # "count" /\ listener' = listener
        BY DEF IInv, TypeOK, CountListener, Goto, Finish, Idle
      <4> QED
        BY <2>5, <4>1, <4>2 DEF Counted
    <3>2. listeners' = listeners
      BY <2>5 DEF CountListener
    <3> QED
      BY <2>1, <2>2, <3>1, <3>2 DEF CountIsCounted
  <2> QED
    BY <2>3, <2>4, <2>5 DEF IInv, TypeOK
<1>1. TypeOK'
  <2>1. listeners' \in Int
    BY DEF IInv, TypeOK, CountListener
  <2>2. \/ updateLock' = t /\ Goto(t, "enumerate")
        \/ updateLock' = updateLock /\ Finish(t)
    BY DEF CountListener, environment, TracingEnabled, EnableTracing
  <2>3. thread' \in [Threads -> Tasks]
    <3>1. thread \in [Threads -> Tasks] /\ Idle \in Tasks /\ "enumerate" \in Steps
      BY DEF IInv, TypeOK, Tasks, Steps, Modes, Idle
    <3>2. [thread EXCEPT ![t].pc = "enumerate"] \in [Threads -> Tasks]
      BY <3>1 DEF Tasks
    <3>3. [thread EXCEPT ![t] = Idle] \in [Threads -> Tasks]
      BY <3>1
    <3> QED
      BY <2>2, <3>2, <3>3 DEF Goto, Finish
  <2>4. \A s \in Threads : thread'[s].pc \in {"enumerate", "update"} =>
            \/ thread'[s] = thread[s] /\ thread[s].pc \notin {"enumerate", "update"}
            \/ s = t /\ updateLock' = t /\ thread'[s].pc = "enumerate"
    BY <2>2, ThreadsAssumption DEF IInv, TypeOK, CountListener, Goto, Finish, Idle,
       environment, TracingEnabled, EnableTracing
  <2>5. updateLock' \in Threads \cup {Nobody}
    BY <2>2 DEF IInv, TypeOK
  <2> QED
    BY <2>1, <2>3, <2>4, <2>5 DEF IInv, TypeOK, Tasks, CountListener, delegates,
       targets, environment, TracingEnabled, EnableTracing
<1>2. LocksHeld'
  BY ThreadsAssumption, CodesAssumption DEF IInv, TypeOK, LocksHeld, CodesPlaced,
     Compiling, CountListener, delegates, targets, Goto, Finish, Idle, environment,
     TracingEnabled, EnableTracing
<1>3. CodesPlaced'
  BY DEF IInv, TypeOK, CodesPlaced, CountListener, delegates, targets, Goto, Finish,
     Idle, Codes, environment, TracingEnabled, EnableTracing
<1>4. NothingElseAdapts'
  BY DEF IInv, TypeOK, NothingElseAdapts, CountListener, delegates, targets, Goto,
     Finish, Idle, environment, TracingEnabled, EnableTracing
<1>5. ModeIsFollowed'
  BY ThreadsAssumption DEF IInv, TypeOK, LocksHeld, CodesPlaced, ModeIsFollowed,
     Compiling, Fits, Mode, EnableTracing, TracingEnabled, Guarded, Codes, CountListener,
     delegates, targets, Goto, Finish, Idle, environment
<1> QED
  BY <1>1, <1>2, <1>3, <1>4, <1>5, <1>6 DEF IInv

\* A listener that is not counted makes the count too small, never too great.
LEMMA OnTraceEventKeeps ==
    ASSUME IInv, NEW t \in Threads, OnTraceEvent(t)
    PROVE  IInv'
<1>1. TypeOK'
  BY DEF IInv, TypeOK, OnTraceEvent, locks, environment, delegates, targets
<1>2. LocksHeld'
  BY DEF IInv, LocksHeld, Compiling, OnTraceEvent, locks
<1>3. CodesPlaced'
  BY DEF IInv, CodesPlaced, OnTraceEvent, environment, delegates
<1>4. NothingElseAdapts'
  BY DEF IInv, NothingElseAdapts, OnTraceEvent, delegates
<1>5. ModeIsFollowed'
  BY DEF IInv, ModeIsFollowed, Compiling, Fits, Mode, EnableTracing, TracingEnabled,
     OnTraceEvent, locks, environment, delegates, targets
<1>6. CountIsCounted'
  <2>1. Counted' = Counted \cup {t} /\ t \notin Counted
    BY DEF IInv, TypeOK, Counted, OnTraceEvent
  <2>2. IsFiniteSet(Counted) /\ Cardinality(Counted) \in Nat
    BY ThreadsAssumption, FS_Subset, FS_CardinalityType DEF Counted
  <2>3. Cardinality(Counted') = Cardinality(Counted) + 1
    BY <2>1, <2>2, FS_AddElement
  <2>4. option' /\ listeners' = listeners /\ listeners \in Int
    BY DEF IInv, TypeOK, OnTraceEvent, environment
  <2>5. listeners <= Cardinality(Counted)
    BY DEF IInv, CountIsCounted
  <2> QED
    BY <2>2, <2>3, <2>4, <2>5 DEF CountIsCounted
<1> QED
  BY <1>1, <1>2, <1>3, <1>4, <1>5, <1>6 DEF IInv

\* Nothing is visited yet, and no function is compiled under the lock it takes.
LEMMA BeginUpdateAllCodeKeeps ==
    ASSUME IInv, NEW t \in Threads, BeginUpdateAllCode(t)
    PROVE  IInv'
<1>1. TypeOK'
  <2>1. thread' \in [Threads -> Tasks]
    BY TaskUpdates DEF IInv, TypeOK, Tasks, BeginUpdateAllCode
  <2> QED
    BY ThreadsAssumption, <2>1 DEF IInv, TypeOK, Tasks, BeginUpdateAllCode, settings,
       environment, delegates, targets
<1>2. LocksHeld'
  BY ThreadsAssumption, CodesAssumption DEF IInv, TypeOK, LocksHeld, CodesPlaced,
     Compiling, BeginUpdateAllCode, settings, environment, delegates, targets
<1>3. CodesPlaced'
  BY DEF IInv, TypeOK, CodesPlaced, BeginUpdateAllCode, settings, environment,
     delegates, targets, Codes
<1>4. NothingElseAdapts'
  BY DEF IInv, TypeOK, NothingElseAdapts, BeginUpdateAllCode, settings, environment,
     delegates, targets
<1>5. ModeIsFollowed'
  BY ThreadsAssumption DEF IInv, TypeOK, LocksHeld, CodesPlaced, ModeIsFollowed,
     Compiling, Fits, Mode, EnableTracing, TracingEnabled, Guarded, Codes,
     BeginUpdateAllCode, settings, environment, delegates, targets
<1>6. CountIsCounted'
  BY CountedKeeps DEF IInv, TypeOK, BeginUpdateAllCode, settings, environment,
     delegates, targets
<1> QED
  BY <1>1, <1>2, <1>3, <1>4, <1>5, <1>6 DEF IInv

\* What is visited fits the mode, which cannot change meanwhile.
LEMMA UpdateCodeKeeps ==
    ASSUME IInv, NEW t \in Threads, UpdateCode(t)
    PROVE  IInv'
<1> PICK c \in thread[t].todo :
        /\ ReuseDelegate(c) \/ FallBackToStub(c) \/ KeepClass(c)
        /\ thread' = [thread EXCEPT ![t].todo = @ \ {c}]
  BY DEF UpdateCode
<1>1. TypeOK'
  <2>1. c \in Codes /\ Mode \in Modes
    BY DEF IInv, TypeOK, Mode, Modes
  <2>2. Stub \in Delegates /\ AddRecursionCheck(c, Mode) \in Delegates
    BY <2>1, CheckedDelegate DEF Stub, Delegates
  <2>3. target' \in [Codes -> Delegates] /\ lightTarget' \in [Codes -> Delegates]
    <3>1. CASE UNCHANGED targets
      BY <3>1 DEF IInv, TypeOK, targets
    <3>2. CASE SetTarget(c, Stub) \/ SetTarget(c, AddRecursionCheck(c, Mode))
      BY <2>1, <2>2, <3>2, TargetIsSet DEF IInv, TypeOK
    <3> QED
      BY <3>1, <3>2 DEF ReuseDelegate, FallBackToStub, KeepClass
  <2>4. compiled' \in [Codes -> SUBSET Modes] /\ adapting' \in [Codes -> SUBSET Modes]
    <3>1. CASE UNCHANGED <<compiled, adapting>>
      BY <3>1 DEF IInv, TypeOK
    <3>2. CASE CompileLambda(c, Mode)
      BY <2>1, <3>2 DEF IInv, TypeOK, CompileLambda
    <3> QED
      BY <3>1, <3>2 DEF ReuseDelegate, FallBackToStub, KeepClass
  <2>5. thread' \in [Threads -> Tasks]
    BY DEF IInv, TypeOK, Tasks
  <2>6. \A u \in Threads : thread'[u].pc = thread[u].pc
    BY DEF IInv, TypeOK
  <2> QED
    BY <2>3, <2>4, <2>5, <2>6 DEF IInv, TypeOK, Tasks, UpdateCode, locks, settings,
       environment
<1>2. LocksHeld'
  BY ThreadsAssumption, CodesAssumption DEF IInv, TypeOK, LocksHeld, CodesPlaced,
     Compiling, UpdateCode, locks, settings, environment, SetTarget, AddRecursionCheck,
     Stub, ReuseDelegate, FallBackToStub, KeepClass, CompileLambda, targets
<1>3. CodesPlaced'
  BY DEF IInv, TypeOK, CodesPlaced, UpdateCode, locks, settings, environment, SetTarget,
     AddRecursionCheck, Stub, Codes, ReuseDelegate, FallBackToStub, KeepClass,
     CompileLambda, targets
<1>4. NothingElseAdapts'
  BY DEF IInv, TypeOK, NothingElseAdapts, UpdateCode, locks, settings, environment,
     SetTarget, AddRecursionCheck, Stub, ReuseDelegate, FallBackToStub, KeepClass,
     CompileLambda, targets
<1>5. ModeIsFollowed'
  BY ThreadsAssumption DEF IInv, TypeOK, LocksHeld, CodesPlaced, ModeIsFollowed,
     Compiling, Fits, Mode, EnableTracing, TracingEnabled, Guarded, Codes, UpdateCode,
     locks, settings, environment, SetTarget, AddRecursionCheck, Stub, ReuseDelegate,
     FallBackToStub, KeepClass, CompileLambda, targets
<1>6. CountIsCounted'
  BY CountedKeeps DEF IInv, TypeOK, UpdateCode, locks, settings, environment, SetTarget,
     AddRecursionCheck, Stub, ReuseDelegate, FallBackToStub, KeepClass, CompileLambda,
     targets
<1> QED
  BY <1>1, <1>2, <1>3, <1>4, <1>5, <1>6 DEF IInv

\* Everything was visited, and nothing was compiled meanwhile.
LEMMA EndUpdateAllCodeKeeps ==
    ASSUME IInv, NEW t \in Threads, EndUpdateAllCode(t)
    PROVE  IInv'
<1>1. TypeOK'
  <2>1. thread' \in [Threads -> Tasks]
    BY ThreadsAssumption DEF IInv, TypeOK, CodesPlaced, Tasks, Steps, Codes,
       EndUpdateAllCode, settings, environment, delegates, targets, Finish, Idle, Mode,
       Modes
  <2> QED
    BY ThreadsAssumption, <2>1 DEF IInv, TypeOK, Tasks, EndUpdateAllCode, settings,
       environment, delegates, targets, Finish, Idle, Delegates, Modes, Mode, Codes
<1>2. LocksHeld'
  BY ThreadsAssumption, CodesAssumption DEF IInv, TypeOK, LocksHeld, CodesPlaced,
     Compiling, EndUpdateAllCode, settings, environment, delegates, targets, Finish, Idle
<1>3. CodesPlaced'
  BY DEF IInv, TypeOK, CodesPlaced, EndUpdateAllCode, settings, environment, delegates,
     targets, Finish, Idle, Codes
<1>4. NothingElseAdapts'
  BY DEF IInv, TypeOK, NothingElseAdapts, EndUpdateAllCode, settings, environment,
     delegates, targets, Finish, Idle
<1>5. ModeIsFollowed'
  BY ThreadsAssumption DEF IInv, TypeOK, LocksHeld, CodesPlaced, ModeIsFollowed,
     Compiling, Fits, Mode, EnableTracing, TracingEnabled, Guarded, Codes,
     EndUpdateAllCode, settings, environment, delegates, targets, Finish, Idle
<1>6. CountIsCounted'
  BY CountedKeeps DEF IInv, TypeOK, EndUpdateAllCode, settings, environment, delegates,
     targets, Finish, Idle
<1> QED
  BY <1>1, <1>2, <1>3, <1>4, <1>5, <1>6 DEF IInv

\* The limit concerns neither the mode nor a lock.
LEMMA SetRecursionLimitKeeps ==
    ASSUME IInv, NEW t \in Threads, NEW limit \in Limits, SetRecursionLimit(t, limit)
    PROVE  IInv'
<1>1. TypeOK'
  <2>1. thread' \in [Threads -> Tasks]
    BY ThreadsAssumption DEF IInv, TypeOK, CodesPlaced, Tasks, Steps, Codes,
       SetRecursionLimit, locks, delegates, targets, Mode, Modes, environment
  <2> QED
    BY ThreadsAssumption, <2>1 DEF IInv, TypeOK, Tasks, SetRecursionLimit, locks,
       delegates, targets, Delegates, Modes, Mode, Codes, environment
<1>2. LocksHeld'
  BY ThreadsAssumption, CodesAssumption DEF IInv, TypeOK, LocksHeld, CodesPlaced,
     Compiling, SetRecursionLimit, locks, delegates, targets, environment
<1>3. CodesPlaced'
  BY DEF IInv, TypeOK, CodesPlaced, SetRecursionLimit, locks, delegates, targets, Codes,
     environment
<1>4. NothingElseAdapts'
  BY DEF IInv, TypeOK, NothingElseAdapts, SetRecursionLimit, locks, delegates, targets,
     environment
<1>5. ModeIsFollowed'
  BY ThreadsAssumption DEF IInv, TypeOK, LocksHeld, CodesPlaced, ModeIsFollowed,
     Compiling, Fits, Mode, EnableTracing, TracingEnabled, Guarded, Codes,
     SetRecursionLimit, locks, delegates, targets, environment
<1>6. CountIsCounted'
  BY CountedKeeps DEF IInv, TypeOK, SetRecursionLimit, locks, delegates, targets,
     environment
<1> QED
  BY <1>1, <1>2, <1>3, <1>4, <1>5, <1>6 DEF IInv

\* The call waits for the lock.
LEMMA CallStubKeeps ==
    ASSUME IInv, NEW t \in Threads, NEW c \in Codes, CallStub(t, c)
    PROVE  IInv'
<1>1. TypeOK'
  <2>1. thread' \in [Threads -> Tasks]
    BY ThreadsAssumption DEF IInv, TypeOK, CodesPlaced, Tasks, Steps, Codes, CallStub,
       locks, settings, environment, delegates, targets, Idle, Mode, Modes
  <2> QED
    BY ThreadsAssumption, <2>1 DEF IInv, TypeOK, Tasks, CallStub, locks, settings,
       environment, delegates, targets, Idle, Delegates, Modes, Mode, Codes
<1>2. LocksHeld'
  BY ThreadsAssumption, CodesAssumption DEF IInv, TypeOK, LocksHeld, CodesPlaced,
     Compiling, CallStub, locks, settings, environment, delegates, targets, Idle
<1>3. CodesPlaced'
  BY DEF IInv, TypeOK, CodesPlaced, CallStub, locks, settings, environment, delegates,
     targets, Idle, Codes
<1>4. NothingElseAdapts'
  BY DEF IInv, TypeOK, NothingElseAdapts, CallStub, locks, settings, environment,
     delegates, targets, Idle
<1>5. ModeIsFollowed'
  BY ThreadsAssumption DEF IInv, TypeOK, LocksHeld, CodesPlaced, ModeIsFollowed,
     Compiling, Fits, Mode, EnableTracing, TracingEnabled, Guarded, Codes, CallStub, locks,
     settings, environment, delegates, targets, Idle
<1>6. CountIsCounted'
  BY CountedKeeps DEF IInv, TypeOK, CallStub, locks, settings, environment, delegates,
     targets, Idle
<1> QED
  BY <1>1, <1>2, <1>3, <1>4, <1>5, <1>6 DEF IInv

\* Only the thread that has the lock compiles a function.
LEMMA LazyCompileFirstTargetKeeps ==
    ASSUME IInv, NEW t \in Threads, LazyCompileFirstTarget(t)
    PROVE  IInv'
<1>1. TypeOK'
  <2>1. thread' \in [Threads -> Tasks]
    BY ThreadsAssumption DEF IInv, TypeOK, CodesPlaced, Tasks, Steps, Codes,
       LazyCompileFirstTarget, settings, environment, delegates, targets, Goto, Mode, Modes
  <2> QED
    BY ThreadsAssumption, <2>1 DEF IInv, TypeOK, Tasks, LazyCompileFirstTarget,
       settings, environment, delegates, targets, Goto, Delegates, Modes, Mode, Codes
<1>2. LocksHeld'
  BY ThreadsAssumption, CodesAssumption DEF IInv, TypeOK, LocksHeld, CodesPlaced,
     Compiling, LazyCompileFirstTarget, settings, environment, delegates, targets, Goto
<1>3. CodesPlaced'
  BY DEF IInv, TypeOK, CodesPlaced, LazyCompileFirstTarget, settings, environment,
     delegates, targets, Goto, Codes
<1>4. NothingElseAdapts'
  BY DEF IInv, TypeOK, NothingElseAdapts, LazyCompileFirstTarget, settings, environment,
     delegates, targets, Goto
<1>5. ModeIsFollowed'
  BY ThreadsAssumption DEF IInv, TypeOK, LocksHeld, CodesPlaced, ModeIsFollowed,
     Compiling, Fits, Mode, EnableTracing, TracingEnabled, Guarded, Codes,
     LazyCompileFirstTarget, settings, environment, delegates, targets, Goto
<1>6. CountIsCounted'
  BY CountedKeeps DEF IInv, TypeOK, LazyCompileFirstTarget, settings, environment,
     delegates, targets, Goto
<1> QED
  BY <1>1, <1>2, <1>3, <1>4, <1>5, <1>6 DEF IInv

\* Modules are compiled without the lock, and are not guarded.
LEMMA CallKeeps ==
    ASSUME IInv, NEW t \in Threads, NEW c \in Codes, Call(t, c)
    PROVE  IInv'
<1>1. TypeOK'
  <2>1. thread' \in [Threads -> Tasks]
    BY ThreadsAssumption DEF IInv, TypeOK, CodesPlaced, Tasks, Steps, Codes, Call,
       locks, settings, environment, delegates, targets, Idle, Mode, Modes
  <2> QED
    BY ThreadsAssumption, <2>1 DEF IInv, TypeOK, Tasks, Call, locks, settings,
       environment, delegates, targets, Idle, Delegates, Modes, Mode, Codes
<1>2. LocksHeld'
  BY ThreadsAssumption, CodesAssumption DEF IInv, TypeOK, LocksHeld, CodesPlaced,
     Compiling, Call, locks, settings, environment, delegates, targets, Idle
<1>3. CodesPlaced'
  BY DEF IInv, TypeOK, CodesPlaced, Call, locks, settings, environment, delegates,
     targets, Idle, Codes
<1>4. NothingElseAdapts'
  BY DEF IInv, TypeOK, NothingElseAdapts, Call, locks, settings, environment, delegates,
     targets, Idle
<1>5. ModeIsFollowed'
  BY ThreadsAssumption DEF IInv, TypeOK, LocksHeld, CodesPlaced, ModeIsFollowed,
     Compiling, Fits, Mode, EnableTracing, TracingEnabled, Guarded, Codes, Call, locks,
     settings, environment, delegates, targets, Idle
<1>6. CountIsCounted'
  BY CountedKeeps DEF IInv, TypeOK, Call, locks, settings, environment, delegates,
     targets, Idle
<1> QED
  BY <1>1, <1>2, <1>3, <1>4, <1>5, <1>6 DEF IInv

\* So are the bodies of classes, which are no functions.
LEMMA CompileClassKeeps ==
    ASSUME IInv, NEW t \in Threads, NEW c \in Codes, CompileClass(t, c)
    PROVE  IInv'
<1>1. c \notin Functions
  BY DEF IInv, TypeOK, CodesPlaced, CompileClass
<1>2. TypeOK'
  <2>1. thread' \in [Threads -> Tasks]
    BY DEF IInv, TypeOK, Tasks, Steps, CompileClass, Idle, Modes
  <2> QED
    BY <2>1 DEF IInv, TypeOK, Tasks, CompileClass, locks, settings, environment,
       targets, Idle
<1>3. LocksHeld'
  BY <1>1, ThreadsAssumption DEF IInv, TypeOK, LocksHeld, Compiling, CompileClass,
     locks, Idle
<1>4. CodesPlaced'
  BY DEF IInv, TypeOK, CodesPlaced, CompileClass, settings, environment, Idle
<1>5. NothingElseAdapts'
  BY DEF IInv, NothingElseAdapts, CompileClass
<1>6. ModeIsFollowed'
  BY <1>1 DEF IInv, TypeOK, ModeIsFollowed, Compiling, Fits, Mode, EnableTracing,
     TracingEnabled, CompileClass, locks, settings, environment, targets, Idle
<1>7. CountIsCounted'
  BY CountedKeeps DEF IInv, TypeOK, CompileClass, settings, environment, Idle
<1> QED
  BY <1>2, <1>3, <1>4, <1>5, <1>6, <1>7 DEF IInv

\* The mode that was read is current until an update begins.
LEMMA ReadModeKeeps ==
    ASSUME IInv, NEW t \in Threads, ReadMode(t)
    PROVE  IInv'
<1>1. TypeOK'
  <2>1. thread' \in [Threads -> Tasks]
    BY TaskReadsMode DEF IInv, TypeOK, Tasks, ReadMode
  <2> QED
    BY <2>1 DEF IInv, TypeOK, Tasks, ReadMode, locks, settings, environment, delegates,
       targets
<1>2. LocksHeld'
  BY ThreadsAssumption, CodesAssumption DEF IInv, TypeOK, LocksHeld, CodesPlaced,
     Compiling, ReadMode, locks, settings, environment, delegates, targets
<1>3. CodesPlaced'
  BY DEF IInv, TypeOK, CodesPlaced, ReadMode, locks, settings, environment, delegates,
     targets, Codes
<1>4. NothingElseAdapts'
  BY DEF IInv, TypeOK, NothingElseAdapts, ReadMode, locks, settings, environment,
     delegates, targets
<1>5. ModeIsFollowed'
  BY ThreadsAssumption DEF IInv, TypeOK, LocksHeld, CodesPlaced, ModeIsFollowed,
     Compiling, Fits, Mode, EnableTracing, TracingEnabled, Guarded, Codes, ReadMode, locks,
     settings, environment, delegates, targets
<1>6. CountIsCounted'
  BY CountedKeeps DEF IInv, TypeOK, ReadMode, locks, settings, environment, delegates,
     targets
<1> QED
  BY <1>1, <1>2, <1>3, <1>4, <1>5, <1>6 DEF IInv

\* The lambda for tracing is there; no delegate changes.
LEMMA TransformLambdaKeeps ==
    ASSUME IInv, NEW t \in Threads, TransformLambda(t)
    PROVE  IInv'
<1>1. TypeOK'
  BY DEF IInv, TypeOK, CodesPlaced, TransformLambda, locks, settings, environment,
     targets
<1>2. LocksHeld'
  BY DEF IInv, LocksHeld, Compiling, TransformLambda, locks
<1>3. CodesPlaced'
  BY DEF IInv, CodesPlaced, TransformLambda, settings, environment
<1>4. NothingElseAdapts'
  BY DEF IInv, NothingElseAdapts, TransformLambda
<1>5. ModeIsFollowed'
  BY DEF IInv, ModeIsFollowed, Compiling, Fits, Mode, EnableTracing, TracingEnabled,
     TransformLambda, locks, settings, environment, targets
<1>6. CountIsCounted'
  BY CountedKeeps DEF IInv, TransformLambda, settings, environment
<1> QED
  BY <1>1, <1>2, <1>3, <1>4, <1>5, <1>6 DEF IInv

\* The delegate exists now; no code that is guarded adapts.
LEMMA CompileDelegateKeeps ==
    ASSUME IInv, NEW t \in Threads, CompileDelegate(t)
    PROVE  IInv'
<1>1. TypeOK'
  <2>1. thread' \in [Threads -> Tasks]
    BY ThreadsAssumption DEF IInv, TypeOK, CodesPlaced, Tasks, Steps, Codes,
       CompileDelegate, locks, settings, environment, Goto, Mode, Modes, CompileLambda,
       targets
  <2> QED
    BY ThreadsAssumption, <2>1 DEF IInv, TypeOK, Tasks, CompileDelegate, locks,
       settings, environment, Goto, Delegates, Modes, Mode, Codes, CompileLambda, targets
<1>2. LocksHeld'
  BY ThreadsAssumption, CodesAssumption DEF IInv, TypeOK, LocksHeld, CodesPlaced,
     Compiling, CompileDelegate, locks, settings, environment, Goto, CompileLambda, targets
<1>3. CodesPlaced'
  BY DEF IInv, TypeOK, CodesPlaced, CompileDelegate, locks, settings, environment, Goto,
     Codes, CompileLambda, targets
<1>4. NothingElseAdapts'
  BY DEF IInv, TypeOK, NothingElseAdapts, CompileDelegate, locks, settings, environment,
     Goto, CompileLambda, targets
<1>5. ModeIsFollowed'
  BY ThreadsAssumption DEF IInv, TypeOK, LocksHeld, CodesPlaced, ModeIsFollowed,
     Compiling, Fits, Mode, EnableTracing, TracingEnabled, Guarded, Codes, CompileDelegate,
     locks, settings, environment, Goto, CompileLambda, targets
<1>6. CountIsCounted'
  BY CountedKeeps DEF IInv, TypeOK, CompileDelegate, locks, settings, environment, Goto,
     CompileLambda, targets
<1> QED
  BY <1>1, <1>2, <1>3, <1>4, <1>5, <1>6 DEF IInv

\* Stored under the lock, so an update that has begun will still visit the code.
LEMMA StoreDelegateKeeps ==
    ASSUME IInv, NEW t \in Threads, StoreDelegate(t)
    PROVE  IInv'
<1>1. TypeOK'
  <2>1. thread' \in [Threads -> Tasks]
    BY ThreadsAssumption DEF IInv, TypeOK, CodesPlaced, Tasks, Steps, Codes,
       StoreDelegate, settings, environment, SetTarget, AddRecursionCheck, Finish, Idle,
       Mode, Modes
  <2>2. target' \in [Codes -> Delegates] /\ lightTarget' \in [Codes -> Delegates]
    <3>1. thread[t].code \in Codes /\ thread[t].mode \in Modes
      BY DEF IInv, TypeOK, CodesPlaced, StoreDelegate
    <3> QED
      BY <3>1, CheckedDelegate, TargetIsSet DEF IInv, TypeOK, StoreDelegate
  <2> QED
    BY ThreadsAssumption, <2>1, <2>2 DEF IInv, TypeOK, Tasks, StoreDelegate, settings,
       environment, Finish, Idle
<1>2. LocksHeld'
  BY ThreadsAssumption, CodesAssumption DEF IInv, TypeOK, LocksHeld, CodesPlaced,
     Compiling, StoreDelegate, settings, environment, SetTarget, AddRecursionCheck, Finish,
     Idle
<1>3. CodesPlaced'
  BY DEF IInv, TypeOK, CodesPlaced, StoreDelegate, settings, environment, SetTarget,
     AddRecursionCheck, Finish, Idle, Codes
<1>4. NothingElseAdapts'
  BY DEF IInv, TypeOK, NothingElseAdapts, StoreDelegate, settings, environment,
     SetTarget, AddRecursionCheck, Finish, Idle
<1>5. ModeIsFollowed'
  BY ThreadsAssumption DEF IInv, TypeOK, LocksHeld, CodesPlaced, ModeIsFollowed,
     Compiling, Fits, Mode, EnableTracing, TracingEnabled, Guarded, Codes, StoreDelegate,
     settings, environment, SetTarget, AddRecursionCheck, Finish, Idle
<1>6. CountIsCounted'
  BY CountedKeeps DEF IInv, TypeOK, StoreDelegate, settings, environment, SetTarget,
     AddRecursionCheck, Finish, Idle
<1> QED
  BY <1>1, <1>2, <1>3, <1>4, <1>5, <1>6 DEF IInv

\* A late compilation stores the target of an adaptive code only.
LEMMA SetCompiledTargetKeeps ==
    ASSUME IInv, NEW t \in Threads, NEW c \in Codes, NEW mode \in Modes, SetCompiledTarget(t, c, mode)
    PROVE  IInv'
<1>1. TypeOK'
  <2>1. thread' \in [Threads -> Tasks]
    BY ThreadsAssumption DEF IInv, TypeOK, CodesPlaced, Tasks, Steps, Codes,
       SetCompiledTarget, locks, settings, environment, SetTarget, AddRecursionCheck, Mode,
       Modes
  <2> QED
    BY ThreadsAssumption, <2>1 DEF IInv, TypeOK, Tasks, SetCompiledTarget, locks,
       settings, environment, SetTarget, AddRecursionCheck, Delegates, Modes, Mode, Codes
<1>2. LocksHeld'
  BY ThreadsAssumption, CodesAssumption DEF IInv, TypeOK, LocksHeld, CodesPlaced,
     Compiling, SetCompiledTarget, locks, settings, environment, SetTarget,
     AddRecursionCheck
<1>3. CodesPlaced'
  BY DEF IInv, TypeOK, CodesPlaced, SetCompiledTarget, locks, settings, environment,
     SetTarget, AddRecursionCheck, Codes
<1>4. NothingElseAdapts'
  BY DEF IInv, TypeOK, NothingElseAdapts, SetCompiledTarget, locks, settings,
     environment, SetTarget, AddRecursionCheck
<1>5. ModeIsFollowed'
  <2>1. c \notin Guarded
    BY DEF IInv, TypeOK, NothingElseAdapts, Guarded, SetCompiledTarget
  <2>2. \A d \in Guarded : target'[d] = target[d] /\ lightTarget'[d] = lightTarget[d]
    BY <2>1 DEF IInv, TypeOK, Guarded, Codes, SetCompiledTarget, SetTarget
  <2> QED
    BY <2>2 DEF IInv, ModeIsFollowed, Compiling, Fits, Mode, EnableTracing,
       TracingEnabled, SetCompiledTarget, locks, settings, environment
<1>6. CountIsCounted'
  BY CountedKeeps DEF IInv, TypeOK, SetCompiledTarget, locks, settings, environment,
     SetTarget, AddRecursionCheck
<1> QED
  BY <1>1, <1>2, <1>3, <1>4, <1>5, <1>6 DEF IInv

\* The compilation of a target for light exceptions takes no lock.
LEMMA BeginLightThrowCompileKeeps ==
    ASSUME IInv, NEW t \in Threads, NEW c \in Codes, BeginLightThrowCompile(t, c)
    PROVE  IInv'
<1>1. TypeOK'
  <2>1. thread' \in [Threads -> Tasks]
    BY ThreadsAssumption DEF IInv, TypeOK, CodesPlaced, Tasks, Steps, Codes,
       BeginLightThrowCompile, locks, settings, environment, Idle, Mode, Modes, targets
  <2> QED
    BY ThreadsAssumption, <2>1 DEF IInv, TypeOK, Tasks, BeginLightThrowCompile, locks,
       settings, environment, Idle, Delegates, Modes, Mode, Codes, targets
<1>2. LocksHeld'
  BY ThreadsAssumption, CodesAssumption DEF IInv, TypeOK, LocksHeld, CodesPlaced,
     Compiling, BeginLightThrowCompile, locks, settings, environment, Idle, targets
<1>3. CodesPlaced'
  BY DEF IInv, TypeOK, CodesPlaced, BeginLightThrowCompile, locks, settings,
     environment, Idle, Codes, targets
<1>4. NothingElseAdapts'
  BY DEF IInv, TypeOK, NothingElseAdapts, BeginLightThrowCompile, locks, settings,
     environment, Idle, targets
<1>5. ModeIsFollowed'
  BY ThreadsAssumption DEF IInv, TypeOK, LocksHeld, CodesPlaced, ModeIsFollowed,
     Compiling, Fits, Mode, EnableTracing, TracingEnabled, Guarded, Codes,
     BeginLightThrowCompile, locks, settings, environment, Idle, targets
<1>6. CountIsCounted'
  BY CountedKeeps DEF IInv, TypeOK, BeginLightThrowCompile, locks, settings,
     environment, Idle, targets
<1> QED
  BY <1>1, <1>2, <1>3, <1>4, <1>5, <1>6 DEF IInv

\* It reads the mode, which may then change.
LEMMA ReadLightModeKeeps ==
    ASSUME IInv, NEW t \in Threads, ReadLightMode(t)
    PROVE  IInv'
<1>1. TypeOK'
  <2>1. thread' \in [Threads -> Tasks]
    BY TaskReadsMode DEF IInv, TypeOK, Tasks, ReadLightMode
  <2> QED
    BY <2>1 DEF IInv, TypeOK, Tasks, ReadLightMode, locks, settings, environment,
       delegates, targets
<1>2. LocksHeld'
  BY ThreadsAssumption, CodesAssumption DEF IInv, TypeOK, LocksHeld, CodesPlaced,
     Compiling, ReadLightMode, locks, settings, environment, delegates, targets
<1>3. CodesPlaced'
  BY DEF IInv, TypeOK, CodesPlaced, ReadLightMode, locks, settings, environment,
     delegates, targets, Codes
<1>4. NothingElseAdapts'
  BY DEF IInv, TypeOK, NothingElseAdapts, ReadLightMode, locks, settings, environment,
     delegates, targets
<1>5. ModeIsFollowed'
  BY ThreadsAssumption DEF IInv, TypeOK, LocksHeld, CodesPlaced, ModeIsFollowed,
     Compiling, Fits, Mode, EnableTracing, TracingEnabled, Guarded, Codes, ReadLightMode,
     locks, settings, environment, delegates, targets
<1>6. CountIsCounted'
  BY CountedKeeps DEF IInv, TypeOK, ReadLightMode, locks, settings, environment,
     delegates, targets
<1> QED
  BY <1>1, <1>2, <1>3, <1>4, <1>5, <1>6 DEF IInv

\* A result for a mode that is over is dropped.
LEMMA StoreLightThrowTargetKeeps ==
    ASSUME IInv, NEW t \in Threads, StoreLightThrowTarget(t)
    PROVE  IInv'
<1>1. TypeOK'
  <2>1. thread' \in [Threads -> Tasks]
    BY ThreadsAssumption DEF IInv, TypeOK, CodesPlaced, Tasks, Steps, Codes,
       StoreLightThrowTarget, locks, settings, environment, Finish, Idle, Mode, Modes,
       targets
  <2>2. lightTarget' \in [Codes -> Delegates]
    <3>1. [mode |-> Mode, checked |-> FALSE] \in Delegates
      BY DEF Delegates, Mode, Modes
    <3>2. thread[t].code \in Codes
      BY DEF IInv, CodesPlaced, StoreLightThrowTarget
    <3> QED
      BY <3>1, <3>2 DEF IInv, TypeOK, StoreLightThrowTarget
  <2> QED
    BY ThreadsAssumption, <2>1, <2>2 DEF IInv, TypeOK, Tasks, StoreLightThrowTarget, locks,
       settings, environment, Finish, Idle
<1>2. LocksHeld'
  BY ThreadsAssumption, CodesAssumption DEF IInv, TypeOK, LocksHeld, CodesPlaced,
     Compiling, StoreLightThrowTarget, locks, settings, environment, Finish, Idle, targets
<1>3. CodesPlaced'
  BY DEF IInv, TypeOK, CodesPlaced, StoreLightThrowTarget, locks, settings, environment,
     Finish, Idle, Codes, targets
<1>4. NothingElseAdapts'
  BY DEF IInv, TypeOK, NothingElseAdapts, StoreLightThrowTarget, locks, settings,
     environment, Finish, Idle, targets
<1>5. ModeIsFollowed'
  BY ThreadsAssumption DEF IInv, TypeOK, LocksHeld, CodesPlaced, ModeIsFollowed,
     Compiling, Fits, Mode, EnableTracing, TracingEnabled, Guarded, Codes,
     StoreLightThrowTarget, locks, settings, environment, Finish, Idle, targets
<1>6. CountIsCounted'
  BY CountedKeeps DEF IInv, TypeOK, StoreLightThrowTarget, locks, settings, environment,
     Finish, Idle, targets
<1> QED
  BY <1>1, <1>2, <1>3, <1>4, <1>5, <1>6 DEF IInv
-----------------------------------------------------------------------------
\* No thread traces, and nothing is compiled, at the start.
LEMMA Initially == Init => IInv
<1> SUFFICES ASSUME Init PROVE IInv
  OBVIOUS
<1> PICK mode \in Modes :
        /\ target = [c \in Codes |-> InitialDelegate(c, mode)]
        /\ compiled = [c \in Codes |-> IF kind[c] = "module" THEN {mode} ELSE {}]
  BY DEF Init, Modes
<1>1. kind \in [Codes -> Kinds] /\ \A c \in Functions : kind[c] = "function"
  BY DEF Init
<1>2. TypeOK
  <2>1. target \in [Codes -> Delegates]
    BY <1>1 DEF InitialDelegate, Kinds, Delegates, Stub, NoTarget
  <2>2. compiled \in [Codes -> SUBSET Modes]
    BY DEF Modes
  <2> QED
    BY <1>1, <2>1, <2>2 DEF Init, TypeOK, Idle, Steps, Modes
<1>3. LocksHeld /\ CodesPlaced /\ NothingElseAdapts
  BY DEF Init, LocksHeld, CodesPlaced, NothingElseAdapts, Compiling, Idle
<1>5. ModeIsFollowed
  <2>1. \A c \in Functions : target[c] = Stub /\ lightTarget[c] = Stub
    BY <1>1 DEF Init, InitialDelegate, Codes
  <2>2. \A c \in Guarded : Fits(c)
    BY <2>1 DEF Guarded, Fits, Stub
  <2>3. \A t \in Threads : thread[t].pc = "idle"
    BY DEF Init, Idle
  <2> QED
    BY <2>2, <2>3 DEF ModeIsFollowed, Compiling
<1>4. CountIsCounted
  <2>1. Counted = {}
    BY DEF Init, Counted, Idle
  <2> QED
    BY <2>1, FS_EmptySet DEF Init, CountIsCounted
<1> QED
  BY <1>2, <1>3, <1>4, <1>5 DEF IInv

\* A step of something else changes nothing here.
LEMMA Stuttering == IInv /\ UNCHANGED vars => IInv'
  BY DEF vars, locks, settings, environment, delegates, targets, IInv, TypeOK,
     LocksHeld, CodesPlaced, Compiling, NothingElseAdapts, ModeIsFollowed, Fits, Mode,
     EnableTracing, TracingEnabled, CountIsCounted, Counted

\* Locks, modes and the count stay in order, whatever the threads do.
THEOREM Invariance == Spec => []IInv
<1>1. ASSUME IInv, NEW t \in Threads, Start(t)
      PROVE  IInv'
  BY <1>1, BeginSetTraceKeeps, OnTraceEventKeeps, SetRecursionLimitKeeps, CallStubKeeps,
     CallKeeps, CompileClassKeeps, BeginLightThrowCompileKeeps, SetCompiledTargetKeeps DEF
     Start
<1>2. ASSUME IInv, NEW t \in Threads, Continue(t)
      PROVE  IInv'
  BY <1>2, CountListenerKeeps, BeginUpdateAllCodeKeeps, UpdateCodeKeeps,
     EndUpdateAllCodeKeeps, LazyCompileFirstTargetKeeps, ReadModeKeeps,
     TransformLambdaKeeps, CompileDelegateKeeps, StoreDelegateKeeps, ReadLightModeKeeps,
     StoreLightThrowTargetKeeps DEF Continue
<1>3. IInv /\ [Next]_vars => IInv'
  BY <1>1, <1>2, Stuttering DEF Next
<1> QED
  BY <1>3, Initially, PTL DEF Spec

\* The fields keep their types, and an update of all codes holds both locks.
THEOREM TypeCorrect == Spec => []TypeOK
<1>1. IInv => TypeOK
  BY DEF IInv
<1> QED
  BY <1>1, Invariance, PTL

\* Once nothing is being updated, a function that compiles under the lock runs
\* in the mode that settrace chose, or compiles itself for it on its next call.
THEOREM TargetsFollowMode == Spec => []TargetsMatchMode
<1>1. IInv => TargetsMatchMode
  BY DEF IInv, ModeIsFollowed, Fits, TargetsMatchMode, Settled
<1> QED
  BY <1>1, Invariance, PTL

\* No compilation for light exceptions leaves the target of a mode that is over.
THEOREM LightTargetsFollowMode == Spec => []LightTargetsMatchMode
<1>1. IInv => LightTargetsMatchMode
  BY DEF IInv, ModeIsFollowed, Fits, LightTargetsMatchMode, Settled
<1> QED
  BY <1>1, Invariance, PTL

\* The count of listeners never exceeds the number of threads that have one, but
\* for the calls of settrace that have not counted yet, and equals it unless
\* -X:Tracing was given.
THEOREM CountFollowsListeners == Spec => []ListenersAreCounted
<1>1. IInv => ListenersAreCounted
  <2> SUFFICES ASSUME IInv PROVE ListenersAreCounted
    OBVIOUS
  <2> DEFINE late == {t \in Threads : thread[t].pc = "count" /\ t \in listener /\ ~thread[t].was}
             early == {t \in Threads : thread[t].pc = "count" /\ t \notin listener /\ thread[t].was}
  <2>1. /\ listener \subseteq Threads
        /\ \A t \in Threads : thread[t].was \in BOOLEAN
    BY DEF IInv, TypeOK
  <2>2. /\ Counted \cup late = listener \cup early
        /\ Counted \cap late = {} /\ listener \cap early = {}
    BY <2>1 DEF Counted
  <2>3. Counted \subseteq Threads /\ late \subseteq Threads /\ early \subseteq Threads
    BY DEF Counted
  <2>4. /\ IsFiniteSet(Counted) /\ IsFiniteSet(late)
        /\ IsFiniteSet(listener) /\ IsFiniteSet(early)
    BY <2>1, <2>3, ThreadsAssumption, FS_Subset
  <2>5. /\ Cardinality(Counted) \in Nat /\ Cardinality(late) \in Nat
        /\ Cardinality(listener) \in Nat /\ Cardinality(early) \in Nat
    BY <2>4, FS_CardinalityType
  <2> HIDE DEF late, early
  <2>6. Cardinality(Counted \cap late) = 0 /\ Cardinality(listener \cap early) = 0
    BY <2>2, FS_EmptySet
  <2>7. Cardinality(Counted) + Cardinality(late) = Cardinality(listener) + Cardinality(early)
    <3>1. Cardinality(Counted \cup late)
            = Cardinality(Counted) + Cardinality(late) - Cardinality(Counted \cap late)
      BY <2>4, FS_Union
    <3>2. Cardinality(listener \cup early)
            = Cardinality(listener) + Cardinality(early) - Cardinality(listener \cap early)
      BY <2>4, FS_Union
    <3>3. Cardinality(Counted \cup late) = Cardinality(listener \cup early)
      BY <2>2
    <3> QED
      BY <2>5, <2>6, <3>1, <3>2, <3>3
  <2>8. listeners \in Int /\ listeners <= Cardinality(Counted)
        /\ (~option => listeners = Cardinality(Counted))
    BY DEF IInv, TypeOK, CountIsCounted
  <2>9. /\ listeners + Cardinality(late) <= Cardinality(listener) + Cardinality(early)
        /\ ~option => listeners + Cardinality(late) = Cardinality(listener) + Cardinality(early)
    BY <2>5, <2>7, <2>8
  <2> QED
    BY <2>9 DEF ListenersAreCounted, late, early
<1> QED
  BY <1>1, Invariance, PTL
=============================================================================
