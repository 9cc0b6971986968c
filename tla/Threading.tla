----------------------------- MODULE Threading -----------------------------
(***************************************************************************)
(* Thread objects of threading.py: start, the bootstrap of the new thread, *)
(* join, the tables of enumerate() and the wait of the main thread for the *)
(* others at exit (_shutdown, which PythonContext.Shutdown calls). The     *)
(* started event and the block condition of each thread are the module     *)
(* Condition's. A critical section in which a thread neither waits nor     *)
(* reads what others write without the lock is one action.                 *)
(***************************************************************************)
EXTENDS Condition, FiniteSets

CONSTANTS
    Main,
    Daemons,    \* the sets of daemonic threads tried
    MaxCalls    \* of each thread, bounds the calls of start() and join() in the body of a thread

VARIABLES
    daemon,     \* the daemonic threads; chosen before they are started
    started,    \* the threads whose started event is set
    stopped,    \* the threads whose __stopped is set
    active,     \* _active
    limbo,      \* _limbo
    pc,
    target,     \* the thread that is being started or joined by each thread
    snapshot,   \* what the main thread got from enumerate() and has not looked at yet
    calls,      \* how many calls the body of each thread has made
    ancestors,  \* (history) the threads that led to the start of each thread
    owed        \* (history) the threads the main thread has to wait for when it stops

flags == <<daemon, started, stopped>>
tables == <<active, limbo>>
histories == <<calls, ancestors, owed>>
threadVars == <<flags, tables, pc, target, snapshot, histories>>
vars == <<conditionVars, threadVars>>

Started(t) == <<"started", t>>      \* the condition of the event
Block(t) == <<"block", t>>
Limbo == <<"active_limbo", Main>>   \* _active_limbo_lock

ASSUME ThreadingAssumption ==
    /\ MaxCalls \in [Threads -> Nat]
    /\ Main \in Threads
    /\ Daemons \subseteq SUBSET (Threads \ {Main})
    /\ Conds = {Started(t) : t \in Threads} \cup {Block(t) : t \in Threads}
    /\ Locks = Conds \cup {Limbo}
    /\ LockOf = [c \in Conds |-> c]

Bootstrap == {"set", "announce", "register"}
Ending == {"stop", "stopping", "delete"}
Starting == {"limbo", "launch", "unlaunch", "await", "awaited"}
Joining == {"join", "timed join", "joining", "timed joining"}
Exiting == {"pick", "scan"}
Locations == {"none", "run", "end", "dead"} \cup Bootstrap \cup Ending \cup Starting \cup Joining \cup Exiting

Goto(t, l) == pc' = [pc EXCEPT ![t] = l]
Free(l) == holder[l] = Nobody
IsAlive(t) == t \in started \ stopped

Init ==
    /\ ConditionInit
    /\ daemon \in Daemons
    /\ started = {Main} /\ stopped = {}
    /\ active = {Main} /\ limbo = {}
    /\ pc = [t \in Threads |-> IF t = Main THEN "run" ELSE "none"]
    /\ target = [t \in Threads |-> Nobody]
    /\ snapshot = {}
    /\ calls = [t \in Threads |-> 0]
    /\ ancestors = [t \in Threads |-> {}] /\ owed = {}
-----------------------------------------------------------------------------
\* Thread.start of u, by t. A program starts a thread object from one thread at a time.
Start(t, u) ==
    /\ pc[t] = "run" /\ calls[t] < MaxCalls[t]
    /\ calls' = [calls EXCEPT ![t] = @ + 1]
    /\ u \notin started
    /\ \A v \in Threads : ~(pc[v] \in Starting /\ target[v] = u)
    /\ target' = [target EXCEPT ![t] = u]
    /\ Goto(t, "limbo")
    /\ UNCHANGED <<conditionVars, flags, tables, snapshot, ancestors, owed>>

EnterLimbo(t) ==
    /\ pc[t] = "limbo" /\ Free(Limbo)
    /\ limbo' = limbo \cup {target[t]}
    /\ Goto(t, "launch")
    /\ UNCHANGED <<conditionVars, flags, active, target, snapshot, histories>>

\* thread.start_new_thread, which may raise.
Launch(t) ==
    /\ pc[t] = "launch"
    /\ \/ /\ pc' = [pc EXCEPT ![t] = "await", ![target[t]] = "set"]
          /\ ancestors' = [ancestors EXCEPT ![target[t]] = ancestors[t] \cup {t}]
       \/ /\ Goto(t, "unlaunch")
          /\ UNCHANGED ancestors
    /\ UNCHANGED <<conditionVars, flags, tables, target, snapshot, calls, owed>>

\* The except clause; start() raises.
LeaveLimbo(t) ==
    /\ pc[t] = "unlaunch" /\ Free(Limbo)
    /\ limbo' = limbo \ {target[t]}
    /\ Goto(t, "run")
    /\ UNCHANGED <<conditionVars, flags, active, target, snapshot, histories>>

\* Event.wait, up to the wait() of its condition.
Await(t) ==
    /\ pc[t] = "await"
    /\ Free(Started(target[t]))
    /\ IF target[t] \in started
       THEN Goto(t, "run") /\ UNCHANGED conditionVars
       ELSE Goto(t, "awaited") /\ Wait(t, Started(target[t]), FALSE)
    /\ UNCHANGED <<flags, tables, target, snapshot, histories>>

\* The wait() has returned, and start() does.
Awaited(t) ==
    /\ pc[t] = "awaited" /\ Runs(t, Started(target[t]))
    /\ Unlock(Started(target[t]))
    /\ Goto(t, "run")
    /\ UNCHANGED <<waitVars, notifyVars, flags, tables, target, snapshot, histories>>
-----------------------------------------------------------------------------
\* __bootstrap_inner: Event.set, up to its notify_all().
SetStarted(t) ==
    /\ pc[t] = "set"
    /\ Lock(t, Started(t))
    /\ started' = started \cup {t}
    /\ StartNotifyAll(Started(t))
    /\ Goto(t, "announce")
    /\ UNCHANGED <<waitVars, daemon, stopped, tables, target, snapshot, histories>>

Announced(t) ==
    /\ pc[t] = "announce" /\ Notified(Started(t))
    /\ Unlock(Started(t))
    /\ Goto(t, "register")
    /\ UNCHANGED <<waitVars, notifyVars, flags, tables, target, snapshot, histories>>

Register(t) ==
    /\ pc[t] = "register" /\ Free(Limbo)
    /\ active' = active \cup {t}
    /\ limbo' = limbo \ {t}
    /\ Goto(t, "run")
    /\ UNCHANGED <<conditionVars, flags, target, snapshot, histories>>

\* Variant: a thread stops before it takes the lock of the tables.
FinishUnlocked(t) ==
    /\ pc[t] = "run"
    /\ Goto(t, "stop")
    /\ owed' = IF t = Main THEN {u \in Threads \ daemon : IsAlive(u)} \ {t} ELSE owed
    /\ UNCHANGED <<conditionVars, flags, tables, target, snapshot, calls, ancestors>>

\* run() returns or raises.  The main thread goes to _exitfunc.
Finish(t) ==
    /\ pc[t] = "run"
    /\ Goto(t, IF t = Main THEN "stop" ELSE "end")
    /\ owed' = IF t = Main THEN {u \in Threads \ daemon : IsAlive(u)} \ {t} ELSE owed
    /\ UNCHANGED <<conditionVars, flags, tables, target, snapshot, calls, ancestors>>

End(t) ==
    /\ pc[t] = "end"
    /\ Lock(t, Limbo)
    /\ Goto(t, "stop")
    /\ UNCHANGED <<waitVars, notifyVars, flags, tables, target, snapshot, histories>>

\* Variant: __stop without notify_all.
StopSilently(t) ==
    /\ pc[t] = "stop"
    /\ Lock(t, Block(t))
    /\ stopped' = stopped \cup {t}
    /\ Goto(t, "stopping")
    /\ UNCHANGED <<waitVars, notifyVars, daemon, started, tables, target, snapshot, histories>>

\* __stop, with the lock of the tables held unless it is the main thread that stops.
Stop(t) ==
    /\ pc[t] = "stop"
    /\ Lock(t, Block(t))
    /\ stopped' = stopped \cup {t}
    /\ StartNotifyAll(Block(t))
    /\ Goto(t, "stopping")
    /\ UNCHANGED <<waitVars, daemon, started, tables, target, snapshot, histories>>

Stopped(t) ==
    /\ pc[t] = "stopping" /\ Notified(Block(t))
    /\ Unlock(Block(t))
    /\ Goto(t, IF t = Main THEN "pick" ELSE "delete")
    /\ UNCHANGED <<waitVars, notifyVars, flags, tables, target, snapshot, histories>>

\* The end of the thread, and of the critical section it has been in since End.
Delete(t) ==
    /\ pc[t] = "delete"
    /\ active' = active \ {t}
    /\ Unlock(Limbo)
    /\ Goto(t, "dead")
    /\ UNCHANGED <<waitVars, notifyVars, flags, limbo, target, snapshot, histories>>
-----------------------------------------------------------------------------
\* The thread that t waits for in a join without a timeout.
Awaits(t) == IF pc[t] \in {"join", "joining"} THEN target[t] ELSE Nobody

\* Threads that join one another in a circle wait for ever, by their own doing.
WouldClose(t, u) ==
    \E v \in Threads \cup {Nobody} :
        /\ Awaits(u) = v
        /\ v = t \/ (v # Nobody /\ Awaits(v) = t)

\* Thread.join of u, by t.  It raises for a thread that is not started and for t itself.
Join(t, u) ==
    /\ pc[t] = "run" /\ calls[t] < MaxCalls[t]
    /\ calls' = [calls EXCEPT ![t] = @ + 1]
    /\ u \in started /\ u # t
    /\ target' = [target EXCEPT ![t] = u]
    /\ \/ ~WouldClose(t, u) /\ Goto(t, "join")
       \/ Goto(t, "timed join")
    /\ UNCHANGED <<conditionVars, flags, tables, snapshot, ancestors, owed>>

JoinEnter(t) ==
    /\ pc[t] \in {"join", "timed join"}
    /\ Lock(t, Block(target[t]))
    /\ Goto(t, IF pc[t] = "join" THEN "joining" ELSE "timed joining")
    /\ UNCHANGED <<waitVars, notifyVars, flags, tables, target, snapshot, histories>>

\* The while loop: the deadline may be over at any time and is over once a wait timed out.
JoinWait(t) ==
    /\ pc[t] \in {"joining", "timed joining"} /\ Runs(t, Block(target[t]))
    /\ target[t] \notin stopped
    /\ t \notin expired
    /\ Wait(t, Block(target[t]), pc[t] = "timed joining")
    /\ UNCHANGED threadVars

\* The main thread joins for its exit once it has stopped.
JoinLeave(t) ==
    /\ pc[t] \in {"joining", "timed joining"} /\ Runs(t, Block(target[t]))
    /\ target[t] \in stopped \/ pc[t] = "timed joining"
    /\ Unlock(Block(target[t]))
    /\ expired' = expired \ {t}
    /\ Goto(t, IF t \in stopped THEN "pick" ELSE "run")
    /\ UNCHANGED <<waiters, woken, waiting, notifyVars, flags, tables, target, snapshot, histories>>
-----------------------------------------------------------------------------
\* Variant: overlooks the threads that are not registered yet.
PickActiveOnly ==
    /\ pc[Main] = "pick" /\ Free(Limbo)
    /\ snapshot' = active
    /\ Goto(Main, "scan")
    /\ UNCHANGED <<conditionVars, flags, tables, target, histories>>

\* _pickSomeNonDaemonThread: the list of enumerate(), whose threads are looked at one by
\* one, in the order of two dictionaries.
Pick ==
    /\ pc[Main] = "pick" /\ Free(Limbo)
    /\ snapshot' = active \cup limbo
    /\ Goto(Main, "scan")
    /\ UNCHANGED <<conditionVars, flags, tables, target, histories>>

LookAt(u) ==
    /\ pc[Main] = "scan" /\ u \in snapshot
    /\ IF u \notin daemon /\ IsAlive(u)
       THEN /\ snapshot' = {}
            /\ target' = [target EXCEPT ![Main] = u]
            /\ Goto(Main, "join")
       ELSE /\ snapshot' = snapshot \ {u}
            /\ UNCHANGED <<pc, target>>
    /\ UNCHANGED <<conditionVars, flags, tables, histories>>

\* No thread is left to wait for; __delete, and the process ends.
Exit ==
    /\ pc[Main] = "scan" /\ snapshot = {} /\ Free(Limbo)
    /\ active' = active \ {Main}
    /\ Goto(Main, "dead")
    /\ UNCHANGED <<conditionVars, flags, limbo, target, snapshot, histories>>
-----------------------------------------------------------------------------
Exited == pc[Main] = "dead"

Calls(t) == \E u \in Threads : Start(t, u) \/ Join(t, u)
Locking(t) ==
    \/ EnterLimbo(t) \/ LeaveLimbo(t) \/ Await(t) \/ SetStarted(t) \/ Register(t)
    \/ End(t) \/ Stop(t) \/ JoinEnter(t)
    \/ t = Main /\ (Pick \/ Exit)
    \/ Restore(t) /\ UNCHANGED threadVars
Steps(t) ==
    \/ Launch(t) \/ Awaited(t) \/ Announced(t) \/ Stopped(t) \/ Delete(t)
    \/ JoinWait(t) \/ JoinLeave(t)
    \/ t = Main /\ \E u \in Threads : LookAt(u)
    \/ WaitStep(t) /\ UNCHANGED threadVars
Notifying == \E c \in Conds : NotifyStep(c) /\ UNCHANGED threadVars

\* The other threads are background threads: they run on until the process is gone.
Next ==
    \/ \E t \in Threads : Calls(t) \/ Finish(t) \/ Locking(t) \/ Steps(t)
    \/ Notifying

\* Threads go on unless they wait, and their bodies end; of those that wait for locks, one
\* is granted its lock (LockSpec promises no more).
Fairness ==
    /\ \A t \in Threads : WF_vars(Steps(t)) /\ WF_vars(Finish(t))
    /\ WF_vars(\E t \in Threads : Locking(t))
    /\ WF_vars(Notifying)

Spec == Init /\ [][Next]_vars /\ Fairness
-----------------------------------------------------------------------------
\* The types of the variables; a stopped thread was started, and only a launched thread
\* is.  The waiters of a condition are threads that wait for it.
TypeOK ==
    /\ ConditionTypeOK
    /\ pc \in [Threads -> Locations]
    /\ target \in [Threads -> Threads \cup {Nobody}]
    /\ daemon \in Daemons
    /\ stopped \subseteq started
    /\ \A t \in started : pc[t] # "none"
    /\ snapshot \cup owed \subseteq Threads

\* enumerate(), which takes the lock of the tables, lists every thread that is alive,
\* once, and no other but one whose start is under way: none that join() may have
\* reported as ended, and none whose start has failed.
AliveAreListed ==
    Free(Limbo) =>
        \A t \in Threads \ {Main} :
            /\ ~(t \in active /\ t \in limbo)
            /\ IsAlive(t) => t \in active \cup limbo
            /\ t \in active \cup limbo => IsAlive(t) \/ \E v \in Threads : pc[v] \in Starting /\ target[v] = t

\* The process does not end before the non-daemonic threads that were alive when the main
\* thread came to its end, registered or not.
ExitJoinsTheLiving == Exited => owed \subseteq stopped

\* The documentation of daemon: the program exits when only daemon threads are left.
\* (Threads that a daemonic thread has started are not held against it.)
ExitWaitsForAll ==
    Exited => \A t \in Threads : IsAlive(t) => t \in daemon \/ ancestors[t] \cap daemon # {}

\* Every thread comes to its end: no start(), join() or exit hangs on an event that was
\* set, a thread that has stopped or a lock that was not released.
AllEnd == <>(\A t \in Threads : pc[t] \in {"none", "dead"})
=============================================================================
