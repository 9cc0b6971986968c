-------------------------- MODULE ThreadingProofs --------------------------
(***************************************************************************)
(* What enumerate() lists and whom the main thread waits for at exit, for  *)
(* any threads, daemons and calls of start() and join(). SyncProofs        *)
(* says what wait() and notify() keep; here, who holds which lock, who     *)
(* waits for whom, and where a thread is when it is in the tables.         *)
(***************************************************************************)
EXTENDS Threading, SyncProofs

\* Locks and waits. The thread that ends holds the lock of the tables; one that announces
\* its start or its end holds the lock of its condition; and a notify() is under way
\* nowhere else.
LocksOK(t) ==
    /\ Holds(t, Limbo) <=> t # Main /\ pc[t] \in Ending
    /\ pc[t] = "announce" => Holds(t, Started(t))
    /\ pc[t] = "stopping" => Holds(t, Block(t))
    /\ todo[Started(t)] # <<>> => pc[t] = "announce"
    /\ todo[Block(t)] # <<>> => pc[t] = "stopping"

\* A thread inside a wait() has been told to wait for its target; and it waits for the
\* start of that target until it has started.
WaitsOK(t) ==
    /\ IsWaiting(t) =>
          \/ pc[t] = "awaited" /\ waiting[t].cond = Started(target[t]) /\ waiting[t].timed = FALSE
          \/ pc[t] \in {"joining", "timed joining"} /\ waiting[t].cond = Block(target[t])
    /\ pc[t] = "awaited" /\ target[t] \notin started => waiting[t].at = "waiter" /\ t \notin woken

LInv == CInv /\ \A t \in Threads : LocksOK(t) /\ WaitsOK(t)

\* Flags and tables. Where a thread other than the main thread is in its life.
FlagsOK(t) ==
    /\ t \in started <=> pc[t] \notin {"none", "set"}
    /\ t # Main => /\ t \in stopped <=> pc[t] \in {"stopping", "delete", "dead"}
                   /\ t \in active <=> pc[t] \notin {"none", "set", "announce", "register", "dead"}
    /\ t \in limbo <=>
          \/ pc[t] \in Bootstrap
          \/ pc[t] = "none" /\ \E v \in Threads : pc[v] \in {"launch", "unlaunch"} /\ target[v] = t

\* One thread starts another, which it does not leave alone before it has started.
StartsOK(t) ==
    /\ pc[t] \in Starting \cup Joining => target[t] \in Threads
    /\ pc[t] \in {"limbo", "launch", "unlaunch"} => pc[target[t]] = "none"
    /\ pc[t] \in {"await", "awaited"} => pc[target[t]] # "none"
    /\ \A v \in Threads : {pc[t], pc[v]} \subseteq Starting /\ target[t] = target[v] => t = v
    /\ pc[t] = "set" => \E v \in Threads : pc[v] \in {"await", "awaited"} /\ target[v] = t

\* The main thread, and those it has to wait for.
ExitOK ==
    /\ pc[Main] \notin Bootstrap \cup {"none", "end", "delete"}
    /\ owed \subseteq started \ (daemon \cup {Main})
    /\ pc[Main] = "scan" => owed \ stopped \subseteq snapshot
    /\ pc[Main] = "dead" => owed \subseteq stopped

TTypes ==
    /\ pc \in [Threads -> Locations]
    /\ target \in [Threads -> Threads \cup {Nobody}]
    /\ daemon \in Daemons
    /\ stopped \subseteq started /\ started \subseteq Threads
    /\ active \subseteq Threads /\ limbo \subseteq Threads /\ snapshot \subseteq Threads

SInv == TTypes /\ (\A t \in Threads : FlagsOK(t) /\ StartsOK(t)) /\ ExitOK

TInv == LInv /\ SInv
-----------------------------------------------------------------------------
LEMMA LocksAreApart ==
    /\ Limbo \in Locks /\ Main \in Threads
    /\ \A t \in Threads :
          /\ Started(t) \in Conds /\ Block(t) \in Conds
          /\ Started(t) # Limbo /\ Block(t) # Limbo
    /\ \A t, u \in Threads :
          /\ Started(t) = Started(u) => t = u
          /\ Block(t) = Block(u) => t = u
          /\ Started(t) # Block(u)
    /\ \A c \in Conds : c \in Locks /\ LockOf[c] = c /\ c # Limbo /\ (Notified(c) <=> todo[c] = <<>>)
    /\ \A c \in Conds : \E t \in Threads : c = Started(t) \/ c = Block(t)
    /\ Notified(Limbo)
  BY ThreadingAssumption DEF Started, Block, Limbo, Notified

LEMMA TInvImpliesSafety == TInv => TypeOK /\ AliveAreListed /\ ExitJoinsTheLiving
<1> SUFFICES ASSUME TInv PROVE TypeOK /\ AliveAreListed /\ ExitJoinsTheLiving
  OBVIOUS
<1>1. TypeOK
  BY CInvImpliesTypeOK DEF TInv, LInv, SInv, TTypes, FlagsOK, ExitOK, TypeOK
<1>2. ASSUME Free(Limbo), NEW t \in Threads \ {Main}
      PROVE  /\ ~(t \in active /\ t \in limbo)
             /\ IsAlive(t) => t \in active \cup limbo
             /\ t \in active \cup limbo => IsAlive(t) \/ \E v \in Threads : pc[v] \in Starting /\ target[v] = t
  <2>1. pc[t] \notin Ending
    BY <1>2, ConditionAssumption DEF TInv, LInv, LocksOK, Holds, Free
  <2>2. FlagsOK(t) /\ StartsOK(t)
    BY DEF TInv, SInv
  <2> QED
    BY <2>1, <2>2 DEF FlagsOK, StartsOK, IsAlive, Bootstrap, Ending, Starting
<1>3. AliveAreListed
  BY <1>2 DEF AliveAreListed
<1>4. ExitJoinsTheLiving
  BY DEF ExitJoinsTheLiving, Exited, TInv, SInv, ExitOK
<1> QED
  BY <1>1, <1>3, <1>4

LEMMA InitTInv == Init => TInv
<1> SUFFICES ASSUME Init PROVE TInv
  OBVIOUS
<1>1. CInv
  BY InitCInv DEF Init
<1>2. ASSUME NEW t \in Threads PROVE LocksOK(t) /\ WaitsOK(t)
  BY LocksAreApart, ConditionAssumption
  DEF Init, ConditionInit, LocksOK, WaitsOK, Holds, IsWaiting, NotWaiting, Ending
<1>3. TTypes
  BY LocksAreApart DEF Init, TTypes, Locations
<1>4. ASSUME NEW t \in Threads PROVE FlagsOK(t) /\ StartsOK(t)
  BY LocksAreApart DEF Init, FlagsOK, StartsOK, Bootstrap, Starting, Joining
<1>5. ExitOK
  BY LocksAreApart DEF Init, ExitOK, Bootstrap
<1> QED
  BY <1>1, <1>2, <1>3, <1>4, <1>5 DEF TInv, LInv, SInv
-----------------------------------------------------------------------------
\* Locks and waits. Steps that touch neither;
LEMMA QuietKeeps ==
    ASSUME LInv, TTypes, NEW t \in Threads, NEW l, UNCHANGED <<conditionVars, started>>,
           pc' = [pc EXCEPT ![t] = l], \A u \in Threads \ {t} : target'[u] = target[u],
           pc[t] \notin Ending \cup {"announce", "awaited", "joining", "timed joining"},
           l \notin {"announce", "stopping", "awaited"}, l \in Ending => t = Main
    PROVE  LInv'
<1>1. CInv'
  BY StutterKeeps DEF LInv
<1>2. ~IsWaiting(t)
  BY DEF LInv, WaitsOK
<1>3. pc'[t] = l /\ \A u \in Threads \ {t} : pc'[u] = pc[u]
  BY DEF TTypes
<1>4. ASSUME NEW u \in Threads PROVE LocksOK(u)' /\ WaitsOK(u)'
  <2>1. LocksOK(u) /\ WaitsOK(u) /\ UNCHANGED <<holder, waiting, woken, todo, started>>
    BY DEF LInv, conditionVars
  <2>2. LocksOK(u)'
    BY <1>3, <2>1 DEF LocksOK, Holds, Ending
  <2>3. WaitsOK(u)'
    BY <1>2, <1>3, <2>1 DEF WaitsOK, IsWaiting
  <2> QED
    BY <2>2, <2>3
<1> QED
  BY <1>1, <1>4 DEF LInv

\* a lock that is taken, or let go when no notify() is under way there;
LEMMA OtherLocks ==
    ASSUME LInv, NEW t \in Threads, NEW c \in Conds, NEW h \in Threads \cup {Nobody},
           holder' = [holder EXCEPT ![c] = h]
    PROVE  /\ \A u \in Threads : Holds(u, Limbo)' <=> Holds(u, Limbo)
           /\ \A u \in Threads, d \in Conds : d # c => (Holds(u, d)' <=> Holds(u, d))
           /\ \A u \in Threads : Holds(u, c)' <=> u = h
  BY LocksAreApart, ConditionAssumption DEF LInv, CInv, CTypes, Holds

LEMMA QuietLock ==
    ASSUME LInv, NEW t \in Threads, NEW c \in Conds, holder[c] \in {t, Nobody}, pc[t] \notin {"announce", "stopping"}
    PROVE  /\ todo[c] = <<>>
           /\ \A v \in Threads : /\ pc[v] = "announce" => Started(v) # c
                                 /\ pc[v] = "stopping" => Block(v) # c
<1>1. \A v \in Threads : /\ pc[v] = "announce" => Started(v) # c
                         /\ pc[v] = "stopping" => Block(v) # c
  BY ConditionAssumption DEF LInv, LocksOK, Holds
<1>2. PICK u \in Threads : c = Started(u) \/ c = Block(u)
  BY LocksAreApart
<1>3. todo[c] = <<>>
  BY <1>1, <1>2 DEF LInv, LocksOK
<1> QED
  BY <1>1, <1>3

LEMMA LockingMoves ==
    ASSUME LInv, TTypes, NEW t \in Threads, NEW c \in Conds, NEW h \in Threads \cup {Nobody},
           holder[c] \in {t, Nobody}, holder' = [holder EXCEPT ![c] = h], pc[t] \notin {"announce", "stopping"},
           NEW l, pc' = [pc EXCEPT ![t] = l], l \notin {"announce", "stopping"},
           (t # Main /\ l \in Ending) <=> (t # Main /\ pc[t] \in Ending),
           UNCHANGED todo, NEW u \in Threads
    PROVE  LocksOK(u)'
<1>1. /\ Started(u) \in Conds /\ Block(u) \in Conds
      /\ pc[u] = "announce" => Started(u) # c
      /\ pc[u] = "stopping" => Block(u) # c
  BY LocksAreApart, QuietLock
<1>2. LocksOK(u)
  BY DEF LInv
<1>3. pc'[u] = IF u = t THEN l ELSE pc[u]
  BY DEF TTypes
<1>4. Holds(u, Limbo)' <=> u # Main /\ pc'[u] \in Ending
  BY <1>2, <1>3, OtherLocks DEF LocksOK
<1>5. \A d \in Conds : d # c => (Holds(u, d)' <=> Holds(u, d))
  BY OtherLocks
<1>6. /\ pc'[u] = "announce" => pc[u] = "announce" /\ Holds(u, Started(u))'
      /\ pc'[u] = "stopping" => pc[u] = "stopping" /\ Holds(u, Block(u))'
  <2>1. pc'[u] \in {"announce", "stopping"} => pc'[u] = pc[u]
    BY <1>3
  <2> QED
    BY <1>1, <1>2, <1>5, <2>1 DEF LocksOK
<1>7. /\ todo'[Started(u)] # <<>> => pc'[u] = "announce"
      /\ todo'[Block(u)] # <<>> => pc'[u] = "stopping"
  BY <1>2, <1>3 DEF LocksOK
<1> QED
  BY <1>4, <1>6, <1>7 DEF LocksOK

\* a wait() that does not move, of a thread that does not either;
LEMMA WaitsStand ==
    ASSUME LInv, NEW u \in Threads, pc'[u] = pc[u], target'[u] = target[u], waiting'[u] = waiting[u],
           started \subseteq started', u \in woken' => u \in woken
    PROVE  WaitsOK(u)'
<1>1. WaitsOK(u)
  BY DEF LInv
<1>2. /\ IsWaiting(u)' <=> IsWaiting(u)
      /\ target'[u] \notin started' => target[u] \notin started
  BY DEF IsWaiting
<1> QED
  BY <1>1, <1>2 DEF WaitsOK

\* the beginning of a wait() for the start of a thread;
LEMMA AwaitKeepsLInv ==
    ASSUME LInv, SInv, NEW t \in Threads, Await(t)
    PROVE  LInv'
<1> DEFINE u == target[t]
<1>1. /\ pc[t] = "await" /\ Free(Started(u)) /\ u \in Threads /\ ~IsWaiting(t) /\ t \notin woken
      /\ UNCHANGED <<started, target>> /\ TTypes /\ Started(u) \in Conds
  BY LocksAreApart DEF Await, flags, SInv, StartsOK, Starting, LInv, WaitsOK, CInv
<1>2. CASE Goto(t, "run") /\ UNCHANGED conditionVars
  BY <1>1, <1>2, QuietKeeps DEF Goto, Ending
<1>3. CASE Goto(t, "awaited") /\ Wait(t, Started(u), FALSE)
  <2>1. /\ holder' = [holder EXCEPT ![Started(u)] = Nobody] /\ UNCHANGED <<woken, todo>>
        /\ waiting' = [waiting EXCEPT ![t] = [at |-> "waiter", cond |-> Started(u), timed |-> FALSE]]
        /\ pc' = [pc EXCEPT ![t] = "awaited"]
    BY <1>1, <1>3, LocksAreApart DEF Wait, Unlock, Goto, notifyVars
  <2>2. CInv'
    <3>1. Started(u) \in Conds /\ LockOf[Started(u)] = Started(u) /\ Notified(Started(u))
      <4>1. todo[Started(u)] = <<>>
        BY <1>1, QuietLock DEF Free
      <4> QED
        BY <1>1, <4>1, LocksAreApart
    <3> QED
      BY <1>1, <1>3, <3>1, WaitKeeps DEF LInv
  <2>3. \A v \in Threads : LocksOK(v)'
    BY <1>1, <2>1, LockingMoves DEF Free, Ending
  <2>4. \A v \in Threads \ {t} : pc'[v] = pc[v] /\ waiting'[v] = waiting[v]
    BY <2>1 DEF SInv, TTypes, LInv, CInv, CTypes
  <2>5. pc'[t] = "awaited" /\ waiting'[t] = [at |-> "waiter", cond |-> Started(u), timed |-> FALSE]
    BY <2>1 DEF SInv, TTypes, LInv, CInv, CTypes
  <2>6. target' = target /\ started' = started /\ woken' = woken /\ t \notin woken
    BY <1>1, <2>1
  <2>7. WaitsOK(t)'
    BY <2>5, <2>6 DEF WaitsOK
  <2>8. \A v \in Threads \ {t} : WaitsOK(v)'
    BY <2>4, <2>6 DEF LInv, WaitsOK, IsWaiting
  <2> QED
    BY <2>2, <2>3, <2>7, <2>8 DEF LInv
<1> QED
  BY <1>2, <1>3 DEF Await

\* A wait() that is not inside a start() or a join() any more.
LEMMA LeavesKeep ==
    ASSUME LInv, TTypes, NEW t \in Threads, NEW c \in Conds, Runs(t, c), pc[t] \notin Ending \cup {"announce"},
           Unlock(c), NEW l \in {"run", "pick"}, Goto(t, l), expired' \subseteq Threads,
           UNCHANGED <<waiters, woken, waiting, notifyVars, started, target>>
    PROVE  LInv'
<1>1. /\ holder' = [holder EXCEPT ![c] = Nobody] /\ pc' = [pc EXCEPT ![t] = l]
      /\ holder[c] = t /\ ~IsWaiting(t) /\ todo' = todo
      /\ pc'[t] = l /\ \A u \in Threads \ {t} : pc'[u] = pc[u]
  BY DEF Unlock, Goto, Runs, Holds, notifyVars, TTypes
<1>2. CInv'
  BY <1>1, LocksAreApart, QuietLock, UnlockKeeps DEF LInv, Ending
<1>3. \A v \in Threads : LocksOK(v)'
  BY <1>1, LockingMoves DEF Ending
<1>4. \A v \in Threads : WaitsOK(v)'
  BY <1>1 DEF LInv, WaitsOK, IsWaiting
<1> QED
  BY <1>2, <1>3, <1>4 DEF LInv

LEMMA AwaitedKeepsLInv ==
    ASSUME LInv, SInv, NEW t \in Threads, Awaited(t)
    PROVE  LInv'
<1>1. target[t] \in Threads /\ Started(target[t]) \in Conds
  BY LocksAreApart DEF Awaited, SInv, StartsOK, Starting
<1> QED
  BY <1>1, LeavesKeep DEF Awaited, SInv, LInv, CInv, CTypes, Ending, waitVars, flags

LEMMA JoinLeaveKeepsLInv ==
    ASSUME LInv, SInv, NEW t \in Threads, JoinLeave(t)
    PROVE  LInv'
<1>1. target[t] \in Threads /\ Block(target[t]) \in Conds /\ expired' \subseteq Threads
  BY LocksAreApart DEF JoinLeave, SInv, StartsOK, Joining, LInv, CInv, CTypes
<1> QED
  BY <1>1, LeavesKeep DEF JoinLeave, SInv, Ending, flags

LEMMA JoinEnterKeepsLInv ==
    ASSUME LInv, SInv, NEW t \in Threads, JoinEnter(t)
    PROVE  LInv'
<1> DEFINE c == Block(target[t])
           l == IF pc[t] = "join" THEN "joining" ELSE "timed joining"
<1>1. /\ pc[t] \in {"join", "timed join"} /\ c \in Conds /\ holder[c] = Nobody /\ Lock(t, c)
      /\ holder' = [holder EXCEPT ![c] = t] /\ pc' = [pc EXCEPT ![t] = l]
      /\ UNCHANGED <<waitVars, notifyVars, started, target>> /\ TTypes
  BY LocksAreApart DEF JoinEnter, Lock, Goto, SInv, StartsOK, Joining, flags
<1>2. ~IsWaiting(t) /\ l \in {"joining", "timed joining"}
  BY <1>1 DEF LInv, WaitsOK
<1> HIDE DEF l
<1>3. pc'[t] = l /\ \A u \in Threads \ {t} : pc'[u] = pc[u]
  BY <1>1 DEF TTypes
<1>4. CInv'
  BY <1>1, LocksAreApart, LockKeeps DEF LInv
<1>5. \A v \in Threads : LocksOK(v)'
  BY <1>1, <1>2, LockingMoves DEF Ending, notifyVars
<1>6. \A v \in Threads : WaitsOK(v)'
  BY <1>1, <1>2, <1>3 DEF LInv, WaitsOK, IsWaiting, waitVars
<1> QED
  BY <1>4, <1>5, <1>6 DEF LInv

LEMMA JoinWaitKeepsLInv ==
    ASSUME LInv, SInv, NEW t \in Threads, JoinWait(t)
    PROVE  LInv'
<1> DEFINE c == Block(target[t])
           timed == pc[t] = "timed joining"
<1>1. /\ pc[t] \in {"joining", "timed joining"} /\ c \in Conds /\ timed \in BOOLEAN
      /\ holder[c] = t /\ ~IsWaiting(t) /\ Wait(t, c, timed)
      /\ UNCHANGED <<started, target, pc, woken, todo>> /\ TTypes
  BY LocksAreApart DEF JoinWait, Runs, Holds, Wait, SInv, StartsOK, Joining, threadVars, flags, notifyVars
<1>2. /\ holder' = [holder EXCEPT ![c] = Nobody] /\ pc' = [pc EXCEPT ![t] = pc[t]]
      /\ waiting' = [waiting EXCEPT ![t] = [at |-> "waiter", cond |-> c, timed |-> timed]]
  BY <1>1, LocksAreApart DEF Wait, Unlock, TTypes
<1> HIDE DEF c, timed
<1>3. CInv'
  <2>1. Notified(LockOf[c]) /\ CInv
    BY <1>1, LocksAreApart, QuietLock DEF LInv
  <2> QED
    BY <1>1, <2>1, WaitKeeps
<1>4. \A v \in Threads : LocksOK(v)'
  BY <1>1, <1>2, LockingMoves DEF Ending
<1>5. waiting'[t].cond = c /\ \A v \in Threads \ {t} : waiting'[v] = waiting[v]
  BY <1>2 DEF LInv, CInv, CTypes
<1>6. \A v \in Threads : WaitsOK(v)'
  BY <1>1, <1>5 DEF LInv, WaitsOK, IsWaiting, c
<1> QED
  BY <1>3, <1>4, <1>6 DEF LInv

\* A thread that announces its start or its end;
LEMMA AnnouncesKeep ==
    ASSUME LInv, TTypes, NEW t \in Threads, NEW c \in Conds, Lock(t, c), StartNotifyAll(c),
           NEW l, Goto(t, l), UNCHANGED <<waitVars, target>>,
           \/ pc[t] = "set" /\ c = Started(t) /\ l = "announce" /\ started' = started \cup {t}
           \/ pc[t] = "stop" /\ c = Block(t) /\ l = "stopping" /\ started' = started
    PROVE  LInv'
<1>1. /\ holder[c] = Nobody /\ holder' = [holder EXCEPT ![c] = t] /\ todo[c] = <<>>
      /\ pc'[t] = l /\ \A u \in Threads \ {t} : pc'[u] = pc[u]
      /\ UNCHANGED <<waiters, woken, waiting, expired, target>> /\ started \subseteq started'
  BY QuietLock DEF Lock, Goto, waitVars, TTypes
<1>2. \A d \in Conds : d # c => todo'[d] = todo[d]
  BY DEF StartNotifyAll, StartNotify, LInv, CInv, CTypes
<1>3. CInv'
  <2>1. CInv /\ LockOf[c] = c /\ c \in Locks /\ Len(waiters[c]) \in Nat
    BY LocksAreApart, LenProperties DEF LInv, CInv, CTypes
  <2>2. holder' \in [Locks -> Threads \cup {Nobody}] /\ holder'[LockOf[c]] # Nobody
    BY <1>1, <2>1, ConditionAssumption DEF CInv, CTypes
  <2>3. \A d \in Conds : todo[d] # <<>> => holder'[LockOf[d]] # Nobody
    BY <1>1, <2>1, LocksAreApart, ConditionAssumption DEF CInv, CTypes, NotifyOK
  <2> QED
    BY <1>1, <2>1, <2>2, <2>3, NotifyKeeps DEF StartNotifyAll
<1>4. ASSUME NEW u \in Threads PROVE LocksOK(u)'
  <2>1. /\ LocksOK(u) /\ Started(u) \in Conds /\ Block(u) \in Conds /\ Started(u) # Block(t) /\ Block(u) # Started(t)
        /\ (u # t => Started(u) # Started(t) /\ Block(u) # Block(t))
    BY LocksAreApart DEF LInv
  <2>2. CASE u = t
    BY <1>1, <1>2, <2>1, <2>2, OtherLocks DEF LocksOK, Ending
  <2>3. CASE u # t
    <3>1. Started(u) # c /\ Block(u) # c /\ pc'[u] = pc[u]
      BY <1>1, <2>1, <2>3
    <3> QED
      BY <1>1, <1>2, <2>1, <3>1, OtherLocks DEF LocksOK
  <2> QED
    BY <2>2, <2>3
<1>5. \A v \in Threads : WaitsOK(v)'
  BY <1>1 DEF LInv, WaitsOK, IsWaiting
<1> QED
  BY <1>3, <1>4, <1>5 DEF LInv

\* and goes on.
LEMMA AnnouncedKeep ==
    ASSUME LInv, TTypes, NEW t \in Threads, NEW c \in Conds, Notified(c), Unlock(c),
           NEW l, Goto(t, l), UNCHANGED <<waitVars, notifyVars, target, started>>,
           \/ pc[t] = "announce" /\ c = Started(t) /\ l = "register"
           \/ pc[t] = "stopping" /\ c = Block(t) /\ l = IF t = Main THEN "pick" ELSE "delete"
    PROVE  LInv'
<1>1. /\ holder[c] = t /\ holder' = [holder EXCEPT ![c] = Nobody]
      /\ pc'[t] = l /\ \A u \in Threads \ {t} : pc'[u] = pc[u]
      /\ UNCHANGED <<waiters, woken, waiting, expired, todo, target, started>>
  BY DEF Unlock, Goto, waitVars, notifyVars, TTypes, LInv, LocksOK, Holds
<1>2. todo[c] = <<>>
  BY LocksAreApart
<1>3. CInv'
  BY <1>1, LocksAreApart, UnlockKeeps DEF LInv, CInv, CTypes
<1>4. ASSUME NEW u \in Threads PROVE LocksOK(u)'
  <2>1. /\ LocksOK(u) /\ Started(u) \in Conds /\ Block(u) \in Conds /\ Started(u) # Block(t) /\ Block(u) # Started(t)
        /\ (u # t => Started(u) # Started(t) /\ Block(u) # Block(t))
    BY LocksAreApart DEF LInv
  <2>2. CASE u = t
    BY <1>1, <1>2, <2>1, <2>2, OtherLocks DEF LocksOK, Ending
  <2>3. CASE u # t
    <3>1. Started(u) # c /\ Block(u) # c /\ pc'[u] = pc[u]
      BY <1>1, <2>1, <2>3
    <3> QED
      BY <1>1, <2>1, <3>1, OtherLocks DEF LocksOK
  <2> QED
    BY <2>2, <2>3
<1>5. \A v \in Threads \ {t} : WaitsOK(v)'
  BY <1>1, WaitsStand
<1>6. ~IsWaiting(t) /\ pc'[t] # "awaited"
  BY <1>1 DEF LInv, WaitsOK
<1>7. \A v \in Threads : WaitsOK(v)'
  BY <1>1, <1>5, <1>6 DEF WaitsOK, IsWaiting
<1> QED
  BY <1>3, <1>4, <1>7 DEF LInv

LEMMA EndKeepsLInv ==
    ASSUME LInv, SInv, NEW t \in Threads, End(t)
    PROVE  LInv'
<1>1. /\ pc[t] = "end" /\ t # Main /\ holder[Limbo] = Nobody /\ Lock(t, Limbo)
      /\ holder' = [holder EXCEPT ![Limbo] = t]
      /\ pc'[t] = "stop" /\ \A u \in Threads \ {t} : pc'[u] = pc[u]
      /\ UNCHANGED <<waitVars, notifyVars, waiting, woken, todo, started, target>>
  BY DEF End, Lock, Goto, waitVars, notifyVars, flags, SInv, TTypes, ExitOK
<1>2. CInv'
  BY <1>1, LocksAreApart, LockKeeps DEF LInv
<1>3. \A u \in Threads : (Holds(u, Limbo)' <=> u = t) /\ ~Holds(u, Limbo)
  BY <1>1, LocksAreApart, ConditionAssumption DEF Holds, LInv, CInv, CTypes
<1>4. \A u \in Threads, c \in Conds : Holds(u, c)' <=> Holds(u, c)
  BY <1>1, LocksAreApart DEF Holds, LInv, CInv, CTypes
<1>5. ASSUME NEW u \in Threads PROVE LocksOK(u)'
  <2>1. LocksOK(u) /\ Started(u) \in Conds /\ Block(u) \in Conds
    BY LocksAreApart DEF LInv
  <2> QED
    BY <1>1, <1>3, <1>4, <2>1 DEF LocksOK, Ending
<1>6. \A v \in Threads : WaitsOK(v)'
  BY <1>1 DEF LInv, WaitsOK, IsWaiting
<1> QED
  BY <1>2, <1>5, <1>6 DEF LInv

LEMMA DeleteKeepsLInv ==
    ASSUME LInv, SInv, NEW t \in Threads, Delete(t)
    PROVE  LInv'
<1>1. /\ pc[t] = "delete" /\ t # Main /\ Unlock(Limbo)
      /\ holder' = [holder EXCEPT ![Limbo] = Nobody]
      /\ pc'[t] = "dead" /\ \A u \in Threads \ {t} : pc'[u] = pc[u]
      /\ UNCHANGED <<waiters, waiting, woken, expired, notifyVars, todo, started, target>>
  BY DEF Delete, Unlock, Goto, waitVars, notifyVars, flags, SInv, TTypes, ExitOK
<1>2. CInv'
  BY <1>1, LocksAreApart, UnlockKeeps DEF LInv, CInv, CTypes
<1>3. \A u \in Threads : ~Holds(u, Limbo)' /\ (Holds(u, Limbo) <=> u = t)
  BY <1>1, LocksAreApart, ConditionAssumption DEF Holds, LInv, LocksOK, Ending, CInv, CTypes
<1>4. \A u \in Threads, c \in Conds : Holds(u, c)' <=> Holds(u, c)
  BY <1>1, LocksAreApart DEF Holds, LInv, CInv, CTypes
<1>5. ASSUME NEW u \in Threads PROVE LocksOK(u)'
  <2>1. LocksOK(u) /\ Started(u) \in Conds /\ Block(u) \in Conds
    BY LocksAreApart DEF LInv
  <2> QED
    BY <1>1, <1>3, <1>4, <2>1 DEF LocksOK, Ending
<1>6. \A v \in Threads : WaitsOK(v)'
  BY <1>1 DEF LInv, WaitsOK, IsWaiting
<1> QED
  BY <1>2, <1>5, <1>6 DEF LInv

LEMMA LaunchKeepsLInv ==
    ASSUME LInv, SInv, NEW t \in Threads, Launch(t)
    PROVE  LInv'
<1> DEFINE u == target[t]
<1>1. /\ pc[t] = "launch" /\ u \in Threads /\ pc[u] = "none" /\ u # t /\ ~IsWaiting(t) /\ ~IsWaiting(u)
      /\ UNCHANGED <<conditionVars, holder, waiting, woken, todo, started, target>> /\ TTypes
  <2>1. pc[t] = "launch" /\ UNCHANGED <<conditionVars, holder, waiting, woken, todo, started, target>>
    BY DEF Launch, conditionVars, flags
  <2>2. u \in Threads /\ pc[u] = "none" /\ u # t /\ TTypes
    BY <2>1 DEF SInv, StartsOK, Starting
  <2> QED
    BY <2>1, <2>2 DEF LInv, WaitsOK
<1>2. CASE Goto(t, "unlaunch")
  BY <1>1, <1>2, QuietKeeps DEF Goto, Ending
<1>3. CASE pc' = [pc EXCEPT ![t] = "await", ![u] = "set"]
  <2>1. pc'[t] = "await" /\ pc'[u] = "set" /\ \A v \in Threads \ {t, u} : pc'[v] = pc[v]
    BY <1>1, <1>3 DEF TTypes
  <2>2. CInv'
    BY <1>1, StutterKeeps DEF LInv
  <2>3. ASSUME NEW v \in Threads PROVE LocksOK(v)' /\ WaitsOK(v)'
    <3>1. LocksOK(v)'
      BY <1>1, <2>1 DEF LInv, LocksOK, Holds, Ending
    <3>2. WaitsOK(v)'
      BY <1>1, <2>1 DEF LInv, WaitsOK, IsWaiting
    <3> QED
      BY <3>1, <3>2
  <2> QED
    BY <2>2, <2>3 DEF LInv
<1> QED
  BY <1>2, <1>3 DEF Launch

\* A wait() for the start of a thread does not return before it has started;
LEMMA RestoreKeepsLInv ==
    ASSUME LInv, SInv, NEW t \in Threads, Restore(t), UNCHANGED threadVars
    PROVE  LInv'
<1> DEFINE c == waiting[t].cond
<1>1. /\ waiting[t].at = "restore" /\ IsWaiting(t) /\ c \in Conds /\ holder[c] = Nobody
      /\ holder' = [holder EXCEPT ![c] = t] /\ waiting' = [waiting EXCEPT ![t] = NotWaiting]
      /\ woken' = woken \ {t} /\ UNCHANGED <<todo, started, target, pc>>
  <2>1. c \in Conds
    BY ReturnsClean DEF LInv
  <2> QED
    BY <2>1, LocksAreApart DEF Restore, Lock, IsWaiting, threadVars, flags, notifyVars
<1>2. CInv' /\ TTypes
  BY RestoreKeeps DEF LInv, SInv
<1>3. pc[t] \in {"awaited", "joining", "timed joining"} /\ pc' = [pc EXCEPT ![t] = pc[t]]
  BY <1>1, <1>2 DEF LInv, WaitsOK, TTypes
<1>4. waiting'[t].at = "none" /\ \A v \in Threads \ {t} : waiting'[v] = waiting[v]
  BY <1>1 DEF LInv, CInv, CTypes, NotWaiting
<1> HIDE DEF c
<1>5. \A v \in Threads : LocksOK(v)'
  BY <1>1, <1>2, <1>3, LockingMoves DEF Ending
<1>6. WaitsOK(t)'
  BY <1>1, <1>4 DEF LInv, WaitsOK, IsWaiting
<1>7. \A v \in Threads \ {t} : WaitsOK(v)'
  BY <1>1, <1>4, WaitsStand
<1> QED
  BY <1>2, <1>5, <1>6, <1>7 DEF LInv

\* nor goes on inside;
LEMMA WaitStepKeepsLInv ==
    ASSUME LInv, SInv, NEW t \in Threads, WaitStep(t), UNCHANGED threadVars
    PROVE  LInv'
<1>1. CInv' /\ UNCHANGED <<holder, todo, started, target, pc>>
  BY WaitStepKeeps DEF LInv, WaitStep, WakeUp, TimeOut, RemoveWaiter, threadVars, flags, notifyVars
<1>2. \A v \in Threads : LocksOK(v)'
  BY <1>1 DEF LInv, LocksOK, Holds
<1>3. IsWaiting(t) /\ ~(pc[t] = "awaited" /\ target[t] \notin started) /\ woken' \subseteq woken
  BY DEF LInv, WaitsOK, WaitStep, WakeUp, TimeOut, RemoveWaiter, IsWaiting
<1>4. PICK a \in {"waiter", "remove", "restore"} : waiting' = [waiting EXCEPT ![t].at = a]
  BY DEF WaitStep, WakeUp, TimeOut, RemoveWaiter
<1>5. /\ waiting'[t].cond = waiting[t].cond /\ \A v \in Threads \ {t} : waiting'[v] = waiting[v]
      /\ IsWaiting(t)'
  BY <1>3, <1>4, WaitGoesOn DEF LInv, CInv
<1>6. waiting'[t].timed = waiting[t].timed
  <2>1. waiting[t] \in [at : {"waiter", "remove", "restore"}, cond : Conds, timed : BOOLEAN]
    BY <1>3 DEF LInv, CInv, CTypes, Waits, NotWaiting, IsWaiting
  <2>2. waiting' = [waiting EXCEPT ![t] = [waiting[t] EXCEPT !.at = a]]
    BY <1>4 DEF LInv, CInv, CTypes
  <2> QED
    BY <2>1, <2>2 DEF LInv, CInv, CTypes
<1>7. WaitsOK(t)'
  BY <1>1, <1>3, <1>5, <1>6 DEF LInv, WaitsOK, IsWaiting
<1>8. \A v \in Threads \ {t} : WaitsOK(v)'
  BY <1>1, <1>3, <1>5 DEF LInv, WaitsOK, IsWaiting
<1> QED
  BY <1>1, <1>2, <1>7, <1>8 DEF LInv

\* nor is woken.
LEMMA NotifyingKeepsLInv ==
    ASSUME LInv, SInv, Notifying
    PROVE  LInv'
<1>1. PICK c \in Conds : NotifyStep(c) /\ UNCHANGED threadVars
  BY DEF Notifying
<1>2. CInv' /\ UNCHANGED <<holder, waiting, started, target, pc>>
  BY <1>1, NotifyStepKeeps DEF LInv, NotifyStep, ReleaseWaiter, RemoveNotified, threadVars, flags
<1>3. CASE ReleaseWaiter(c)
  <2> DEFINE h == Head(todo[c])
  <2>1. todo[c] # <<>> /\ todo' = todo /\ woken' = woken \cup {h}
    BY <1>3 DEF ReleaseWaiter
  <2>2. h \in Threads /\ IsWaiting(h) /\ waiting[h].cond = c
    <3>1. todo[c] \in Seq(Threads) /\ NotifyOK(c)
      BY DEF LInv, CInv, CTypes
    <3>2. h \in ToSet(todo[c]) /\ ToSet(todo[c]) \subseteq Threads
      BY <2>1, <3>1, WithoutHead, ElementsOf DEF NotifyOK
    <3> QED
      BY <3>1, <3>2 DEF NotifyOK
  <2> HIDE DEF h
  <2>3. ~(pc[h] = "awaited" /\ target[h] \notin started)
    <3>1. SUFFICES ASSUME pc[h] = "awaited" PROVE target[h] \in started
      OBVIOUS
    <3>2. target[h] \in Threads /\ c = Started(target[h])
      BY <2>2, <3>1 DEF LInv, WaitsOK, SInv, StartsOK, Starting
    <3>3. pc[target[h]] = "announce"
      BY <2>1, <3>2 DEF LInv, LocksOK
    <3> QED
      BY <3>2, <3>3 DEF SInv, FlagsOK
  <2>4. \A v \in Threads : LocksOK(v)' /\ WaitsOK(v)'
    BY <1>2, <2>1, <2>3 DEF LInv, LocksOK, WaitsOK, Holds, IsWaiting
  <2> QED
    BY <1>2, <2>4 DEF LInv
<1>4. CASE RemoveNotified(c)
  <2>1. todo[c] # <<>> /\ woken' = woken /\ \A d \in Conds : d # c => todo'[d] = todo[d]
    BY <1>4 DEF RemoveNotified, LInv, CInv, CTypes, NotifyOK
  <2>2. \A v \in Threads : LocksOK(v)'
    BY <1>2, <2>1, LocksAreApart DEF LInv, LocksOK, Holds
  <2>3. \A v \in Threads : WaitsOK(v)'
    BY <1>2, <2>1 DEF LInv, WaitsOK, IsWaiting
  <2> QED
    BY <1>2, <2>2, <2>3 DEF LInv
<1> QED
  BY <1>1, <1>3, <1>4 DEF NotifyStep

LEMMA NextKeepsLInv ==
    ASSUME LInv, SInv, [Next]_vars
    PROVE  LInv'
<1>1. CASE UNCHANGED vars
  BY <1>1, StutterKeeps
  DEF LInv, LocksOK, WaitsOK, Holds, IsWaiting, vars, conditionVars, threadVars, flags
<1>2. CASE Notifying
  BY <1>2, NotifyingKeepsLInv
<1>3. ASSUME NEW t \in Threads, Calls(t) \/ Finish(t) PROVE LInv'
  <2>1. TTypes /\ pc[t] = "run" /\ UNCHANGED <<conditionVars, started>>
    BY <1>3 DEF Calls, Start, Join, Finish, flags, SInv
  <2>2. \A u \in Threads \ {t} : target'[u] = target[u]
    BY <1>3, <2>1 DEF Calls, Start, Join, Finish, TTypes
  <2>3. PICK l \in {"limbo", "join", "timed join", "stop", "end"} :
           pc' = [pc EXCEPT ![t] = l] /\ (l = "stop" => t = Main)
    <3>1. CASE Calls(t)
      BY <3>1 DEF Calls, Start, Join, Goto
    <3>2. CASE Finish(t)
      BY <3>2 DEF Finish, Goto
    <3> QED
      BY <1>3, <3>1, <3>2
  <2> QED
    BY <2>1, <2>2, <2>3, QuietKeeps DEF Ending
<1>4. ASSUME NEW t \in Threads, EnterLimbo(t) \/ LeaveLimbo(t) \/ Register(t) PROVE LInv'
  BY <1>4, QuietKeeps DEF EnterLimbo, LeaveLimbo, Register, Goto, flags, Ending, SInv
<1>5. CASE Pick \/ Exit
  BY <1>5, QuietKeeps, LocksAreApart DEF Pick, Exit, Goto, flags, Ending, SInv
<1>6. ASSUME NEW u \in Threads, LookAt(u) PROVE LInv'
  <2>1. TTypes /\ Main \in Threads /\ pc[Main] = "scan" /\ UNCHANGED <<conditionVars, started>>
    BY <1>6, LocksAreApart DEF LookAt, flags, SInv
  <2>2. \A v \in Threads \ {Main} : target'[v] = target[v]
    BY <1>6, <2>1 DEF LookAt, TTypes
  <2>3. pc' = [pc EXCEPT ![Main] = "join"] \/ pc' = [pc EXCEPT ![Main] = "scan"]
    BY <1>6, <2>1 DEF LookAt, Goto, TTypes
  <2> QED
    BY <2>1, <2>2, <2>3, QuietKeeps DEF Ending
<1>7. ASSUME NEW t \in Threads, SetStarted(t) PROVE LInv'
  BY <1>7, LocksAreApart, AnnouncesKeep DEF SetStarted, SInv
<1>8. ASSUME NEW t \in Threads, Stop(t) PROVE LInv'
  BY <1>8, LocksAreApart, AnnouncesKeep DEF Stop, SInv
<1>9. ASSUME NEW t \in Threads, Announced(t) PROVE LInv'
  BY <1>9, LocksAreApart, AnnouncedKeep DEF Announced, SInv, flags
<1>10. ASSUME NEW t \in Threads, Stopped(t) PROVE LInv'
  BY <1>10, LocksAreApart, AnnouncedKeep DEF Stopped, SInv, flags
<1>11. ASSUME NEW t \in Threads, Locking(t) PROVE LInv'
  BY <1>4, <1>5, <1>7, <1>8, <1>11, AwaitKeepsLInv, EndKeepsLInv, JoinEnterKeepsLInv, RestoreKeepsLInv DEF Locking
<1>12. ASSUME NEW t \in Threads, Steps(t) PROVE LInv'
  BY <1>6, <1>9, <1>10, <1>12, LaunchKeepsLInv, AwaitedKeepsLInv, DeleteKeepsLInv, JoinWaitKeepsLInv,
     JoinLeaveKeepsLInv, WaitStepKeepsLInv
  DEF Steps
<1> QED
  BY <1>1, <1>2, <1>3, <1>11, <1>12 DEF Next
-----------------------------------------------------------------------------
\* Flags and tables. A thread that goes from one place to another like it;
LEMMA MoveKeeps ==
    ASSUME SInv, NEW t \in Threads, NEW l \in Locations, pc' = [pc EXCEPT ![t] = l],
           UNCHANGED <<daemon, started, stopped, active, limbo, snapshot>>,
           owed' = owed \/ (t = Main /\ owed' \subseteq started \ (daemon \cup {Main})),
           target' \in [Threads -> Threads \cup {Nobody}], \A u \in Threads \ {t} : target'[u] = target[u],
           {pc[t], l} \cap (Starting \cup {"none", "set", "scan", "dead"}) = {},
           pc[t] \in Bootstrap <=> l \in Bootstrap,
           t # Main => (pc[t] \in {"stopping", "delete"} <=> l \in {"stopping", "delete"}),
           t = Main => l \notin {"end", "delete"},
           l \in Joining => target'[t] \in Threads
    PROVE  SInv'
<1>1. pc'[t] = l /\ \A u \in Threads \ {t} : pc'[u] = pc[u]
  BY DEF SInv, TTypes
<1>2. TTypes'
  BY DEF SInv, TTypes
<1>3. ASSUME NEW u \in Threads PROVE FlagsOK(u)'
  <2>1. FlagsOK(u) /\ FlagsOK(t)
    BY DEF SInv
  <2>2. ASSUME NEW v \in Threads
        PROVE  pc'[v] \in {"launch", "unlaunch"} /\ target'[v] = u <=> pc[v] \in {"launch", "unlaunch"} /\ target[v] = u
    BY <1>1 DEF Starting
  <2>3. CASE u = t
    BY <1>1, <2>1, <2>3 DEF FlagsOK, Bootstrap
  <2>4. CASE u # t
    BY <1>1, <2>1, <2>2, <2>4 DEF FlagsOK
  <2> QED
    BY <2>3, <2>4
<1>4. ASSUME NEW u \in Threads PROVE StartsOK(u)'
  <2>1. StartsOK(u) /\ \A v \in Threads : StartsOK(v)
    BY DEF SInv
  <2>2. \A v \in Threads : pc'[v] \in Starting => v # t
    BY <1>1
  <2>3. \A v \in Threads : v # t => pc'[v] = pc[v] /\ target'[v] = target[v]
    BY <1>1
  <2>4. \A v \in Threads : pc'[v] = "none" <=> pc[v] = "none"
    BY <1>1
  <2>5. /\ pc'[u] \in Starting \cup Joining => target'[u] \in Threads
        /\ pc'[u] \in {"limbo", "launch", "unlaunch"} => pc'[target'[u]] = "none"
        /\ pc'[u] \in {"await", "awaited"} => pc'[target'[u]] # "none"
    BY <1>1, <2>1, <2>2, <2>3, <2>4 DEF StartsOK, Starting
  <2>6. \A v \in Threads : {pc'[u], pc'[v]} \subseteq Starting /\ target'[u] = target'[v] => u = v
    BY <2>1, <2>2, <2>3 DEF StartsOK
  <2>7. pc'[u] = "set" => \E v \in Threads : pc'[v] \in {"await", "awaited"} /\ target'[v] = u
    <3>1. SUFFICES ASSUME pc'[u] = "set" PROVE \E v \in Threads : pc'[v] \in {"await", "awaited"} /\ target'[v] = u
      OBVIOUS
    <3>2. pc[u] = "set"
      BY <1>1, <3>1
    <3>3. PICK v \in Threads : pc[v] \in {"await", "awaited"} /\ target[v] = u
      BY <2>1, <3>2 DEF StartsOK
    <3>4. v # t
      BY <3>3 DEF Starting
    <3> QED
      BY <2>3, <3>3, <3>4
  <2> QED
    BY <2>5, <2>6, <2>7 DEF StartsOK
<1>5. ExitOK'
  BY <1>1, LocksAreApart DEF SInv, ExitOK, Bootstrap
<1> QED
  BY <1>2, <1>3, <1>4, <1>5 DEF SInv

LEMMA StillKeeps ==
    ASSUME SInv, UNCHANGED threadVars
    PROVE  SInv'
BY DEF SInv, TTypes, FlagsOK, StartsOK, ExitOK, threadVars, flags, tables, histories

LEMMA MovesKeepSInv ==
    ASSUME SInv, NEW t \in Threads, Finish(t) \/ End(t) \/ Announced(t) \/ Stopped(t) \/ JoinEnter(t) \/ JoinLeave(t)
    PROVE  SInv'
<1>1. /\ UNCHANGED <<daemon, started, stopped, active, limbo, snapshot, target>>
      /\ owed' = owed \/ (t = Main /\ owed' \subseteq started \ (daemon \cup {Main}))
  <2>1. CASE Finish(t)
    BY <2>1 DEF Finish, flags, tables, IsAlive
  <2>2. CASE ~Finish(t)
    BY <2>2 DEF End, Announced, Stopped, JoinEnter, JoinLeave, flags, tables, histories
  <2> QED
    BY <2>1, <2>2
<1>2. target \in [Threads -> Threads \cup {Nobody}] /\ pc[Main] \notin {"end", "announce"}
  BY DEF SInv, TTypes, ExitOK, Bootstrap
<1>3. ASSUME NEW l \in Locations, pc' = [pc EXCEPT ![t] = l],
             \/ pc[t] = "run" /\ l \in {"stop", "end"} /\ (l = "stop" <=> t = Main)
             \/ pc[t] = "end" /\ l = "stop"
             \/ pc[t] = "announce" /\ l = "register"
             \/ pc[t] = "stopping" /\ l = IF t = Main THEN "pick" ELSE "delete"
             \/ pc[t] \in {"join", "timed join"} /\ l \in {"joining", "timed joining"}
             \/ pc[t] \in {"joining", "timed joining"} /\ l \in {"run", "pick"}
      PROVE  SInv'
  <2>1. /\ {pc[t], l} \cap (Starting \cup {"none", "set", "scan", "dead"}) = {}
        /\ pc[t] \in Bootstrap <=> l \in Bootstrap
        /\ t # Main => (pc[t] \in {"stopping", "delete"} <=> l \in {"stopping", "delete"})
        /\ t = Main => l \notin {"end", "delete"}
    BY <1>3 DEF Starting, Bootstrap
  <2>2. l \in Joining => target'[t] \in Threads
    BY <1>1, <1>3 DEF SInv, StartsOK, Joining
  <2> QED
    BY <1>1, <1>2, <1>3, <2>1, <2>2, MoveKeeps
<1>4. {"run", "pick", "stop", "end", "register", "delete", "joining", "timed joining"} \subseteq Locations
  BY DEF Locations, Bootstrap, Ending, Joining, Exiting
<1> QED
  BY <1>3, <1>4 DEF Finish, End, Announced, Stopped, JoinEnter, JoinLeave, Goto

LEMMA JoinKeepsSInv ==
    ASSUME SInv, NEW t \in Threads, NEW u \in Threads, Join(t, u)
    PROVE  SInv'
<1>1. /\ UNCHANGED <<daemon, started, stopped, active, limbo, snapshot, owed>>
      /\ pc[t] = "run" /\ target' = [target EXCEPT ![t] = u]
  BY DEF Join, flags, tables
<1>2. /\ target' \in [Threads -> Threads \cup {Nobody}] /\ target'[t] = u
      /\ \A v \in Threads \ {t} : target'[v] = target[v]
  BY <1>1 DEF SInv, TTypes
<1>3. PICK l \in {"join", "timed join"} : pc' = [pc EXCEPT ![t] = l]
  BY DEF Join, Goto
<1>4. l \in Locations
  BY DEF Locations, Joining
<1>5. /\ {pc[t], l} \cap (Starting \cup {"none", "set", "scan", "dead"}) = {}
      /\ pc[t] \in Bootstrap <=> l \in Bootstrap
      /\ pc[t] \in {"stopping", "delete"} <=> l \in {"stopping", "delete"}
      /\ l \notin {"end", "delete"}
  BY <1>1 DEF Starting, Bootstrap
<1> QED
  BY <1>1, <1>2, <1>3, <1>4, <1>5, MoveKeeps

\* a thread that starts another;
LEMMA StarterMoves ==
    ASSUME SInv, NEW t \in Threads, NEW l \in Starting \cup {"run"}, pc' = [pc EXCEPT ![t] = l],
           pc[t] \in Starting \cup {"run"},
           UNCHANGED <<daemon, started, stopped, active, snapshot, owed>>, limbo' \subseteq Threads,
           target' \in [Threads -> Threads \cup {Nobody}], \A u \in Threads \ {t} : target'[u] = target[u],
           l \in Starting =>
              /\ target'[t] \in Threads
              /\ \A v \in Threads \ {t} : pc[v] \in Starting => target[v] # target'[t]
              /\ l \in {"limbo", "launch", "unlaunch"} <=> pc[target'[t]] = "none",
           pc[t] \in {"await", "awaited"} =>
              (l = "awaited" /\ target'[t] = target[t]) \/ pc[target[t]] # "set",
           \A u \in Threads : u \in limbo' <=>
              \/ pc[u] \in Bootstrap
              \/ pc[u] = "none" /\ \E v \in Threads : pc'[v] \in {"launch", "unlaunch"} /\ target'[v] = u
    PROVE  SInv'
<1>1. /\ pc'[t] = l /\ \A u \in Threads \ {t} : pc'[u] = pc[u]
      /\ \A u \in Threads : /\ pc'[u] = "none" <=> pc[u] = "none"
                            /\ pc'[u] = "set" <=> pc[u] = "set"
                            /\ pc'[u] \in Bootstrap <=> pc[u] \in Bootstrap
  BY DEF SInv, TTypes, Starting, Bootstrap
<1>2. TTypes'
  <2>1. l \in Locations
    BY DEF Locations, Starting
  <2> QED
    BY <2>1 DEF SInv, TTypes
<1>3. ASSUME NEW u \in Threads PROVE FlagsOK(u)'
  <2>1. FlagsOK(u)
    BY DEF SInv
  <2>2. /\ u \in started' <=> pc'[u] \notin {"none", "set"}
        /\ u # Main => /\ u \in stopped' <=> pc'[u] \in {"stopping", "delete", "dead"}
                       /\ u \in active' <=> pc'[u] \notin {"none", "set", "announce", "register", "dead"}
    BY <1>1, <2>1 DEF FlagsOK, Starting
  <2> QED
    BY <1>1, <2>2 DEF FlagsOK
<1>4. ASSUME NEW u \in Threads PROVE StartsOK(u)'
  <2>1. StartsOK(u) /\ StartsOK(t)
    BY DEF SInv
  <2>2. \A v \in Threads : v # t => pc'[v] = pc[v] /\ target'[v] = target[v]
    BY <1>1
  <2>3. /\ pc'[u] \in Starting \cup Joining => target'[u] \in Threads
        /\ pc'[u] \in {"limbo", "launch", "unlaunch"} => pc'[target'[u]] = "none"
        /\ pc'[u] \in {"await", "awaited"} => pc'[target'[u]] # "none"
    <3>1. CASE u = t
      <4>1. l \notin Joining
        BY DEF Starting, Joining
      <4> QED
        BY <1>1, <3>1, <4>1 DEF Starting
    <3>2. CASE u # t
      BY <1>1, <2>1, <2>2, <3>2 DEF StartsOK, Starting
    <3> QED
      BY <3>1, <3>2
  <2>4. \A v \in Threads : {pc'[u], pc'[v]} \subseteq Starting /\ target'[u] = target'[v] => u = v
    BY <1>1, <2>1, <2>2 DEF StartsOK
  <2>5. pc'[u] = "set" => \E v \in Threads : pc'[v] \in {"await", "awaited"} /\ target'[v] = u
    <3>1. SUFFICES ASSUME pc'[u] = "set" PROVE \E v \in Threads : pc'[v] \in {"await", "awaited"} /\ target'[v] = u
      OBVIOUS
    <3>2. PICK v \in Threads : pc[v] \in {"await", "awaited"} /\ target[v] = u
      BY <1>1, <2>1, <3>1 DEF StartsOK
    <3> QED
      BY <1>1, <2>2, <3>1, <3>2
  <2> QED
    BY <2>3, <2>4, <2>5 DEF StartsOK
<1>5. ExitOK'
  BY <1>1, LocksAreApart DEF SInv, ExitOK, Starting, Bootstrap
<1> QED
  BY <1>2, <1>3, <1>4, <1>5 DEF SInv

LEMMA StartKeepsSInv ==
    ASSUME SInv, NEW t \in Threads, NEW u \in Threads, Start(t, u)
    PROVE  SInv'
<1>1. /\ UNCHANGED <<daemon, started, stopped, active, limbo, snapshot, owed>>
      /\ pc[t] = "run" /\ pc' = [pc EXCEPT ![t] = "limbo"] /\ target' = [target EXCEPT ![t] = u]
      /\ \A v \in Threads : ~(pc[v] \in Starting /\ target[v] = u)
  BY DEF Start, Goto, flags, tables
<1>2. /\ target' \in [Threads -> Threads \cup {Nobody}] /\ target'[t] = u /\ limbo' \subseteq Threads
      /\ \A v \in Threads \ {t} : target'[v] = target[v]
      /\ pc'[t] = "limbo" /\ \A v \in Threads \ {t} : pc'[v] = pc[v]
  BY <1>1 DEF SInv, TTypes
<1>3. pc[u] = "none"
  <2>1. u \notin started /\ FlagsOK(u) /\ StartsOK(u)
    BY DEF Start, SInv
  <2> QED
    BY <1>1, <2>1 DEF FlagsOK, StartsOK, Starting
<1>4. ASSUME NEW v \in Threads
      PROVE  v \in limbo' <=> \/ pc[v] \in Bootstrap
                              \/ pc[v] = "none" /\ \E w \in Threads : pc'[w] \in {"launch", "unlaunch"} /\ target'[w] = v
  <2>1. \A w \in Threads : pc'[w] \in {"launch", "unlaunch"} /\ target'[w] = v
                              <=> pc[w] \in {"launch", "unlaunch"} /\ target[w] = v
    BY <1>1, <1>2
  <2> QED
    BY <1>1, <2>1 DEF SInv, FlagsOK
<1>5. "limbo" \in Starting \cup {"run"} /\ pc[t] \notin {"await", "awaited"} /\ pc[t] \in Starting \cup {"run"}
  BY <1>1 DEF Starting
<1>6. \A v \in Threads \ {t} : pc[v] \in Starting => target[v] # target'[t]
  BY <1>1, <1>2
<1>7. "limbo" \in {"limbo", "launch", "unlaunch"} <=> pc[target'[t]] = "none"
  BY <1>2, <1>3
<1>8. /\ UNCHANGED <<daemon, started, stopped, active, snapshot, owed>>
      /\ pc' = [pc EXCEPT ![t] = "limbo"]
      /\ "limbo" \in Starting =>
            /\ target'[t] \in Threads
            /\ \A v \in Threads \ {t} : pc[v] \in Starting => target[v] # target'[t]
            /\ "limbo" \in {"limbo", "launch", "unlaunch"} <=> pc[target'[t]] = "none"
  BY <1>1, <1>2, <1>6, <1>7
<1> QED
  BY <1>2, <1>4, <1>5, <1>8, StarterMoves

\* enters it in the table, and takes it out if it cannot be launched;
LEMMA LimboKeepsSInv ==
    ASSUME SInv, NEW t \in Threads, NEW l, NEW s,
           pc' = [pc EXCEPT ![t] = l], UNCHANGED <<daemon, started, stopped, active, snapshot, owed, target>>,
           \/ pc[t] = "limbo" /\ l = "launch" /\ limbo' = limbo \cup {target[t]}
           \/ pc[t] = "launch" /\ l = "unlaunch" /\ limbo' = limbo
           \/ pc[t] = "unlaunch" /\ l = "run" /\ limbo' = limbo \ {target[t]}
    PROVE  SInv'
<1> DEFINE u == target[t]
<1>1. u \in Threads /\ pc[u] = "none" /\ \A v \in Threads \ {t} : pc[v] \in Starting => target[v] # u
  BY DEF SInv, StartsOK, Starting
<1>2. l \in Starting \cup {"run"} /\ pc[t] \in Starting /\ pc[t] \notin {"await", "awaited"}
  BY DEF Starting
<1>3. pc'[t] = l /\ \A v \in Threads \ {t} : pc'[v] = pc[v]
  BY DEF SInv, TTypes
<1>4. limbo' \subseteq Threads /\ target \in [Threads -> Threads \cup {Nobody}]
  BY <1>1 DEF SInv, TTypes
<1> HIDE DEF u
<1>5. ASSUME NEW v \in Threads
      PROVE  v \in limbo' <=> \/ pc[v] \in Bootstrap
                              \/ pc[v] = "none" /\ \E w \in Threads : pc'[w] \in {"launch", "unlaunch"} /\ target'[w] = v
  <2>1. FlagsOK(v)
    BY DEF SInv
  <2>2. CASE v = u
    <3>1. \A w \in Threads : pc'[w] \in {"launch", "unlaunch"} /\ target'[w] = u <=> w = t /\ l \in {"launch", "unlaunch"}
      BY <1>1, <1>3 DEF Starting, u
    <3>2. u \in limbo' <=> l \in {"launch", "unlaunch"}
      <4>1. pc[u] \notin Bootstrap
        BY <1>1 DEF Bootstrap
      <4>2. pc[t] = "launch" => u \in limbo
        BY <1>1, <2>1, <2>2 DEF FlagsOK, u
      <4> QED
        BY <4>2 DEF u
    <3> QED
      BY <1>1, <2>2, <3>1, <3>2 DEF Bootstrap
  <2>3. CASE v # u
    <3>1. v \in limbo' <=> v \in limbo
      BY <2>3 DEF u
    <3>2. \A w \in Threads : pc'[w] \in {"launch", "unlaunch"} /\ target'[w] = v
                                <=> pc[w] \in {"launch", "unlaunch"} /\ target[w] = v
      BY <1>3, <2>3 DEF u
    <3> QED
      BY <2>1, <3>1, <3>2 DEF FlagsOK
  <2> QED
    BY <2>2, <2>3
<1>6. l \in Starting =>
         /\ target'[t] \in Threads
         /\ \A v \in Threads \ {t} : pc[v] \in Starting => target[v] # target'[t]
         /\ l \in {"limbo", "launch", "unlaunch"} <=> pc[target'[t]] = "none"
  BY <1>1 DEF u, Starting
<1>7. l \in Starting \cup {"run"} /\ pc[t] \in Starting \cup {"run"}
  BY <1>2
<1> QED
  BY <1>2, <1>4, <1>5, <1>6, <1>7, StarterMoves

\* launches it;
LEMMA LaunchKeepsSInv ==
    ASSUME SInv, NEW t \in Threads, Launch(t)
    PROVE  SInv'
<1> DEFINE u == target[t]
<1>1. pc[t] = "launch" /\ UNCHANGED <<daemon, started, stopped, active, limbo, snapshot, owed, target>>
  BY DEF Launch, flags, tables
<1>2. CASE Goto(t, "unlaunch")
  BY <1>1, <1>2, LimboKeepsSInv DEF Goto
<1>3. CASE pc' = [pc EXCEPT ![t] = "await", ![u] = "set"]
  <2>1. u \in Threads /\ pc[u] = "none" /\ u # t /\ \A v \in Threads \ {t} : pc[v] \in Starting => target[v] # u
    BY <1>1 DEF SInv, StartsOK, Starting
  <2>2. pc'[t] = "await" /\ pc'[u] = "set" /\ \A v \in Threads \ {t, u} : pc'[v] = pc[v]
    BY <1>3, <2>1 DEF SInv, TTypes
  <2>3. TTypes'
    <3>1. "await" \in Locations /\ "set" \in Locations
      BY DEF Locations, Starting, Bootstrap
    <3> QED
      BY <1>1, <1>3, <3>1 DEF SInv, TTypes
  <2> HIDE DEF u
  <2>4. ASSUME NEW v \in Threads PROVE FlagsOK(v)'
    <3>1. FlagsOK(v) /\ UNCHANGED <<started, stopped, active, limbo, target>>
      BY <1>1 DEF SInv
    <3>2. CASE v = u
      <4>1. u \in limbo
        BY <1>1, <2>1, <3>1, <3>2 DEF FlagsOK, u
      <4> QED
        BY <2>1, <2>2, <3>1, <3>2, <4>1 DEF FlagsOK, Bootstrap
    <3>3. CASE v = t
      BY <1>1, <2>2, <3>1, <3>3 DEF FlagsOK, Bootstrap
    <3>4. CASE v # u /\ v # t
      <4>1. \A w \in Threads : pc'[w] \in {"launch", "unlaunch"} /\ target[w] = v
                                  <=> pc[w] \in {"launch", "unlaunch"} /\ target[w] = v
        BY <2>1, <2>2, <3>4 DEF u
      <4> QED
        BY <2>2, <3>1, <3>4, <4>1 DEF FlagsOK
    <3> QED
      BY <3>2, <3>3, <3>4
  <2>5. ASSUME NEW v \in Threads PROVE StartsOK(v)'
    <3>1. /\ StartsOK(v) /\ StartsOK(t) /\ target' = target
          /\ \A w \in Threads : pc'[w] \in Starting <=> pc[w] \in Starting
      BY <1>1, <2>1, <2>2 DEF SInv, Starting
    <3>2. /\ pc'[v] \in Starting \cup Joining => target[v] \in Threads
          /\ pc'[v] \in {"limbo", "launch", "unlaunch"} => pc'[target[v]] = "none"
          /\ pc'[v] \in {"await", "awaited"} => pc'[target[v]] # "none"
      <4>1. CASE v = u
        BY <2>2, <4>1 DEF Starting, Joining
      <4>2. CASE v = t
        BY <2>1, <2>2, <4>2 DEF u
      <4>3. CASE v # u /\ v # t
        <5>1. pc'[v] = pc[v] /\ (pc[v] \in Starting => target[v] # u)
          BY <2>1, <2>2, <4>3
        <5>2. pc[v] \in {"limbo", "launch", "unlaunch"} => pc'[target[v]] = "none"
          BY <1>1, <2>2, <3>1, <5>1 DEF StartsOK, Starting
        <5>3. pc[v] \in {"await", "awaited"} => pc'[target[v]] # "none"
          BY <2>2, <3>1, <5>1 DEF StartsOK, Starting
        <5> QED
          BY <3>1, <5>1, <5>2, <5>3 DEF StartsOK
      <4> QED
        BY <4>1, <4>2, <4>3
    <3>3. \A w \in Threads : {pc'[v], pc'[w]} \subseteq Starting /\ target[v] = target[w] => v = w
      BY <3>1 DEF StartsOK
    <3>4. pc'[v] = "set" => \E w \in Threads : pc'[w] \in {"await", "awaited"} /\ target[w] = v
      <4>1. CASE v = u
        BY <2>2, <4>1 DEF u
      <4>2. CASE v # u
        <5>1. SUFFICES ASSUME pc'[v] = "set" PROVE \E w \in Threads : pc'[w] \in {"await", "awaited"} /\ target[w] = v
          OBVIOUS
        <5>2. pc[v] = "set"
          BY <2>2, <4>2, <5>1
        <5>3. PICK w \in Threads : pc[w] \in {"await", "awaited"} /\ target[w] = v
          BY <3>1, <5>2 DEF StartsOK
        <5> QED
          BY <1>1, <2>1, <2>2, <5>3
      <4> QED
        BY <4>1, <4>2
    <3> QED
      BY <3>1, <3>2, <3>3, <3>4 DEF StartsOK
  <2>6. ExitOK'
    BY <1>1, <2>1, <2>2, LocksAreApart DEF SInv, ExitOK, Bootstrap
  <2> QED
    BY <2>3, <2>4, <2>5, <2>6 DEF SInv
<1> QED
  BY <1>2, <1>3 DEF Launch

\* and waits until it has started.
LEMMA AwaitKeepsSInv ==
    ASSUME LInv, SInv, NEW t \in Threads, Await(t) \/ Awaited(t)
    PROVE  SInv'
<1> DEFINE u == target[t]
<1>1. /\ UNCHANGED <<daemon, started, stopped, active, limbo, snapshot, owed, target>>
      /\ pc[t] \in {"await", "awaited"}
  BY DEF Await, Awaited, flags, tables, histories
<1>2. /\ u \in Threads /\ pc[u] # "none" /\ limbo' \subseteq Threads /\ target \in [Threads -> Threads \cup {Nobody}]
      /\ \A v \in Threads \ {t} : pc[v] \in Starting => target[v] # u
  BY <1>1 DEF SInv, StartsOK, TTypes, Starting
<1>3. CASE u \in started /\ pc' = [pc EXCEPT ![t] = "run"]
  <2>1. pc[u] # "set"
    BY <1>2, <1>3 DEF SInv, FlagsOK
  <2>2. "run" \in Starting \cup {"run"} /\ "run" \notin Starting /\ pc[t] \in Starting \cup {"run"}
    BY <1>1 DEF Starting
  <2>3. \A v \in Threads : pc'[v] \in {"launch", "unlaunch"} <=> pc[v] \in {"launch", "unlaunch"}
    BY <1>1, <1>3 DEF SInv, TTypes
  <2>4. \A v \in Threads : v \in limbo' <=>
              \/ pc[v] \in Bootstrap
              \/ pc[v] = "none" /\ \E w \in Threads : pc'[w] \in {"launch", "unlaunch"} /\ target'[w] = v
    BY <1>1, <2>3 DEF SInv, FlagsOK
  <2> QED
    BY <1>1, <1>2, <1>3, <2>1, <2>2, <2>4, StarterMoves
<1>4. CASE pc' = [pc EXCEPT ![t] = "awaited"]
  <2>1. "awaited" \in Starting \cup {"run"} /\ pc[t] \in Starting \cup {"run"}
    BY <1>1 DEF Starting
  <2>2. \A v \in Threads : pc'[v] \in {"launch", "unlaunch"} <=> pc[v] \in {"launch", "unlaunch"}
    BY <1>1, <1>4 DEF SInv, TTypes
  <2>3. \A v \in Threads : v \in limbo' <=>
              \/ pc[v] \in Bootstrap
              \/ pc[v] = "none" /\ \E w \in Threads : pc'[w] \in {"launch", "unlaunch"} /\ target'[w] = v
    BY <1>1, <2>2 DEF SInv, FlagsOK
  <2> QED
    BY <1>1, <1>2, <1>4, <2>1, <2>3, StarterMoves
<1>5. CASE Await(t)
  BY <1>3, <1>4, <1>5 DEF Await, Goto
<1>6. CASE Awaited(t)
  BY <1>3, <1>6 DEF Awaited, Goto, Runs, IsWaiting, LInv, WaitsOK
<1> QED
  BY <1>5, <1>6

\* A thread that changes its own flags and its place in the tables;
LEMMA OwnFlags ==
    ASSUME SInv, NEW t \in Threads, NEW l \in Locations, pc' = [pc EXCEPT ![t] = l],
           {pc[t], l} \cap (Starting \cup Joining \cup {"none"}) = {}, l # "set",
           t = Main => l \notin Bootstrap \cup {"end", "delete", "scan", "dead"},
           UNCHANGED <<daemon, target, snapshot, owed>>,
           started \subseteq started', stopped \subseteq stopped', stopped' \subseteq started',
           started' \cup active' \cup limbo' \subseteq Threads, FlagsOK(t)',
           \A u \in Threads \ {t} : /\ u \in started' <=> u \in started
                                    /\ u \in stopped' <=> u \in stopped
                                    /\ u \in active' <=> u \in active
                                    /\ u \in limbo' <=> u \in limbo
    PROVE  SInv'
<1>1. pc'[t] = l /\ \A u \in Threads \ {t} : pc'[u] = pc[u]
  BY DEF SInv, TTypes
<1>2. TTypes'
  BY DEF SInv, TTypes
<1>3. ASSUME NEW u \in Threads PROVE FlagsOK(u)'
  <2>1. CASE u # t
    <3>1. \A v \in Threads : pc'[v] \in {"launch", "unlaunch"} <=> pc[v] \in {"launch", "unlaunch"}
      BY <1>1 DEF Starting
    <3>2. FlagsOK(u) /\ pc'[u] = pc[u]
      BY <1>1, <2>1 DEF SInv
    <3> QED
      BY <2>1, <3>1, <3>2 DEF FlagsOK
  <2> QED
    BY <2>1
<1>4. ASSUME NEW u \in Threads PROVE StartsOK(u)'
  <2>1. /\ StartsOK(u) /\ target' = target
        /\ \A v \in Threads : /\ pc'[v] = "none" <=> pc[v] = "none"
                              /\ pc'[v] = "set" => pc[v] = "set"
                              /\ pc'[v] \in Joining => pc[v] \in Joining
                              /\ pc'[v] \in Starting <=> pc[v] \in Starting
                              /\ pc'[v] \in Starting => pc'[v] = pc[v]
                              /\ pc[v] \in Starting => pc'[v] = pc[v]
    BY <1>1 DEF SInv
  <2>2. pc'[u] \in Starting \cup Joining => target[u] \in Threads
    BY <2>1 DEF StartsOK
  <2>3. /\ pc'[u] \in {"limbo", "launch", "unlaunch"} => pc'[target[u]] = "none"
        /\ pc'[u] \in {"await", "awaited"} => pc'[target[u]] # "none"
    BY <2>1, <2>2 DEF StartsOK, Starting
  <2>4. \A v \in Threads : {pc'[u], pc'[v]} \subseteq Starting /\ target[u] = target[v] => u = v
    BY <2>1 DEF StartsOK
  <2>5. pc'[u] = "set" => \E v \in Threads : pc'[v] \in {"await", "awaited"} /\ target[v] = u
    BY <2>1 DEF StartsOK, Starting
  <2> QED
    BY <2>1, <2>2, <2>3, <2>4, <2>5 DEF StartsOK
<1>5. ExitOK'
  <2>1. CASE t = Main
    BY <1>1, <2>1 DEF SInv, ExitOK, Bootstrap
  <2>2. CASE t # Main
    BY <1>1, <2>2, LocksAreApart DEF SInv, ExitOK
  <2> QED
    BY <2>1, <2>2
<1> QED
  BY <1>2, <1>3, <1>4, <1>5 DEF SInv

LEMMA OwnFlagsKeepSInv ==
    ASSUME SInv, NEW t \in Threads, SetStarted(t) \/ Register(t) \/ Stop(t) \/ Delete(t)
    PROVE  SInv'
<1>1. /\ UNCHANGED <<daemon, target, snapshot, owed>> /\ FlagsOK(t)
      /\ started \subseteq Threads /\ stopped \subseteq started /\ active \subseteq Threads /\ limbo \subseteq Threads
      /\ pc[Main] \notin Bootstrap \cup {"delete"}
  BY DEF SetStarted, Register, Stop, Delete, flags, tables, histories, SInv, TTypes, ExitOK
<1>2. {"announce", "run", "stopping", "dead"} \subseteq Locations
  BY DEF Locations, Bootstrap, Ending
<1>3. CASE SetStarted(t)
  <2>1. /\ pc[t] = "set" /\ pc' = [pc EXCEPT ![t] = "announce"]
        /\ started' = started \cup {t} /\ UNCHANGED <<stopped, active, limbo>>
    BY <1>3 DEF SetStarted, Goto, tables
  <2>2. t # Main /\ pc'[t] = "announce"
    BY <1>1, <2>1 DEF SInv, TTypes, Bootstrap
  <2>3. FlagsOK(t)'
    BY <1>1, <2>1, <2>2 DEF FlagsOK, Bootstrap
  <2>4. {pc[t], "announce"} \cap (Starting \cup Joining \cup {"none"}) = {}
    BY <2>1 DEF Starting, Joining
  <2> QED
    BY <1>1, <1>2, <2>1, <2>2, <2>3, <2>4, OwnFlags
<1>4. CASE Register(t)
  <2>1. /\ pc[t] = "register" /\ pc' = [pc EXCEPT ![t] = "run"]
        /\ active' = active \cup {t} /\ limbo' = limbo \ {t} /\ UNCHANGED <<started, stopped>>
    BY <1>4 DEF Register, Goto, flags
  <2>2. t # Main /\ pc'[t] = "run"
    BY <1>1, <2>1 DEF SInv, TTypes, Bootstrap
  <2>3. FlagsOK(t)'
    BY <1>1, <2>1, <2>2 DEF FlagsOK, Bootstrap
  <2>4. {pc[t], "run"} \cap (Starting \cup Joining \cup {"none"}) = {}
    BY <2>1 DEF Starting, Joining
  <2> QED
    BY <1>1, <1>2, <2>1, <2>2, <2>3, <2>4, OwnFlags
<1>5. CASE Stop(t)
  <2>1. /\ pc[t] = "stop" /\ pc' = [pc EXCEPT ![t] = "stopping"]
        /\ stopped' = stopped \cup {t} /\ UNCHANGED <<started, active, limbo>>
    BY <1>5 DEF Stop, Goto, tables
  <2>2. t \in started /\ pc'[t] = "stopping"
    BY <1>1, <2>1 DEF SInv, TTypes, FlagsOK
  <2>3. FlagsOK(t)'
    BY <1>1, <2>1, <2>2 DEF FlagsOK, Bootstrap
  <2>4. {pc[t], "stopping"} \cap (Starting \cup Joining \cup {"none"}) = {}
    BY <2>1 DEF Starting, Joining
  <2>5. "stopping" \notin Bootstrap
    BY DEF Bootstrap
  <2> QED
    BY <1>1, <1>2, <2>1, <2>2, <2>3, <2>4, <2>5, OwnFlags
<1>6. CASE Delete(t)
  <2>1. /\ pc[t] = "delete" /\ pc' = [pc EXCEPT ![t] = "dead"]
        /\ active' = active \ {t} /\ UNCHANGED <<started, stopped, limbo>>
    BY <1>6 DEF Delete, Goto, flags
  <2>2. t # Main /\ pc'[t] = "dead"
    BY <1>1, <2>1 DEF SInv, TTypes
  <2>3. FlagsOK(t)'
    BY <1>1, <2>1, <2>2 DEF FlagsOK, Bootstrap
  <2>4. {pc[t], "dead"} \cap (Starting \cup Joining \cup {"none"}) = {}
    BY <2>1 DEF Starting, Joining
  <2> QED
    BY <1>1, <1>2, <2>1, <2>2, <2>3, <2>4, OwnFlags
<1> QED
  BY <1>3, <1>4, <1>5, <1>6

\* and the main thread at its exit.
LEMMA MainMoves ==
    ASSUME SInv, NEW l \in {"scan", "join", "dead"}, pc' = [pc EXCEPT ![Main] = l], pc[Main] \in {"pick", "scan"},
           UNCHANGED <<daemon, started, stopped, limbo, owed>>, snapshot' \subseteq Threads,
           active' \subseteq Threads, \A u \in Threads \ {Main} : u \in active' <=> u \in active,
           target' \in [Threads -> Threads \cup {Nobody}], \A u \in Threads \ {Main} : target'[u] = target[u],
           l = "join" => target'[Main] \in Threads,
           l = "scan" => owed \ stopped \subseteq snapshot',
           l = "dead" => owed \subseteq stopped
    PROVE  SInv'
<1>1. /\ Main \in Threads /\ pc'[Main] = l /\ \A u \in Threads \ {Main} : pc'[u] = pc[u]
  BY LocksAreApart DEF SInv, TTypes
<1>2. TTypes'
  <2>1. l \in Locations
    BY DEF Locations, Exiting, Joining
  <2> QED
    BY <2>1 DEF SInv, TTypes
<1>3. \A v \in Threads : /\ pc'[v] = "none" <=> pc[v] = "none"
                         /\ pc'[v] = "set" <=> pc[v] = "set"
                         /\ pc'[v] \in Bootstrap <=> pc[v] \in Bootstrap
                         /\ pc'[v] \in Starting <=> pc[v] \in Starting
                         /\ pc[v] \in Starting => pc'[v] = pc[v] /\ target'[v] = target[v]
  BY <1>1 DEF Starting, Bootstrap
<1>4. ASSUME NEW u \in Threads PROVE FlagsOK(u)'
  <2>1. FlagsOK(u) /\ FlagsOK(Main)
    BY <1>1 DEF SInv
  <2>2. \A v \in Threads : pc'[v] \in {"launch", "unlaunch"} /\ target'[v] = u
                              <=> pc[v] \in {"launch", "unlaunch"} /\ target[v] = u
    BY <1>1, <1>3 DEF Starting
  <2>3. u \in limbo' <=> \/ pc'[u] \in Bootstrap
                         \/ pc'[u] = "none" /\ \E v \in Threads : pc'[v] \in {"launch", "unlaunch"} /\ target'[v] = u
    BY <1>3, <2>1, <2>2 DEF FlagsOK
  <2>4. u \in started' <=> pc'[u] \notin {"none", "set"}
    BY <1>3, <2>1 DEF FlagsOK
  <2>5. u # Main => /\ u \in stopped' <=> pc'[u] \in {"stopping", "delete", "dead"}
                    /\ u \in active' <=> pc'[u] \notin {"none", "set", "announce", "register", "dead"}
    BY <1>1, <2>1 DEF FlagsOK
  <2> QED
    BY <2>3, <2>4, <2>5 DEF FlagsOK
<1>5. ASSUME NEW u \in Threads PROVE StartsOK(u)'
  <2>1. StartsOK(u) /\ StartsOK(Main)
    BY <1>1 DEF SInv
  <2>2. pc'[u] \in Starting \cup Joining => target'[u] \in Threads
    <3>1. CASE u = Main
      BY <1>1, <3>1 DEF Joining, Starting
    <3>2. CASE u # Main
      BY <1>1, <2>1, <3>2 DEF StartsOK
    <3> QED
      BY <3>1, <3>2
  <2>3. /\ pc'[u] \in {"limbo", "launch", "unlaunch"} => pc'[target'[u]] = "none"
        /\ pc'[u] \in {"await", "awaited"} => pc'[target'[u]] # "none"
    BY <1>3, <2>1, <2>2 DEF StartsOK, Starting
  <2>4. \A v \in Threads : {pc'[u], pc'[v]} \subseteq Starting /\ target'[u] = target'[v] => u = v
    BY <1>3, <2>1 DEF StartsOK
  <2>5. pc'[u] = "set" => \E v \in Threads : pc'[v] \in {"await", "awaited"} /\ target'[v] = u
    BY <1>3, <2>1 DEF StartsOK, Starting
  <2> QED
    BY <2>2, <2>3, <2>4, <2>5 DEF StartsOK
<1>6. ExitOK'
  BY <1>1 DEF SInv, ExitOK, Bootstrap
<1> QED
  BY <1>2, <1>4, <1>5, <1>6 DEF SInv

\* Whoever is alive when the tables are not being changed is in one of them.
LEMMA PickKeepsSInv ==
    ASSUME LInv, SInv, Pick
    PROVE  SInv'
<1>1. /\ pc[Main] = "pick" /\ pc' = [pc EXCEPT ![Main] = "scan"] /\ Free(Limbo) /\ snapshot' = active \cup limbo
      /\ UNCHANGED <<daemon, started, stopped, active, limbo, owed, target>>
  BY DEF Pick, Goto, flags, tables, histories
<1>2. ASSUME NEW u \in owed \ stopped PROVE u \in active \cup limbo
  <2>1. u \in started /\ u \in Threads /\ u # Main
    BY DEF SInv, TTypes, ExitOK
  <2>2. pc[u] \notin Ending
    BY <1>1, <2>1, ConditionAssumption DEF LInv, LocksOK, Holds, Free
  <2>3. FlagsOK(u)
    BY <2>1 DEF SInv
  <2> QED
    BY <1>2, <2>1, <2>2, <2>3 DEF FlagsOK, Bootstrap
<1>3. /\ snapshot' \subseteq Threads /\ active' \subseteq Threads /\ target' \in [Threads -> Threads \cup {Nobody}]
      /\ owed \ stopped \subseteq snapshot'
  BY <1>1, <1>2 DEF SInv, TTypes
<1> QED
  BY <1>1, <1>3, MainMoves

LEMMA LookAtKeepsSInv ==
    ASSUME SInv, NEW u \in Threads, LookAt(u)
    PROVE  SInv'
<1>1. /\ pc[Main] = "scan" /\ Main \in Threads
      /\ UNCHANGED <<daemon, started, stopped, active, limbo, owed>>
      /\ active \subseteq Threads /\ snapshot \subseteq Threads
      /\ pc \in [Threads -> Locations] /\ target \in [Threads -> Threads \cup {Nobody}]
  BY LocksAreApart DEF LookAt, flags, tables, histories, SInv, TTypes
<1>2. CASE u \notin daemon /\ IsAlive(u)
  <2>1. snapshot' = {} /\ target' = [target EXCEPT ![Main] = u] /\ pc' = [pc EXCEPT ![Main] = "join"]
    BY <1>2 DEF LookAt, Goto
  <2>2. /\ target' \in [Threads -> Threads \cup {Nobody}] /\ target'[Main] = u
        /\ \A v \in Threads \ {Main} : target'[v] = target[v]
    BY <1>1, <2>1
  <2> QED
    BY <1>1, <2>1, <2>2, MainMoves
<1>3. CASE ~(u \notin daemon /\ IsAlive(u))
  <2>1. snapshot' = snapshot \ {u} /\ target' = target /\ pc' = [pc EXCEPT ![Main] = "scan"]
    BY <1>1, <1>3 DEF LookAt
  <2>2. owed \ stopped \subseteq snapshot'
    BY <1>1, <1>3, <2>1 DEF SInv, ExitOK, IsAlive
  <2> QED
    BY <1>1, <2>1, <2>2, MainMoves
<1> QED
  BY <1>2, <1>3

LEMMA ExitKeepsSInv ==
    ASSUME SInv, Exit
    PROVE  SInv'
<1>1. /\ pc[Main] = "scan" /\ pc' = [pc EXCEPT ![Main] = "dead"] /\ active' = active \ {Main} /\ snapshot = {}
      /\ UNCHANGED <<daemon, started, stopped, limbo, owed, target, snapshot>>
  BY DEF Exit, Goto, flags, histories
<1>2. /\ snapshot' \subseteq Threads /\ active' \subseteq Threads /\ target' \in [Threads -> Threads \cup {Nobody}]
      /\ owed \subseteq stopped
  BY <1>1 DEF SInv, TTypes, ExitOK
<1> QED
  BY <1>1, <1>2, MainMoves

LEMMA NextKeepsSInv ==
    ASSUME LInv, SInv, [Next]_vars
    PROVE  SInv'
<1>1. CASE UNCHANGED vars \/ Notifying
  BY <1>1, StillKeeps DEF vars, Notifying
<1>2. ASSUME NEW t \in Threads, Calls(t) \/ Finish(t) PROVE SInv'
  BY <1>2, StartKeepsSInv, JoinKeepsSInv, MovesKeepSInv DEF Calls
<1>3. ASSUME NEW t \in Threads, EnterLimbo(t) \/ LeaveLimbo(t) PROVE SInv'
  <2>1. UNCHANGED <<daemon, started, stopped, active, snapshot, owed, target>>
    BY <1>3 DEF EnterLimbo, LeaveLimbo, flags, histories
  <2> QED
    BY <1>3, <2>1, LimboKeepsSInv DEF EnterLimbo, LeaveLimbo, Goto
<1>4. ASSUME NEW t \in Threads, Locking(t) PROVE SInv'
  BY <1>3, <1>4, AwaitKeepsSInv, OwnFlagsKeepSInv, MovesKeepSInv, PickKeepsSInv, ExitKeepsSInv, StillKeeps DEF Locking
<1>5. ASSUME NEW t \in Threads, Steps(t) PROVE SInv'
  BY <1>5, LaunchKeepsSInv, AwaitKeepsSInv, MovesKeepSInv, OwnFlagsKeepSInv, LookAtKeepsSInv, StillKeeps
  DEF Steps, JoinWait
<1> QED
  BY <1>1, <1>2, <1>4, <1>5 DEF Next
-----------------------------------------------------------------------------
LEMMA Invariance == Spec => []TInv
<1>1. TInv /\ [Next]_vars => TInv'
  BY NextKeepsLInv, NextKeepsSInv DEF TInv
<1> QED
  BY <1>1, InitTInv, PTL DEF Spec

\* The types of the variables, for any threads and calls.
THEOREM TypeCorrect == Spec => []TypeOK
  BY Invariance, TInvImpliesSafety, PTL

\* enumerate() lists those who are alive or about to be, for any threads and calls of
\* start() and join().
THEOREM EnumerationIsTrue == Spec => []AliveAreListed
  BY Invariance, TInvImpliesSafety, PTL

\* The exit of the main thread waits for the non-daemonic threads that were alive when
\* its body ended, for any threads, daemons and calls.
THEOREM ExitWaits == Spec => []ExitJoinsTheLiving
  BY Invariance, TInvImpliesSafety, PTL
=============================================================================
